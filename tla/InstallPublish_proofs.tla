------------------------ MODULE InstallPublish_proofs ------------------------
(***************************************************************************)
(* Proofs about the publish transaction for any number of install          *)
(* locations, versions, publishes, crashes, faults and edits: the type     *)
(* invariant, the originals of an unfinished publish, what retention and   *)
(* later publishes leave alone, the files of others, the service under a   *)
(* publish, and that a publish is all or nothing (AbstractPublish).        *)
(***************************************************************************)
EXTENDS GatewayPublish, TLAPS

(* The calls of the participants: a failure counts as a fault (Next) or is *)
(* bounded in the service (GatewayNext).  What follows is proved for the   *)
(* steps of both.                                                          *)
Calls ==
  \/ BeforePublish \/ AfterPublish \/ BeforeRestore \/ AfterRestore
  \/ /\ Fault \/ NoFault
     /\ \/ \E code \in {2, 3} : BeforePublishFails(code)
        \/ \E code \in {1, 4} : AfterPublishFails(code)
        \/ BeforeRestoreFails
        \/ AfterRestoreFails

Step == StartCommand \/ Recover \/ Publish \/ Restore \/ Calls \/ Environment

Steps == Init /\ [][Step]_vars

LEMMA BothStep ==
  /\ Spec => Steps
  /\ GatewaySpec => Steps
<1>1. Next => Step
  BY DEF Next, Step, Participants, Calls
<1>2. GatewayNext => Step \/ UNCHANGED vars
  BY DEF GatewayNext, Hooks, Login, Step, Calls, Environment
<1>3. [GatewayNext]_gatewayVars => [Step]_vars
  BY <1>2 DEF gatewayVars
<1>4. [Next]_vars => [Step]_vars
  BY <1>1
<1>5. GatewayInit => Init
  BY DEF GatewayInit
<1> QED
  BY <1>3, <1>4, <1>5, PTL DEF Spec, GatewaySpec, Steps

(* The values the actions build have the types TypeOK gives them.          *)
LEMMA ContentType ==
  ASSUME NEW slot \in Slot
  PROVE  ContentOf(slot) \in Seen
BY DEF ContentOf, Slot, File, Seen

LEMMA FileType ==
  ASSUME NEW c \in Content, NEW id \in Int
  PROVE  [c |-> c, id |-> id] \in File
BY DEF File

LEMMA EmptyTypes ==
  /\ None \in Slot
  /\ NoSlots \in [Target -> Slot]
  /\ NoSlots \in [Target -> Seen]
  /\ NoItem \in Item
  /\ NoItems \in [Target -> Item]
  /\ NoPlan \in [Target -> Action]
  /\ NoRequest \in Requests
  /\ NoJournal \in Journals
<1>1. None \in Slot /\ None \in Seen
  BY DEF Slot, Seen
<1>2. NoSlots \in [Target -> Slot] /\ NoSlots \in [Target -> Seen]
  BY <1>1 DEF NoSlots
<1>3. NoItem \in Item
  BY <1>1, Zenon DEF NoItem, Item
<1>4. NoRequest \in Requests
  BY <1>1 DEF NoRequest, Requests
<1>5. Unreadable \in RecordValue
  BY DEF RecordValue
<1>6. NoJournal \in Journals
  BY <1>2, <1>5, Zenon DEF NoJournal, Journals, Phase
<1> QED
  BY <1>1, <1>2, <1>3, <1>4, <1>6 DEF NoItems, NoPlan, Action

UndoPlace == RecoverPlace \ {"recover"}

(* A publish under way has a number and knows what it places; a recovery   *)
(* under way knows which publish it recovers.                              *)
TypeInv ==
  /\ TypeOK
  /\ pc \in PublishPlace => tx \in Tx /\ request.content \in Content
  /\ pc \in UndoPlace => rec \in Tx

(* The memory a command that ended or died leaves has its types. *)
LEMMA ForgetTypes ==
  ASSUME Forget
  PROVE  /\ request' \in Requests /\ item' \in [Target -> Item] /\ todo' \in SUBSET Target
         /\ rec' \in 0..MaxTx /\ plan' \in [Target -> Action] /\ exit' \in 0..5
BY EmptyTypes, PublishAssumption DEF Forget

LEMMA InitTypes == Init => TypeInv
<1> SUFFICES ASSUME Init PROVE TypeInv
  OBVIOUS
<1>1. dest \in [Target -> Slot]
  BY DEF Init, Slot, File, Content
<1>2. record \in RecordValue
  BY <1>1, ContentType DEF Init, RecordValue
<1>3. pc = "idle"
  BY DEF Init
<1>4. /\ stage \in [Tx -> [Target -> Slot]]
      /\ kept \in [Tx -> [Target -> Slot]]
      /\ journal \in [Tx -> Journals]
      /\ request \in Requests /\ item \in [Target -> Item] /\ plan \in [Target -> Action]
  BY EmptyTypes DEF Init
<1>5. /\ tx \in 0..MaxTx /\ todo \in SUBSET Target /\ rec \in 0..MaxTx /\ exit \in 0..5
      /\ crashes \in 0..MaxCrashes /\ faults \in 0..MaxFaults /\ edits \in 0..MaxEdits
  BY PublishAssumption DEF Init
<1>6. unseen \in SUBSET Target /\ touched \in SUBSET Target /\ overlaid \in BOOLEAN
  BY DEF Init
<1> QED
  <2>1. pc \in Place /\ pc \notin PublishPlace /\ pc \notin UndoPlace
    BY <1>3 DEF Place, PublishPlace, RestorePlace, UndoPlace, RecoverPlace
  <2> QED
    BY <1>1, <1>2, <1>4, <1>5, <1>6, <2>1 DEF TypeInv, TypeOK

(* The first step of a removal leaves nothing or a partly removed folder.  *)
LEMMA RemovalTypes ==
  ASSUME dest \in [Target -> Slot], NEW t \in Target, dest[t] # None,
         NEW gone, NEW partly, StartRemoval(t, gone, partly)
  PROVE  dest' \in [Target -> Slot] /\ pc' \in {gone, partly}
<1>1. CASE dest[t].c \in Links
  BY <1>1, EmptyTypes DEF StartRemoval, Goto
<1>2. CASE dest[t].c \notin Links
  <2>1. dest[t] \in File
    BY DEF Slot
  <2>2. [dest[t] EXCEPT !.c = Partial] \in File
    BY <2>1 DEF File, Content
  <2>3. dest' = [dest EXCEPT ![t] = [dest[t] EXCEPT !.c = Partial]]
    BY <1>2 DEF StartRemoval
  <2> QED
    BY <1>2, <2>2, <2>3 DEF StartRemoval, Goto, Slot
<1> QED
  BY <1>1, <1>2

LEMMA RecoveryActionType ==
  ASSUME NEW k \in Tx, NEW t \in Target
  PROVE  RecoveryAction(k, t) \in Action
BY DEF RecoveryAction, Action

(* A journal whose phase changes is a journal. *)
LEMMA JournalPhase ==
  ASSUME journal \in [Tx -> Journals], NEW k \in Tx, NEW phase \in Phase
  PROVE  [journal EXCEPT ![k].phase = phase] \in [Tx -> Journals]
<1>1. [journal[k] EXCEPT !.phase = phase] \in Journals
  BY DEF Journals
<1> QED
  BY <1>1

(* Every step of the recovery keeps the types. *)
LEMMA RecoverTypes == TypeInv /\ (StartCommand \/ Recover) => TypeInv'
<1> SUFFICES ASSUME TypeInv, StartCommand \/ Recover PROVE TypeInv'
  OBVIOUS
<1> USE DEF TypeInv, TypeOK, Goto, Place, PublishPlace, RestorePlace, RecoverPlace, UndoPlace,
           disk, memory, history, bounds
<1>1. CASE StartCommand
  BY <1>1 DEF StartCommand
<1>2. ASSUME NEW k \in Tx, RecoverCheck(k) PROVE TypeInv'
  <2>1. plan' \in [Target -> Action]
    BY <1>2, RecoveryActionType DEF RecoverCheck, Action
  <2>2. rec' \in 0..MaxTx /\ todo' \in SUBSET Target
    BY <1>2 DEF RecoverCheck, Journals, Tx
  <2> QED
    BY <1>2, <2>1, <2>2 DEF RecoverCheck
<1>3. ASSUME NEW k \in Tx, RecoverRefused(k) PROVE TypeInv'
  BY <1>3, ForgetTypes DEF RecoverRefused
<1>4. ASSUME NEW t \in Target, UndoRemove(t) PROVE TypeInv'
  <2>1. dest' \in [Target -> Slot]
    BY <1>4, RemovalTypes DEF UndoRemove
  <2>2. plan' \in [Target -> Action] /\ todo' \in SUBSET Target
    BY <1>4 DEF UndoRemove, Removed, Action
  <2>3. pc' \in {"undo", "undo-rm"}
    BY <1>4, RemovalTypes DEF UndoRemove
  <2> QED
    BY <1>4, <2>1, <2>2, <2>3 DEF UndoRemove
<1>5. ASSUME NEW t \in Target, UndoRemoved(t) PROVE TypeInv'
  <2>1. dest' \in [Target -> Slot]
    BY <1>5, EmptyTypes DEF UndoRemoved
  <2>2. plan' \in [Target -> Action] /\ todo' \in SUBSET Target
    BY <1>5 DEF UndoRemoved, Removed, Action
  <2> QED
    BY <1>5, <2>1, <2>2 DEF UndoRemoved
<1>6. ASSUME NEW t \in Target, UndoPutBack(t) PROVE TypeInv'
  BY <1>6, EmptyTypes DEF UndoPutBack
<1>7. ASSUME NEW t \in Target, UndoFails(t) PROVE TypeInv'
  BY <1>7, ForgetTypes DEF UndoFails
<1>8. CASE UndoRecord
  BY <1>8 DEF UndoRecord, Journals
<1>9. CASE UndoMark
  <2>1. journal' \in [Tx -> Journals]
    BY <1>9, JournalPhase DEF UndoMark, Phase
  <2> QED
    BY <1>9, <2>1 DEF UndoMark
<1>10. CASE UndoStages
  <2>1. stage' \in [Tx -> [Target -> Slot]]
    BY <1>10, EmptyTypes DEF UndoStages
  <2>2. rec' \in 0..MaxTx
    BY <1>10, PublishAssumption DEF UndoStages
  <2> QED
    BY <1>10, <2>1, <2>2, EmptyTypes DEF UndoStages
<1>11. CASE RecoveryDone
  BY <1>11 DEF RecoveryDone
<1> QED
  BY <1>1, <1>2, <1>3, <1>4, <1>5, <1>6, <1>7, <1>8, <1>9, <1>10, <1>11 DEF Recover

(* The journal entries a publish writes. *)
LEMMA JournalBegun ==
  ASSUME NEW T \in SUBSET Target, NEW r \in RecordValue
  PROVE  [NoJournal EXCEPT !.phase = "prepare", !.targets = T, !.record = r] \in Journals
<1>1. NoJournal \in Journals /\ "prepare" \in Phase
  BY EmptyTypes DEF Phase
<1> QED
  BY <1>1 DEF Journals

LEMMA JournalStaged ==
  ASSUME NEW j \in Journals, NEW before \in [Target -> Seen], NEW candidate \in [Target -> Seen]
  PROVE  [j EXCEPT !.staged = TRUE, !.before = before, !.candidate = candidate] \in Journals
BY DEF Journals

(* What a publish notes about a target. *)
LEMMA ItemTypes ==
  ASSUME NEW before \in Slot, NEW candidate \in Slot, NEW after \in Slot,
         NEW on \in BOOLEAN, NEW moved \in BOOLEAN, NEW it \in Item
  PROVE  /\ [on |-> on, before |-> before, candidate |-> candidate, moved |-> moved, after |-> after] \in Item
         /\ [NoItem EXCEPT !.on = on, !.before = before] \in Item
         /\ [it EXCEPT !.moved = moved, !.after = after] \in Item
<1>1. NoItem \in Item
  BY EmptyTypes
<1> QED
  BY <1>1, Zenon DEF Item

LEMMA NotedTypes ==
  ASSUME TypeOK, NEW t \in Target, NEW now
  PROVE  Noted(t, now) \in [Target -> Item]
<1> DEFINE moved == item[t].before # None /\ kept[tx][t] = item[t].before
           after == IF now # None THEN item[t].candidate ELSE None
<1>1. item[t] \in Item /\ after \in Slot /\ moved \in BOOLEAN
  BY EmptyTypes DEF TypeOK, Item
<1>2. [item[t] EXCEPT !.moved = moved, !.after = after] \in Item
  BY <1>1 DEF Item
<1>3. Noted(t, now) = [item EXCEPT ![t] = [item[t] EXCEPT !.moved = moved, !.after = after]]
  BY DEF Noted, TypeOK
<1> QED
  BY <1>2, <1>3 DEF TypeOK

(* Every step of a publish keeps the types. *)
LEMMA PublishTypes == TypeInv /\ Publish => TypeInv'
<1> SUFFICES ASSUME TypeInv, Publish PROVE TypeInv'
  OBVIOUS
<1> USE DEF TypeInv, TypeOK, Goto, Place, PublishPlace, RestorePlace, RecoverPlace, UndoPlace,
           disk, memory, history, bounds, Fault, NoFault, Fails
<1>1. ASSUME NEW kind \in {"link", "current", "copy"}, NEW T \in SUBSET Target, NEW c \in Links \cup Trees,
             Begin(kind, T, c)
      PROVE  TypeInv'
  <2>1. request' \in Requests /\ request'.content \in Content
    BY <1>1 DEF Begin, Requests, Seen, Content
  <2>2. tx' \in Tx /\ tx' = tx + 1
    BY <1>1, PublishAssumption DEF Begin, Tx
  <2>3. Replaced' \in SUBSET Target
    BY <2>1 DEF Replaced, Requests
  <2>4. journal' \in [Tx -> Journals]
    <3>1. [NoJournal EXCEPT !.phase = "prepare", !.targets = Replaced', !.record = record] \in Journals
      BY <2>3, JournalBegun
    <3> QED
      BY <1>1, <3>1 DEF Begin
  <2>5. overlaid' \in BOOLEAN /\ touched' \in SUBSET Target
    BY <1>1 DEF Begin
  <2>6. todo' \in SUBSET Target /\ exit' \in 0..5 /\ tx' \in 0..MaxTx /\ pc' = "stage"
    BY <1>1, <2>2, <2>3 DEF Begin, Tx
  <2> QED
    BY <1>1, <2>1, <2>2, <2>4, <2>5, <2>6 DEF Begin
<1>2. ASSUME NEW kind \in {"link", "current", "copy"}, NEW T \in SUBSET Target, NEW c \in Links \cup Trees,
             BeginFails(kind, T, c)
      PROVE  TypeInv'
  <2>1. request' \in Requests
    BY <1>2 DEF BeginFails, Requests, Seen, Content
  <2> QED
    BY <1>2, <2>1, PublishAssumption DEF BeginFails
<1>3. ASSUME NEW t \in Target, StageOne(t) PROVE TypeInv'
  <2> DEFINE staged == [c |-> request.content, id |-> tx]
  <2>1. staged \in Slot
    BY <1>3, FileType DEF StageOne, Slot, Tx
  <2>2. [on |-> TRUE, before |-> dest[t], candidate |-> staged, moved |-> FALSE, after |-> None] \in Item
    BY <2>1, EmptyTypes, ItemTypes
  <2>3. item' \in [Target -> Item]
    BY <1>3, <2>2 DEF StageOne
  <2>4. stage' \in [Tx -> [Target -> Slot]]
    BY <1>3, <2>1 DEF StageOne
  <2> QED
    BY <1>3, <2>3, <2>4 DEF StageOne
<1>4. ASSUME NEW t \in Target, StageFails(t) PROVE TypeInv'
  <2>1. [NoItem EXCEPT !.on = TRUE, !.before = dest[t]] \in Item
    BY EmptyTypes, ItemTypes
  <2>2. item' \in [Target -> Item]
    BY <1>4, <2>1 DEF StageFails
  <2> QED
    BY <1>4, <2>2, PublishAssumption DEF StageFails
<1>5. ASSUME NEW t \in Target, MoveAside(t) PROVE TypeInv'
  BY <1>5, EmptyTypes DEF MoveAside
<1>6. ASSUME NEW t \in Target, MoveIn(t) PROVE TypeInv'
  <2>1. item' \in [Target -> Item]
    BY <1>6, NotedTypes DEF MoveIn
  <2>2. dest' \in [Target -> Slot] /\ stage' \in [Tx -> [Target -> Slot]]
    BY <1>6, EmptyTypes DEF MoveIn
  <2> QED
    BY <1>6, <2>1, <2>2 DEF MoveIn
<1>7. ASSUME NEW t \in Target, MoveFails(t) PROVE TypeInv'
  <2>1. item' \in [Target -> Item]
    BY <1>7, NotedTypes DEF MoveFails
  <2>2. faults' \in 0..MaxFaults /\ UNCHANGED <<crashes, edits>>
    BY <1>7, PublishAssumption DEF MoveFails
  <2>3. /\ UNCHANGED <<dest, stage, kept, journal, record>>
        /\ UNCHANGED <<tx, request, todo, rec, plan>>
        /\ UNCHANGED <<unseen, touched, overlaid>>
    BY <1>7 DEF MoveFails
  <2>4. pc' = "before-restore" /\ exit' = 1 /\ pc \in {"move", "move-in"}
    BY <1>7 DEF MoveFails
  <2>5. pc' \in Place /\ pc' \notin UndoPlace /\ exit' \in 0..5
    BY <2>4
  <2>6. tx \in Tx /\ request.content \in Content
    BY <2>4
  <2>7. /\ dest' \in [Target -> Slot] /\ stage' \in [Tx -> [Target -> Slot]] /\ kept' \in [Tx -> [Target -> Slot]]
        /\ journal' \in [Tx -> Journals] /\ record' \in RecordValue
    BY <2>3
  <2>8. tx' \in 0..MaxTx /\ request' \in Requests /\ todo' \in SUBSET Target /\ rec' \in 0..MaxTx /\ plan' \in [Target -> Action]
    BY <2>3
  <2>9. unseen' \in SUBSET Target /\ touched' \in SUBSET Target /\ overlaid' \in BOOLEAN
    BY <2>3
  <2>10. crashes' \in 0..MaxCrashes /\ faults' \in 0..MaxFaults /\ edits' \in 0..MaxEdits
    BY <2>2
  <2>11. tx' \in Tx /\ request'.content \in Content
    BY <2>3, <2>6
  <2> QED
    BY <2>1, <2>5, <2>7, <2>8, <2>9, <2>10, <2>11
<1>8. CASE SaveStaged
  <2> DEFINE before == [t \in Target |-> IF t \in Replaced THEN ContentOf(dest[t]) ELSE None]
             candidate == [t \in Target |-> IF t \in Replaced THEN ContentOf(stage[tx][t]) ELSE None]
  <2>1. before \in [Target -> Seen] /\ candidate \in [Target -> Seen]
    <3>1. dest \in [Target -> Slot] /\ stage[tx] \in [Target -> Slot] /\ None \in Seen
      BY <1>8 DEF SaveStaged, Seen
    <3>2. \A t \in Target : ContentOf(dest[t]) \in Seen /\ ContentOf(stage[tx][t]) \in Seen
      BY <3>1, ContentType
    <3> QED
      BY <3>1, <3>2
  <2> HIDE DEF before, candidate
  <2>2. [journal[tx] EXCEPT !.staged = TRUE, !.before = before, !.candidate = candidate] \in Journals
    <3>1. journal[tx] \in Journals
      BY <1>8 DEF SaveStaged
    <3> QED
      BY <2>1, <3>1, JournalStaged
  <2>3. journal' \in [Tx -> Journals]
    <3>1. journal' = [journal EXCEPT ![tx] = [journal[tx] EXCEPT !.staged = TRUE, !.before = before, !.candidate = candidate]]
      BY <1>8, Zenon DEF SaveStaged, before, candidate
    <3> QED
      BY <2>2, <3>1
  <2> QED
    BY <1>8, <2>3 DEF SaveStaged
<1>9. CASE Check
  <2>1. todo' \in SUBSET Target
    BY <1>9 DEF Check, Replaced, Requests
  <2> QED
    BY <1>9, <2>1 DEF Check
<1>10. CASE CheckFails
  BY <1>10 DEF CheckFails
<1>11. CASE WriteRecord
  <2>1. record' \in RecordValue
    BY <1>11 DEF WriteRecord, RecordValue, Requests
  <2> QED
    BY <1>11, <2>1 DEF WriteRecord
<1>12. CASE MarkDone
  <2>1. journal' \in [Tx -> Journals]
    BY <1>12, JournalPhase DEF MarkDone, Phase
  <2> QED
    BY <1>12, <2>1 DEF MarkDone
<1>13. CASE WriteFails
  BY <1>13, PublishAssumption DEF WriteFails
<1>14. CASE Retain
  BY <1>14, EmptyTypes DEF Retain
<1>15. CASE Cleanup
  <2>1. stage' \in [Tx -> [Target -> Slot]]
    BY <1>15, EmptyTypes DEF Cleanup, Cleaned
  <2> QED
    BY <1>15, <2>1, EmptyTypes DEF Cleanup
<1>16. CASE EndCommand
  BY <1>16, ForgetTypes DEF EndCommand
<1> QED
  BY <1>1, <1>2, <1>3, <1>4, <1>5, <1>6, <1>7, <1>8, <1>9, <1>10, <1>11, <1>12, <1>13, <1>14, <1>15, <1>16
     DEF Publish

(* Every step of a restore keeps the types. *)
LEMMA RestoreTypes == TypeInv /\ Restore => TypeInv'
<1> SUFFICES ASSUME TypeInv, Restore PROVE TypeInv'
  OBVIOUS
<1> USE DEF TypeInv, TypeOK, Goto, Place, PublishPlace, RestorePlace, RecoverPlace, UndoPlace,
           disk, memory, history, bounds, Fault
<1>1. CASE CheckRestore
  BY <1>1 DEF CheckRestore, Staged
<1>2. CASE CheckRestoreFails
  BY <1>2 DEF CheckRestoreFails
<1>3. ASSUME NEW t \in Target, RestoreSkip(t) PROVE TypeInv'
  BY <1>3 DEF RestoreSkip
<1>4. ASSUME NEW t \in Target, RestoreRemove(t) PROVE TypeInv'
  <2>1. dest' \in [Target -> Slot] /\ pc' \in {"restore-put", "restore-rm"}
    BY <1>4, RemovalTypes DEF RestoreRemove
  <2> QED
    BY <1>4, <2>1 DEF RestoreRemove
<1>5. ASSUME NEW t \in Target, RestoreRemoved(t) PROVE TypeInv'
  BY <1>5, EmptyTypes DEF RestoreRemoved
<1>6. ASSUME NEW t \in Target, RestorePutBack(t) PROVE TypeInv'
  BY <1>6, EmptyTypes DEF RestorePutBack, Emptied
<1>7. ASSUME NEW t \in Target, RestoreBare(t) PROVE TypeInv'
  BY <1>7 DEF RestoreBare, Emptied
<1>8. ASSUME NEW t \in Target, RestoreBlocked(t) PROVE TypeInv'
  BY <1>8 DEF RestoreBlocked, Emptied
<1>9. CASE RestoreRecord
  BY <1>9 DEF RestoreRecord, Journals
<1>10. CASE RestoreMark
  <2>1. journal' \in [Tx -> Journals]
    BY <1>10, JournalPhase DEF RestoreMark, Phase
  <2> QED
    BY <1>10, <2>1 DEF RestoreMark
<1>11. CASE RestoreFails
  BY <1>11, PublishAssumption DEF RestoreFails
<1> QED
  BY <1>1, <1>2, <1>3, <1>4, <1>5, <1>6, <1>7, <1>8, <1>9, <1>10, <1>11 DEF Restore

(* Every call of a participant keeps the types. *)
LEMMA ParticipantTypes == TypeInv /\ Calls => TypeInv'
<1> SUFFICES ASSUME TypeInv, Calls PROVE TypeInv'
  OBVIOUS
<1> USE DEF TypeInv, TypeOK, Goto, Place, PublishPlace, RestorePlace, RecoverPlace, UndoPlace,
           disk, memory, history, bounds, Fault, NoFault, Fails
<1>1. CASE BeforePublish \/ AfterPublish \/ BeforeRestore \/ AfterRestore
  BY <1>1 DEF BeforePublish, AfterPublish, BeforeRestore, AfterRestore
<1>2. CASE (Fault \/ NoFault) /\ \E code \in {2, 3} : BeforePublishFails(code)
  BY <1>2, PublishAssumption DEF BeforePublishFails
<1>3. CASE (Fault \/ NoFault) /\ \E code \in {1, 4} : AfterPublishFails(code)
  BY <1>3, PublishAssumption DEF AfterPublishFails
<1>4. CASE (Fault \/ NoFault) /\ (BeforeRestoreFails \/ AfterRestoreFails)
  BY <1>4, PublishAssumption DEF BeforeRestoreFails, AfterRestoreFails
<1> QED
  BY <1>1, <1>2, <1>3, <1>4 DEF Calls

(* A command that dies, and an edit, keep the types. *)
LEMMA EnvironmentTypes == TypeInv /\ Environment => TypeInv'
<1> SUFFICES ASSUME TypeInv, Environment PROVE TypeInv'
  OBVIOUS
<1> USE DEF TypeInv, TypeOK, Goto, Place, PublishPlace, RestorePlace, RecoverPlace, UndoPlace,
           disk, memory, history, bounds
<1>1. CASE Crash
  BY <1>1, ForgetTypes, PublishAssumption DEF Crash
<1>2. CASE Interrupt
  <2>1. stage' \in [Tx -> [Target -> Slot]]
    BY <1>2, EmptyTypes DEF Interrupt, Cleaned
  <2> QED
    BY <1>2, <2>1, ForgetTypes, PublishAssumption DEF Interrupt
<1>3. ASSUME NEW t \in Target, Edit(t) PROVE TypeInv'
  <2>1. PICK new \in {None} \cup [c : Trees, id : {-(edits + 1)}] : dest' = [dest EXCEPT ![t] = new]
    BY <1>3 DEF Edit
  <2>2. new \in Slot
    BY <2>1 DEF Slot, File, Content
  <2>3. dest' \in [Target -> Slot]
    BY <2>1, <2>2
  <2>4. edits' \in 0..MaxEdits /\ unseen' \in SUBSET Target /\ touched' \in SUBSET Target
    BY <1>3, PublishAssumption DEF Edit
  <2> QED
    BY <1>3, <2>3, <2>4 DEF Edit
<1> QED
  BY <1>1, <1>2, <1>3 DEF Environment

(* The types hold in every state of the publish transaction. *)
LEMMA TypeInvariant == Steps => []TypeInv
<1>1. TypeInv /\ [Step]_vars => TypeInv'
  <2>1. CASE Step
    BY <2>1, RecoverTypes, PublishTypes, RestoreTypes, ParticipantTypes, EnvironmentTypes DEF Step
  <2>2. CASE UNCHANGED vars
    BY <2>2 DEF vars, TypeInv, TypeOK
  <2> QED
    BY <2>1, <2>2
<1> QED
  BY <1>1, InitTypes, PTL DEF Steps

(* Type correctness of the installation, the journals, the record and the  *)
(* memory of the running command.                                          *)
THEOREM PublishTypeCorrect == Spec => []TypeOK
<1>1. TypeInv => TypeOK
  BY DEF TypeInv
<1> QED
  BY <1>1, TypeInvariant, BothStep, PTL

----------------------------------------------------------------------------
(* A publish never loses an original: whatever is interrupted, the         *)
(* original of every target of an unfinished publish is at its location or *)
(* kept, and nothing but its own restore takes it away.                    *)
(*                                                                         *)
(* OriginalsKept alone is not inductive: what a step does to a location    *)
(* depends on the place in the publish, on the memory of the batch and on  *)
(* the plan of the recovery.  OriginalsInv adds what holds there.          *)

Marked(k) == journal[k].phase = "prepare"

(* Publishes are numbered as they begin. *)
NumbersInv ==
  \A k \in Tx : k > tx => ~Marked(k) /\ kept[k] = NoSlots

(* Unless a publish began over another one, only the last is unfinished.   *)
LastInv == ~overlaid => \A k \in Tx : Marked(k) => k = tx

(* A location that is about to be moved has no kept original yet.          *)
FreshInv ==
  /\ pc \in {"stage", "before-publish", "check"} => \A t \in Target : kept[tx][t] = None
  /\ pc = "move" => \A t \in todo : kept[tx][t] = None
  /\ pc = "move-in" => \A t \in todo : ~First(t) => kept[tx][t] = None

(* What the plan of a recovery removes has a kept original, or had none.   *)
PlanInv ==
  pc \in {"undo", "undo-rm"} =>
    /\ Marked(rec)
    /\ \A t \in todo : \/ plan[t] \in {"replace", "put-back"} /\ kept[rec][t] # None
                       \/ plan[t] = "remove" /\ journal[rec].before[t] = None

(* The original of target t of publish k, as the journal names it.         *)
Safe(k, t) ==
  IF kept[k][t] # None THEN ContentOf(kept[k][t]) = journal[k].before[t]
  ELSE journal[k].before[t] # None => ContentOf(dest[t]) = journal[k].before[t]

DiskInv ==
  ~overlaid => \A k \in Tx : Marked(k) /\ journal[k].staged =>
                  \A t \in journal[k].targets \ touched : Safe(k, t)

(* The original of target t as the running publish noted it.               *)
Noticed(t) ==
  IF kept[tx][t] # None THEN kept[tx][t] = item[t].before
  ELSE item[t].before # None => dest[t] = item[t].before

MemoryInv ==
  pc \in PublishPlace /\ Marked(tx) =>
    /\ \A t \in Target \ touched : item[t].on => Noticed(t)
    /\ journal[tx].staged =>
         \A t \in journal[tx].targets :
           item[t].on /\ (t \notin touched => journal[tx].before[t] = ContentOf(item[t].before))

StageInv ==
  pc = "stage" =>
    /\ journal[tx].targets = Replaced
    /\ ~journal[tx].staged
    /\ \A t \in Replaced \ todo : item[t].on
    /\ \A t \in Target \ touched : item[t].on => dest[t] = item[t].before

(* A location that is being removed has a kept original, or had none.      *)
RemovalInv ==
  pc = "restore-rm" /\ Marked(tx) =>
    \A t \in todo \ touched : Last(t) /\ item[t].on => kept[tx][t] # None \/ item[t].before = None

(* Outside a publish the memory of the batch is empty. *)
IdleInv == pc \notin PublishPlace => \A t \in Target : ~item[t].on

OriginalsInv ==
  /\ NumbersInv /\ LastInv /\ FreshInv /\ PlanInv /\ DiskInv
  /\ MemoryInv /\ StageInv /\ RemovalInv /\ IdleInv

(* Nothing is lost from the invariant by a step that changes no location,  *)
(* no kept original and no journal, and goes to a place that promises      *)
(* nothing new.                                                            *)
LEMMA Quiet ==
  ASSUME TypeInv, OriginalsInv,
         UNCHANGED <<dest, kept, journal, tx, touched, overlaid>>,
         pc' \notin {"stage", "move", "move-in", "undo", "undo-rm", "restore-rm"},
         pc' \in {"before-publish", "check"} => pc \in {"before-publish", "check"},
         pc' \in PublishPlace =>
           pc \in PublishPlace /\ \A t \in Target : item'[t].on = item[t].on /\ item'[t].before = item[t].before,
         pc' \notin PublishPlace => \A t \in Target : ~item'[t].on
  PROVE  OriginalsInv'
<1> USE DEF OriginalsInv, Marked
<1>1. NumbersInv' /\ LastInv'
  BY DEF NumbersInv, LastInv
<1>2. FreshInv' /\ PlanInv' /\ StageInv' /\ RemovalInv' /\ IdleInv'
  BY DEF FreshInv, PlanInv, StageInv, RemovalInv, IdleInv
<1>3. DiskInv'
  BY DEF DiskInv, Safe
<1>4. MemoryInv'
  <2> SUFFICES ASSUME pc' \in PublishPlace, Marked(tx)'
               PROVE  MemoryInv'
    BY DEF MemoryInv
  <2>1. journal' = journal /\ kept' = kept /\ dest' = dest /\ tx' = tx /\ touched' = touched
    OBVIOUS
  <2>2. \A t \in Target : Noticed(t) => Noticed(t)'
    BY <2>1 DEF Noticed
  <2>3. ASSUME journal[tx].staged, NEW t \in journal[tx].targets PROVE t \in Target
    BY <2>3 DEF TypeInv, TypeOK, Journals, PublishPlace
  <2> QED
    BY <2>1, <2>2, <2>3 DEF MemoryInv
<1> QED
  BY <1>1, <1>2, <1>3, <1>4

LEMMA ItemsEmpty ==
  ASSUME Forget
  PROVE  \A t \in Target : ~item'[t].on
BY DEF Forget, NoItems, NoItem

LEMMA InitOriginals == Init => OriginalsInv
<1> SUFFICES ASSUME Init PROVE OriginalsInv
  OBVIOUS
<1>1. \A k \in Tx : journal[k].phase = "absent" /\ kept[k] = NoSlots /\ ~Marked(k)
  BY DEF Init, NoJournal, Marked
<1>2. \A t \in Target : ~item[t].on
  BY DEF Init, NoItems, NoItem
<1>3. pc = "idle"
  BY DEF Init
<1> QED
  BY <1>1, <1>2, <1>3 DEF OriginalsInv, NumbersInv, LastInv, FreshInv, PlanInv, DiskInv, MemoryInv, StageInv,
     RemovalInv, IdleInv, PublishPlace, RestorePlace

(* A step of the recovery that ends it or changes no location. *)
LEMMA QuietRecover ==
  ASSUME TypeInv, OriginalsInv,
         \/ StartCommand \/ UndoRecord \/ UndoStages \/ RecoveryDone
         \/ \E k \in Tx : RecoverRefused(k)
         \/ \E t \in Target : UndoFails(t)
  PROVE  OriginalsInv'
<1> USE DEF Goto, disk, memory, history, PublishPlace, RestorePlace, OriginalsInv, IdleInv
<1>1. CASE StartCommand
  BY <1>1, Quiet DEF StartCommand
<1>2. ASSUME NEW k \in Tx, RecoverRefused(k) PROVE OriginalsInv'
  BY <1>2, Quiet, ItemsEmpty DEF RecoverRefused
<1>3. ASSUME NEW t \in Target, UndoFails(t) PROVE OriginalsInv'
  BY <1>3, Quiet, ItemsEmpty DEF UndoFails
<1>4. CASE UndoRecord
  BY <1>4, Quiet DEF UndoRecord
<1>5. CASE UndoStages
  BY <1>5, Quiet DEF UndoStages
<1>6. CASE RecoveryDone
  BY <1>6, Quiet DEF RecoveryDone
<1> QED
  BY <1>1, <1>2, <1>3, <1>4, <1>5, <1>6

(* Every step of the recovery keeps the originals. *)
LEMMA RecoverOriginals == TypeInv /\ OriginalsInv /\ (StartCommand \/ Recover) => OriginalsInv'
<1> SUFFICES ASSUME TypeInv, OriginalsInv, StartCommand \/ Recover PROVE OriginalsInv'
  OBVIOUS
<1> USE DEF Goto, disk, memory, history, PublishPlace, RestorePlace, OriginalsInv, Marked
<1>1. ASSUME NEW k \in Tx, RecoverCheck(k) PROVE OriginalsInv'
  <2>1. NumbersInv' /\ LastInv' /\ FreshInv' /\ DiskInv' /\ MemoryInv' /\ StageInv' /\ RemovalInv' /\ IdleInv'
    BY <1>1 DEF RecoverCheck, NumbersInv, LastInv, FreshInv, DiskInv, Safe, MemoryInv, StageInv, RemovalInv, IdleInv
  <2>2. PlanInv'
    <3>1. Marked(k)
      BY <1>1 DEF RecoverCheck, Newest, Unfinished
    <3>2. ASSUME NEW t \in todo'
          PROVE  \/ plan'[t] \in {"replace", "put-back"} /\ kept[k][t] # None
                 \/ plan'[t] = "remove" /\ journal[k].before[t] = None
      <4>1. t \in journal[k].targets /\ t \in Target
        BY <1>1, <3>2 DEF RecoverCheck, TypeInv, TypeOK, Journals
      <4>2. plan'[t] = RecoveryAction(k, t) /\ RecoveryAction(k, t) \notin {"none", "stuck"}
        BY <1>1, <3>2, <4>1 DEF RecoverCheck
      <4> QED
        BY <4>2 DEF RecoveryAction
    <3> QED
      BY <1>1, <3>1, <3>2 DEF RecoverCheck, PlanInv
  <2> QED
    BY <2>1, <2>2
<1>2. ASSUME NEW t \in Target, UndoRemove(t) \/ UndoRemoved(t) PROVE OriginalsInv'
  <2>1. /\ \A u \in Target \ {t} : dest'[u] = dest[u]
        /\ pc \in {"undo", "undo-rm"} /\ pc' \in {"undo", "undo-rm"} /\ t \in todo
        /\ UNCHANGED <<kept, journal, tx, rec, item, overlaid, touched>>
    BY <1>2 DEF UndoRemove, UndoRemoved, StartRemoval, Last, TypeInv, TypeOK
  <2>2. NumbersInv' /\ LastInv' /\ FreshInv' /\ MemoryInv' /\ StageInv' /\ RemovalInv' /\ IdleInv'
    BY <2>1 DEF NumbersInv, LastInv, FreshInv, MemoryInv, StageInv, RemovalInv, IdleInv
  <2>3. PlanInv'
    <3>1. /\ todo' \subseteq todo
          /\ \A u \in todo' : u # t => plan'[u] = plan[u]
          /\ t \in todo' => plan'[t] = plan[t] \/ (plan[t] = "replace" /\ plan'[t] = "put-back")
      BY <1>2 DEF UndoRemove, UndoRemoved, Removed, StartRemoval, TypeInv, TypeOK
    <3> QED
      BY <2>1, <3>1 DEF PlanInv
  <2>4. DiskInv'
    <3> SUFFICES ASSUME ~overlaid, NEW k \in Tx, Marked(k), journal[k].staged, NEW u \in journal[k].targets \ touched
                 PROVE  Safe(k, u)'
      BY <2>1 DEF DiskInv
    <3>1. Safe(k, u) /\ u \in Target
      BY DEF DiskInv, TypeInv, TypeOK, Journals
    <3>2. k = rec
      <4>1. rec \in Tx
        BY <2>1 DEF TypeInv, UndoPlace, RecoverPlace
      <4> QED
        BY <2>1, <4>1 DEF LastInv, PlanInv
    <3>3. CASE u = t
      BY <2>1, <3>1, <3>2, <3>3 DEF Safe, PlanInv
    <3>4. CASE u # t
      BY <2>1, <3>1, <3>4 DEF Safe
    <3> QED
      BY <3>3, <3>4
  <2> QED
    BY <2>2, <2>3, <2>4
<1>3. ASSUME NEW t \in Target, UndoPutBack(t) PROVE OriginalsInv'
  <2>1. /\ pc = "undo" /\ pc' = "undo" /\ t \in todo /\ todo' = todo \ {t}
        /\ UNCHANGED <<journal, tx, rec, item, plan, overlaid, touched>>
        /\ rec \in Tx /\ Marked(rec) /\ kept[rec][t] # None
        /\ dest' = [dest EXCEPT ![t] = kept[rec][t]]
        /\ kept' = [kept EXCEPT ![rec][t] = None]
    BY <1>3 DEF UndoPutBack, Last, PlanInv, TypeInv, UndoPlace, RecoverPlace
  <2>2. /\ \A k \in Tx, u \in Target : k # rec \/ u # t => kept'[k][u] = kept[k][u]
        /\ kept'[rec][t] = None /\ dest'[t] = kept[rec][t]
        /\ \A u \in Target \ {t} : dest'[u] = dest[u]
        /\ \A k \in Tx \ {rec} : kept'[k] = kept[k]
    BY <2>1 DEF TypeInv, TypeOK
  <2>3. NumbersInv' /\ LastInv' /\ FreshInv' /\ MemoryInv' /\ StageInv' /\ RemovalInv' /\ IdleInv'
    BY <2>1, <2>2 DEF NumbersInv, LastInv, FreshInv, MemoryInv, StageInv, RemovalInv, IdleInv
  <2>4. PlanInv'
    BY <2>1, <2>2 DEF PlanInv, TypeInv, TypeOK
  <2>5. DiskInv'
    <3> SUFFICES ASSUME ~overlaid, NEW k \in Tx, Marked(k), journal[k].staged, NEW u \in journal[k].targets \ touched
                 PROVE  Safe(k, u)'
      BY <2>1 DEF DiskInv
    <3>1. Safe(k, u) /\ u \in Target
      BY DEF DiskInv, TypeInv, TypeOK, Journals
    <3>2. CASE k = rec /\ u = t
      BY <2>1, <2>2, <3>1, <3>2 DEF Safe
    <3>3. CASE k # rec
      BY <2>1, <3>3 DEF LastInv
    <3>4. CASE u # t
      BY <2>1, <2>2, <3>1, <3>4 DEF Safe
    <3> QED
      BY <3>2, <3>3, <3>4
  <2> QED
    BY <2>3, <2>4, <2>5
<1>4. CASE UndoMark
  <2>1. /\ pc' = "undo-stages" /\ UNCHANGED <<dest, kept, tx, item, overlaid, touched>>
        /\ rec \in Tx
        /\ journal' = [journal EXCEPT ![rec].phase = "restored"]
    BY <1>4 DEF UndoMark, TypeInv, UndoPlace, RecoverPlace
  <2>2. \A k \in Tx : Marked(k)' => Marked(k) /\ journal'[k] = journal[k]
    BY <2>1 DEF TypeInv, TypeOK, Journals
  <2>3. DiskInv'
    BY <2>1, <2>2 DEF DiskInv, Safe
  <2>4. NumbersInv' /\ LastInv' /\ FreshInv' /\ PlanInv' /\ MemoryInv' /\ StageInv' /\ RemovalInv' /\ IdleInv'
    BY <1>4, <2>1, <2>2
       DEF UndoMark, NumbersInv, LastInv, FreshInv, PlanInv, MemoryInv, StageInv, RemovalInv, IdleInv
  <2> QED
    BY <2>3, <2>4
<1> QED
  BY <1>1, <1>2, <1>3, <1>4, QuietRecover DEF Recover

(* Steps of a publish, a restore or a participant that change no location. *)
LEMMA QuietPublish ==
  ASSUME TypeInv, OriginalsInv,
         \/ CheckFails \/ WriteRecord \/ WriteFails \/ Cleanup \/ EndCommand
         \/ \E kind \in {"link", "current", "copy"}, T \in SUBSET Target, c \in Links \cup Trees : BeginFails(kind, T, c)
         \/ \E t \in Target : MoveFails(t)
  PROVE  OriginalsInv'
<1> USE DEF Goto, disk, memory, history, PublishPlace, RestorePlace, OriginalsInv, IdleInv, Fails
<1>1. CASE CheckFails \/ WriteRecord \/ WriteFails
  BY <1>1, Quiet DEF CheckFails, WriteRecord, WriteFails
<1>2. CASE Cleanup
  BY <1>2, Quiet DEF Cleanup, NoItems, NoItem
<1>3. CASE EndCommand
  BY <1>3, Quiet, ItemsEmpty DEF EndCommand
<1>4. ASSUME NEW kind \in {"link", "current", "copy"}, NEW T \in SUBSET Target, NEW c \in Links \cup Trees,
             BeginFails(kind, T, c)
      PROVE  OriginalsInv'
  BY <1>4, Quiet DEF BeginFails
<1>5. ASSUME NEW t \in Target, MoveFails(t) PROVE OriginalsInv'
  <2>1. \A u \in Target : item'[u].on = item[u].on /\ item'[u].before = item[u].before
    BY <1>5 DEF MoveFails, Noted, TypeInv, TypeOK, Item
  <2> QED
    BY <1>5, <2>1, Quiet DEF MoveFails
<1> QED
  BY <1>1, <1>2, <1>3, <1>4, <1>5

LEMMA QuietRestore ==
  ASSUME TypeInv, OriginalsInv,
         \/ CheckRestore \/ CheckRestoreFails \/ RestoreRecord \/ RestoreFails
         \/ \E t \in Target : RestoreSkip(t) \/ RestoreBare(t) \/ RestoreBlocked(t)
         \/ Calls
  PROVE  OriginalsInv'
<1> USE DEF Goto, disk, memory, history, PublishPlace, RestorePlace, OriginalsInv, IdleInv, Fails
<1>1. CASE CheckRestore \/ CheckRestoreFails \/ RestoreRecord \/ RestoreFails
  BY <1>1, Quiet DEF CheckRestore, CheckRestoreFails, RestoreRecord, RestoreFails
<1>2. ASSUME NEW t \in Target, RestoreSkip(t) \/ RestoreBare(t) \/ RestoreBlocked(t) PROVE OriginalsInv'
  BY <1>2, Quiet DEF RestoreSkip, RestoreBare, RestoreBlocked, Emptied
<1>3. CASE Calls
  BY <1>3, Quiet DEF Calls, BeforePublish, AfterPublish, BeforeRestore, AfterRestore, BeforePublishFails,
     AfterPublishFails, BeforeRestoreFails, AfterRestoreFails
<1> QED
  BY <1>1, <1>2, <1>3

(* A new publish starts with nothing kept and nothing noted. *)
LEMMA BeginOriginals ==
  ASSUME TypeInv, OriginalsInv,
         NEW kind \in {"link", "current", "copy"}, NEW T \in SUBSET Target, NEW c \in Links \cup Trees,
         Begin(kind, T, c)
  PROVE  OriginalsInv'
<1> USE DEF Goto, PublishPlace, RestorePlace, OriginalsInv, Marked
<1>1. /\ pc = "ready" /\ pc' = "stage" /\ tx \in Nat /\ tx' = tx + 1 /\ tx' \in Tx
      /\ UNCHANGED <<dest, kept, item>> /\ todo' = Replaced' /\ touched' = {}
  BY PublishAssumption DEF Begin, Tx, TypeInv, TypeOK
<1>2. /\ journal'[tx'].phase = "prepare" /\ ~journal'[tx'].staged /\ journal'[tx'].targets = Replaced'
      /\ \A k \in Tx : k # tx' => journal'[k] = journal[k]
  BY <1>1 DEF Begin, NoJournal, TypeInv, TypeOK
<1>3. \A t \in Target : kept'[tx'][t] = None /\ ~item'[t].on
  BY <1>1 DEF NumbersInv, NoSlots, IdleInv
<1>4. NumbersInv'
  BY <1>1, <1>2 DEF NumbersInv, Tx
<1>5. ~overlaid' => ~overlaid /\ \A k \in Tx : ~Marked(k)
  BY DEF Begin, Unfinished
<1>6. LastInv' /\ DiskInv'
  BY <1>1, <1>2, <1>5 DEF LastInv, DiskInv
<1>7. FreshInv' /\ PlanInv' /\ StageInv' /\ MemoryInv' /\ RemovalInv' /\ IdleInv'
  BY <1>1, <1>2, <1>3 DEF FreshInv, PlanInv, StageInv, MemoryInv, RemovalInv, IdleInv
<1> QED
  BY <1>4, <1>6, <1>7

(* Staging notes each original at its location. *)
LEMMA StageOriginals ==
  ASSUME TypeInv, OriginalsInv, NEW t \in Target, StageOne(t) \/ StageFails(t)
  PROVE  OriginalsInv'
<1> USE DEF Goto, PublishPlace, RestorePlace, OriginalsInv, Marked, Fails
<1>1. /\ pc = "stage" /\ pc' \in {"stage", "before-restore"}
      /\ UNCHANGED <<dest, kept, journal, tx, request, overlaid, touched>>
      /\ \A u \in Target : u # t => item'[u] = item[u]
      /\ item'[t].on /\ item'[t].before = dest[t]
      /\ pc' = "stage" => todo' = todo \ {t}
  <2>1. CASE StageOne(t)
    BY <2>1 DEF StageOne, disk, history, TypeInv, TypeOK
  <2>2. CASE StageFails(t)
    <3>1. [NoItem EXCEPT !.on = TRUE, !.before = dest[t]].on /\ [NoItem EXCEPT !.on = TRUE, !.before = dest[t]].before = dest[t]
      BY DEF NoItem
    <3> QED
      BY <2>2, <3>1 DEF StageFails, disk, history, TypeInv, TypeOK
  <2> QED
    BY <2>1, <2>2
<1>2. NumbersInv' /\ LastInv'
  BY <1>1 DEF NumbersInv, LastInv
<1>3. FreshInv' /\ PlanInv' /\ RemovalInv' /\ IdleInv'
  BY <1>1 DEF FreshInv, PlanInv, RemovalInv, IdleInv
<1>4. DiskInv'
  BY <1>1 DEF DiskInv, Safe
<1>5. StageInv'
  BY <1>1 DEF StageInv, Replaced, TypeInv, TypeOK, Requests
<1>6. MemoryInv'
  <2>1. ~journal'[tx'].staged
    BY <1>1 DEF StageInv
  <2>2. \A u \in Target : kept'[tx'][u] = None
    BY <1>1 DEF FreshInv
  <2>3. \A u \in Target \ touched' : item'[u].on => dest'[u] = item'[u].before
    BY <1>1 DEF StageInv
  <2> QED
    BY <2>1, <2>2, <2>3 DEF MemoryInv, Noticed
<1> QED
  BY <1>2, <1>3, <1>4, <1>5, <1>6

(* The journal names the originals the staging noted. *)
LEMMA SaveOriginals ==
  ASSUME TypeInv, OriginalsInv, SaveStaged
  PROVE  OriginalsInv'
<1> USE DEF Goto, PublishPlace, RestorePlace, OriginalsInv, Marked
<1>1. /\ pc = "stage" /\ pc' = "before-publish" /\ todo = {} /\ tx \in Tx
      /\ UNCHANGED <<dest, kept, tx, request, item, overlaid, touched>>
  BY DEF SaveStaged, memory, history, TypeInv
<1>2. /\ \A k \in Tx : k # tx => journal'[k] = journal[k]
      /\ \A k \in Tx : journal'[k].phase = journal[k].phase /\ journal'[k].targets = journal[k].targets
      /\ \A t \in Replaced : t \in Target => journal'[tx].before[t] = ContentOf(dest[t])
  BY <1>1 DEF SaveStaged, TypeInv, TypeOK, Journals
<1>3. journal'[tx].targets = Replaced /\ Replaced \subseteq Target
  BY <1>1, <1>2 DEF StageInv, TypeInv, TypeOK, Journals
<1>4. NumbersInv' /\ LastInv' /\ FreshInv' /\ PlanInv' /\ StageInv' /\ RemovalInv' /\ IdleInv'
  BY <1>1, <1>2 DEF NumbersInv, LastInv, FreshInv, PlanInv, StageInv, RemovalInv, IdleInv
<1>5. DiskInv'
  <2> SUFFICES ASSUME ~overlaid', NEW k \in Tx, Marked(k)', journal'[k].staged,
                      NEW t \in journal'[k].targets \ touched'
               PROVE  Safe(k, t)'
    BY DEF DiskInv
  <2>1. CASE k = tx
    BY <1>1, <1>2, <1>3, <2>1 DEF Safe, FreshInv
  <2>2. CASE k # tx
    BY <1>1, <1>2, <2>2 DEF DiskInv, Safe
  <2> QED
    BY <2>1, <2>2
<1>6. MemoryInv'
  BY <1>1, <1>2, <1>3 DEF MemoryInv, Noticed, StageInv
<1> QED
  BY <1>4, <1>5, <1>6

(* The targets a journal names are install locations. *)
LEMMA JournalTargets ==
  ASSUME TypeInv, NEW k \in Tx
  PROVE  journal[k].targets \subseteq Target
BY DEF TypeInv, TypeOK, Journals

(* There is a content wherever there is a file. *)
LEMMA FileContent ==
  ASSUME NEW slot \in Slot, slot # None
  PROVE  ContentOf(slot) # None
<1>1. slot.c \in Content
  BY DEF Slot, File
<1> QED
  BY <1>1, PublishAssumption DEF ContentOf

(* A publish under way moves only locations it noted. *)
LEMMA MoveOriginals ==
  ASSUME TypeInv, OriginalsInv, Check \/ (\E t \in Target : MoveAside(t) \/ MoveIn(t))
  PROVE  OriginalsInv'
<1> USE DEF Goto, PublishPlace, RestorePlace, OriginalsInv, Marked
<1>1. CASE Check
  <2>1. /\ pc = "check" /\ pc' = "move" /\ UNCHANGED <<dest, kept, journal, tx, item, overlaid, touched>>
        /\ todo' \subseteq Target
    BY <1>1 DEF Check, disk, Replaced, TypeInv, TypeOK, Requests
  <2>2. NumbersInv' /\ LastInv' /\ FreshInv' /\ PlanInv' /\ StageInv' /\ RemovalInv' /\ IdleInv'
    BY <2>1 DEF NumbersInv, LastInv, FreshInv, PlanInv, StageInv, RemovalInv, IdleInv
  <2>3. DiskInv' /\ MemoryInv'
    BY <2>1 DEF DiskInv, Safe, MemoryInv, Noticed
  <2> QED
    BY <2>2, <2>3
<1>2. ASSUME NEW t \in Target, MoveAside(t) PROVE OriginalsInv'
  <2>1. /\ pc = "move" /\ pc' = "move-in" /\ t \in todo /\ First(t) /\ tx \in Tx /\ todo \subseteq Target
        /\ UNCHANGED <<journal, tx, item, todo, overlaid, touched>>
        /\ item[t].before # None /\ dest[t] # None
    BY <1>2 DEF MoveAside, memory, history, First, TypeInv, TypeOK
  <2>2. /\ kept'[tx][t] = dest[t] /\ dest'[t] = None
        /\ \A u \in Target : u # t => dest'[u] = dest[u]
        /\ \A k \in Tx, u \in Target : k # tx \/ u # t => kept'[k][u] = kept[k][u]
        /\ \A k \in Tx : k # tx => kept'[k] = kept[k]
    BY <1>2, <2>1 DEF MoveAside, TypeInv, TypeOK
  <2>3. kept[tx][t] = None
    BY <2>1 DEF FreshInv
  <2>4. NumbersInv'
    <3>1. \A k \in Tx : k > tx => k # tx
      BY DEF Tx
    <3> QED
      BY <2>1, <2>2, <3>1 DEF NumbersInv
  <2>5. LastInv' /\ PlanInv' /\ StageInv' /\ RemovalInv' /\ IdleInv'
    BY <2>1 DEF LastInv, PlanInv, StageInv, RemovalInv, IdleInv
  <2>6. FreshInv'
    BY <2>1, <2>2 DEF FreshInv, First
  <2>7. DiskInv'
    <3> SUFFICES ASSUME ~overlaid, NEW k \in Tx, Marked(k), journal[k].staged, NEW u \in journal[k].targets \ touched
                 PROVE  Safe(k, u)'
      BY <2>1 DEF DiskInv
    <3>1. Safe(k, u) /\ u \in Target /\ k = tx
      BY JournalTargets DEF DiskInv, LastInv
    <3>2. CASE u # t
      BY <2>2, <3>1, <3>2, <2>1 DEF Safe
    <3>3. CASE u = t
      <4>1. journal[tx].before[t] = ContentOf(item[t].before)
        BY <2>1, <3>1, <3>3 DEF MemoryInv
      <4>2. ContentOf(item[t].before) # None
        BY <2>1, FileContent DEF TypeInv, TypeOK, Item
      <4> QED
        BY <2>1, <2>2, <2>3, <3>1, <3>3, <4>1, <4>2 DEF Safe
    <3> QED
      BY <3>2, <3>3
  <2>8. MemoryInv'
    <3> SUFFICES ASSUME Marked(tx) PROVE MemoryInv'
      BY <2>1 DEF MemoryInv
    <3>1. ASSUME NEW u \in Target \ touched, item[u].on PROVE Noticed(u)'
      <4>1. Noticed(u)
        BY <2>1, <3>1 DEF MemoryInv
      <4> QED
        BY <2>1, <2>2, <2>3, <4>1 DEF Noticed
    <3> QED
      BY <2>1, <3>1 DEF MemoryInv
  <2> QED
    BY <2>4, <2>5, <2>6, <2>7, <2>8
<1>3. ASSUME NEW t \in Target, MoveIn(t) PROVE OriginalsInv'
  <2>1. /\ pc \in {"move", "move-in"} /\ pc' = "move" /\ First(t) /\ dest[t] = None
        /\ UNCHANGED <<kept, journal, tx, overlaid, touched>>
        /\ todo' = todo \ {t} /\ todo \subseteq Target
        /\ \A u \in Target : item'[u].on = item[u].on /\ item'[u].before = item[u].before
        /\ \A u \in Target : u # t => dest'[u] = dest[u]
    BY <1>3 DEF MoveIn, history, Noted, TypeInv, TypeOK, Item
  <2>2. NumbersInv' /\ LastInv' /\ PlanInv' /\ StageInv' /\ RemovalInv' /\ IdleInv'
    BY <2>1 DEF NumbersInv, LastInv, PlanInv, StageInv, RemovalInv, IdleInv
  <2>3. FreshInv'
    <3>1. \A u \in todo' : ~First(u)
      <4> SUFFICES ASSUME NEW u \in todo', First(u) PROVE FALSE
        OBVIOUS
      <4>1. u <= t /\ t <= u /\ u # t
        BY <2>1 DEF First
      <4>2. u \in Int /\ t \in Int
        BY <2>1 DEF Target
      <4> QED
        BY <4>1, <4>2
    <3> QED
      BY <2>1, <3>1 DEF FreshInv
  <2>4. DiskInv'
    <3> SUFFICES ASSUME ~overlaid, NEW k \in Tx, Marked(k), journal[k].staged, NEW u \in journal[k].targets \ touched
                 PROVE  Safe(k, u)'
      BY <2>1 DEF DiskInv
    <3>1. Safe(k, u) /\ u \in Target
      BY JournalTargets DEF DiskInv
    <3> QED
      BY <2>1, <3>1 DEF Safe, ContentOf
  <2>5. MemoryInv'
    <3> SUFFICES ASSUME Marked(tx) PROVE MemoryInv'
      BY <2>1 DEF MemoryInv
    <3>1. ASSUME NEW u \in Target \ touched, item[u].on PROVE Noticed(u)'
      <4>1. Noticed(u)
        BY <2>1, <3>1 DEF MemoryInv
      <4> QED
        BY <2>1, <4>1 DEF Noticed
    <3>2. journal[tx].targets \subseteq Target
      BY <2>1, JournalTargets DEF TypeInv
    <3> QED
      BY <2>1, <3>1, <3>2 DEF MemoryInv
  <2> QED
    BY <2>2, <2>3, <2>4, <2>5
<1> QED
  BY <1>1, <1>2, <1>3

(* A publish that is done or restored needs its originals no longer. *)
LEMMA EndOriginals ==
  ASSUME TypeInv, OriginalsInv, MarkDone \/ RestoreMark \/ Retain
  PROVE  OriginalsInv'
<1> USE DEF Goto, PublishPlace, RestorePlace, OriginalsInv, Marked
<1>1. /\ pc' \in {"retain", "after-restore", "cleanup"} /\ pc \in PublishPlace
      /\ UNCHANGED <<dest, tx, item, overlaid, touched>>
  BY DEF MarkDone, RestoreMark, Retain, memory, history
<1>2. \A k \in Tx : Marked(k)' => Marked(k) /\ journal'[k] = journal[k] /\ kept'[k] = kept[k]
  <2>1. CASE MarkDone \/ RestoreMark
    BY <2>1 DEF MarkDone, RestoreMark, TypeInv, TypeOK, Journals
  <2>2. CASE Retain
    BY <2>2 DEF Retain, NoJournal
  <2> QED
    BY <2>1, <2>2
<1>3. NumbersInv'
  <2>1. \A k \in Tx : kept'[k] \in {kept[k], NoSlots}
    BY DEF MarkDone, RestoreMark, Retain
  <2> QED
    BY <1>1, <1>2, <2>1 DEF NumbersInv
<1>4. LastInv' /\ FreshInv' /\ PlanInv' /\ StageInv' /\ RemovalInv' /\ IdleInv'
  BY <1>1, <1>2 DEF LastInv, FreshInv, PlanInv, StageInv, RemovalInv, IdleInv
<1>5. DiskInv'
  BY <1>1, <1>2 DEF DiskInv, Safe
<1>6. MemoryInv'
  <2> SUFFICES ASSUME Marked(tx)' PROVE MemoryInv'
    BY <1>1 DEF MemoryInv
  <2>1. tx \in Tx
    BY <1>1 DEF TypeInv
  <2>2. Marked(tx) /\ journal'[tx] = journal[tx] /\ kept'[tx] = kept[tx]
    BY <1>1, <1>2, <2>1
  <2> QED
    BY <1>1, <2>2 DEF MemoryInv, Noticed
<1> QED
  BY <1>3, <1>4, <1>5, <1>6

(* What the batch says of the original of a target of the running publish. *)
LEMMA NoticedOriginal ==
  ASSUME TypeInv, OriginalsInv, pc \in PublishPlace, ~overlaid,
         NEW k \in Tx, Marked(k), journal[k].staged, NEW t \in journal[k].targets \ touched
  PROVE  /\ k = tx /\ t \in Target /\ Safe(k, t)
         /\ item[t].on /\ Noticed(t)
         /\ item[t].before = None => journal[k].before[t] = None
<1>1. k = tx /\ t \in Target /\ Safe(k, t)
  BY JournalTargets DEF OriginalsInv, LastInv, DiskInv
<1>2. item[t].on /\ Noticed(t) /\ journal[k].before[t] = ContentOf(item[t].before)
  BY <1>1 DEF OriginalsInv, MemoryInv
<1> QED
  BY <1>1, <1>2 DEF ContentOf

(* The restore removes a location only once its original is kept. *)
LEMMA RestoreOriginals ==
  ASSUME TypeInv, OriginalsInv, NEW t \in Target, RestoreRemove(t) \/ RestoreRemoved(t) \/ RestorePutBack(t)
  PROVE  OriginalsInv'
<1> USE DEF Goto, PublishPlace, RestorePlace, OriginalsInv, Marked
<1>1. CASE RestoreRemove(t) \/ RestoreRemoved(t)
  <2>1. /\ pc \in {"restore", "restore-rm"} /\ pc' \in {"restore-put", "restore-rm"} /\ Last(t)
        /\ todo \subseteq Target
        /\ UNCHANGED <<kept, journal, tx, item, todo, overlaid, touched>>
        /\ \A u \in Target : u # t => dest'[u] = dest[u]
    BY <1>1 DEF RestoreRemove, RestoreRemoved, StartRemoval, memory, history, TypeInv, TypeOK
  <2>2. Marked(tx) /\ t \notin touched /\ item[t].on => kept[tx][t] # None \/ item[t].before = None
    <3>1. CASE RestoreRemove(t)
      BY <3>1, <2>1 DEF RestoreRemove, MemoryInv, Noticed
    <3>2. CASE RestoreRemoved(t)
      BY <3>2, <2>1 DEF RestoreRemoved, RemovalInv, Last
    <3> QED
      BY <1>1, <3>1, <3>2
  <2>3. NumbersInv' /\ LastInv' /\ FreshInv' /\ PlanInv' /\ StageInv' /\ IdleInv'
    BY <2>1 DEF NumbersInv, LastInv, FreshInv, PlanInv, StageInv, IdleInv
  <2>4. RemovalInv'
    <3> SUFFICES ASSUME Marked(tx), NEW u \in todo \ touched, Last(u), item[u].on
                 PROVE  kept[tx][u] # None \/ item[u].before = None
      BY <2>1 DEF RemovalInv, Last
    <3>1. u <= t /\ t <= u /\ u \in Int /\ t \in Int
      BY <2>1 DEF Last, Target
    <3>2. u = t
      BY <3>1
    <3> QED
      BY <2>2, <3>2
  <2>5. DiskInv'
    <3> SUFFICES ASSUME ~overlaid, NEW k \in Tx, Marked(k), journal[k].staged, NEW u \in journal[k].targets \ touched
                 PROVE  Safe(k, u)'
      BY <2>1 DEF DiskInv
    <3>1. /\ k = tx /\ u \in Target /\ Safe(k, u) /\ item[u].on
          /\ item[u].before = None => journal[k].before[u] = None
      BY <2>1, NoticedOriginal
    <3> QED
      BY <2>1, <2>2, <3>1 DEF Safe
  <2>6. MemoryInv'
    <3> SUFFICES ASSUME Marked(tx) PROVE MemoryInv'
      BY <2>1 DEF MemoryInv
    <3>1. ASSUME NEW u \in Target \ touched, item[u].on PROVE Noticed(u)'
      <4>1. Noticed(u)
        BY <2>1, <3>1 DEF MemoryInv
      <4> QED
        BY <2>1, <2>2, <3>1, <4>1 DEF Noticed
    <3> QED
      BY <2>1, <3>1 DEF MemoryInv
  <2> QED
    BY <2>3, <2>4, <2>5, <2>6
<1>2. CASE RestorePutBack(t)
  <2>1. /\ pc \in {"restore", "restore-put"} /\ pc' = "restore" /\ tx \in Tx
        /\ UNCHANGED <<journal, tx, item, overlaid, touched>>
        /\ kept[tx][t] # None /\ dest'[t] = kept[tx][t] /\ kept'[tx][t] = None
        /\ \A u \in Target : u # t => dest'[u] = dest[u]
        /\ \A k \in Tx, u \in Target : k # tx \/ u # t => kept'[k][u] = kept[k][u]
        /\ \A k \in Tx : k # tx => kept'[k] = kept[k]
    BY <1>2 DEF RestorePutBack, Emptied, history, TypeInv, TypeOK
  <2>2. NumbersInv'
    <3>1. \A k \in Tx : k > tx => k # tx
      BY DEF Tx
    <3> QED
      BY <2>1, <3>1 DEF NumbersInv
  <2>3. LastInv' /\ FreshInv' /\ PlanInv' /\ StageInv' /\ RemovalInv' /\ IdleInv'
    BY <2>1 DEF LastInv, FreshInv, PlanInv, StageInv, RemovalInv, IdleInv
  <2>4. DiskInv'
    <3> SUFFICES ASSUME ~overlaid, NEW k \in Tx, Marked(k), journal[k].staged, NEW u \in journal[k].targets \ touched
                 PROVE  Safe(k, u)'
      BY <2>1 DEF DiskInv
    <3>1. k = tx /\ u \in Target /\ Safe(k, u)
      BY <2>1, NoticedOriginal
    <3> QED
      BY <2>1, <3>1 DEF Safe
  <2>5. MemoryInv'
    <3> SUFFICES ASSUME Marked(tx) PROVE MemoryInv'
      BY <2>1 DEF MemoryInv
    <3>1. ASSUME NEW u \in Target \ touched, item[u].on PROVE Noticed(u)'
      <4>1. Noticed(u)
        BY <2>1, <3>1 DEF MemoryInv
      <4> QED
        BY <2>1, <4>1 DEF Noticed
    <3> QED
      BY <2>1, <3>1 DEF MemoryInv
  <2> QED
    BY <2>2, <2>3, <2>4, <2>5
<1> QED
  BY <1>1, <1>2

(* A crash leaves the disk as it is; somebody else's change to a location  *)
(* is not the program's to answer for.                                     *)
LEMMA EnvironmentOriginals ==
  ASSUME TypeInv, OriginalsInv, Environment
  PROVE  OriginalsInv'
<1> USE DEF Goto, PublishPlace, RestorePlace, OriginalsInv
<1>1. CASE Crash \/ Interrupt
  BY <1>1, Quiet, ItemsEmpty DEF Crash, Interrupt, disk, history
<1>2. ASSUME NEW t \in Target, Edit(t) PROVE OriginalsInv'
  <2> USE DEF Marked
  <2>1. /\ UNCHANGED <<kept, journal, pc, tx, request, item, todo, rec, plan, overlaid>>
        /\ touched' = touched \cup {t}
        /\ \A u \in Target : u # t => dest'[u] = dest[u]
    BY <1>2 DEF Edit, memory, TypeInv, TypeOK
  <2>2. NumbersInv' /\ LastInv' /\ FreshInv' /\ PlanInv' /\ IdleInv'
    BY <2>1 DEF NumbersInv, LastInv, FreshInv, PlanInv, IdleInv, First
  <2>3. RemovalInv' /\ StageInv'
    BY <2>1 DEF RemovalInv, Last, StageInv, Replaced
  <2>4. DiskInv'
    BY <2>1, JournalTargets DEF DiskInv, Safe
  <2>5. MemoryInv'
    BY <2>1 DEF MemoryInv, Noticed
  <2> QED
    BY <2>2, <2>3, <2>4, <2>5
<1> QED
  BY <1>1, <1>2 DEF Environment

LEMMA StepOriginals ==
  ASSUME TypeInv, OriginalsInv, [Step]_vars
  PROVE  OriginalsInv'
<1>1. CASE Publish
  BY <1>1, QuietPublish, BeginOriginals, StageOriginals, SaveOriginals, MoveOriginals, EndOriginals DEF Publish
<1>2. CASE Restore
  BY <1>2, QuietRestore, RestoreOriginals, EndOriginals DEF Restore
<1>3. CASE Calls
  BY <1>3, QuietRestore
<1>4. CASE UNCHANGED vars
  BY <1>4 DEF vars, OriginalsInv, NumbersInv, LastInv, FreshInv, First, PlanInv, DiskInv, Safe, MemoryInv, Noticed,
     StageInv, Replaced, RemovalInv, Last, IdleInv, Marked
<1> QED
  BY <1>1, <1>2, <1>3, <1>4, RecoverOriginals, EnvironmentOriginals DEF Step

LEMMA OriginalsInvariant == Steps => []OriginalsInv
<1>1. TypeInv /\ OriginalsInv /\ [Step]_vars => OriginalsInv'
  BY StepOriginals
<1> QED
  BY InitOriginals, TypeInvariant, <1>1, PTL DEF Steps

(* Wherever a publish, its restore or a recovery is cut short, the         *)
(* original of every target the journal names is at its location or kept   *)
(* in the rollback folder (install_transaction.py), as long as no publish  *)
(* began over an unfinished one.                                           *)
THEOREM OriginalsAreKept == Spec => []OriginalsKept
<1>1. TypeInv /\ OriginalsInv => OriginalsKept
  <2> SUFFICES ASSUME TypeInv, OriginalsInv, ~overlaid, NEW k \in Unfinished, journal[k].staged,
                      NEW t \in journal[k].targets \ touched, journal[k].before[t] # None
               PROVE  journal[k].before[t] \in {ContentOf(dest[t]), ContentOf(kept[k][t])}
    BY DEF OriginalsKept
  <2>1. Safe(k, t)
    BY DEF OriginalsInv, DiskInv, Unfinished, Marked
  <2> QED
    BY <2>1 DEF Safe
<1> QED
  BY <1>1, TypeInvariant, OriginalsInvariant, BothStep, PTL

(* What a step may do to publish k while it is unfinished. *)
LeftAlone(k) ==
  /\ journal'[k].phase # "absent"
  /\ \A t \in Target : kept[k][t] # None => kept[k][t] \in {kept'[k][t], dest'[t]}

(* Only a restore takes a kept original, and it puts it at its location. *)
LEMMA StepsLeaveAlone ==
  ASSUME TypeInv, OriginalsInv, Step, NEW k \in Unfinished
  PROVE  LeftAlone(k)
<1> USE DEF Goto, disk, memory, history
<1>1. k \in Tx /\ journal[k].phase = "prepare"
  BY DEF Unfinished
<1>2. ASSUME UNCHANGED <<journal, kept>> PROVE LeftAlone(k)
  BY <1>1, <1>2 DEF LeftAlone
<1>3. ASSUME UNCHANGED kept, journal'[k].phase \in {"prepare", "done", "restored"} PROVE LeftAlone(k)
  BY <1>3 DEF LeftAlone
<1>4. CASE StartCommand
  BY <1>4, <1>2 DEF StartCommand
<1>5. CASE Recover
  <2>1. ASSUME NEW t \in Target, UndoPutBack(t) PROVE LeftAlone(k)
    BY <2>1, <1>1 DEF UndoPutBack, LeftAlone, TypeInv, TypeOK
  <2>2. CASE UndoMark
    BY <2>2, <1>1, <1>3 DEF UndoMark, TypeInv, TypeOK, Journals
  <2> QED
    BY <1>5, <1>2, <2>1, <2>2 DEF Recover, RecoverCheck, RecoverRefused, UndoRemove, UndoRemoved, UndoFails, UndoRecord,
       UndoStages, RecoveryDone
<1>6. CASE Publish
  <2>1. ASSUME NEW kind \in {"link", "current", "copy"}, NEW T \in SUBSET Target, NEW c \in Links \cup Trees,
               Begin(kind, T, c)
        PROVE  LeftAlone(k)
    BY <2>1, <1>1, <1>3 DEF Begin, NoJournal, TypeInv, TypeOK, Journals
  <2>2. CASE SaveStaged
    BY <2>2, <1>1, <1>3 DEF SaveStaged, TypeInv, TypeOK, Journals
  <2>3. ASSUME NEW t \in Target, MoveAside(t) PROVE LeftAlone(k)
    <3>1. kept[tx][t] = None /\ journal' = journal /\ tx \in Tx
      BY <2>3 DEF MoveAside, First, OriginalsInv, FreshInv, TypeInv, PublishPlace
    <3>2. \A u \in Target : kept[k][u] # None => kept'[k][u] = kept[k][u]
      BY <2>3, <3>1, <1>1 DEF MoveAside, TypeInv, TypeOK
    <3> QED
      BY <1>1, <3>1, <3>2 DEF LeftAlone
  <2>4. CASE MarkDone
    BY <2>4, <1>1, <1>3 DEF MarkDone, TypeInv, TypeOK, Journals
  <2>5. CASE Retain
    <3>1. k \notin Expired
      BY <1>1 DEF Expired, Finished
    <3> QED
      BY <2>5, <3>1, <1>1 DEF Retain, LeftAlone
  <2> QED
    BY <1>6, <1>2, <2>1, <2>2, <2>3, <2>4, <2>5 DEF Publish, BeginFails, StageOne, StageFails, MoveIn, MoveFails, Check,
       CheckFails, WriteRecord, WriteFails, Cleanup, EndCommand
<1>7. CASE Restore
  <2>1. ASSUME NEW t \in Target, RestorePutBack(t) PROVE LeftAlone(k)
    BY <2>1, <1>1 DEF RestorePutBack, LeftAlone, TypeInv, TypeOK
  <2>2. CASE RestoreMark
    BY <2>2, <1>1, <1>3 DEF RestoreMark, TypeInv, TypeOK, Journals
  <2> QED
    BY <1>7, <1>2, <2>1, <2>2 DEF Restore, CheckRestore, CheckRestoreFails, RestoreSkip, RestoreRemove, RestoreRemoved,
       RestoreBare, RestoreBlocked, RestoreRecord, RestoreFails
<1>8. CASE Calls
  BY <1>8, <1>2 DEF Calls, BeforePublish, AfterPublish, BeforeRestore, AfterRestore, BeforePublishFails,
     AfterPublishFails, BeforeRestoreFails, AfterRestoreFails
<1>9. CASE Environment
  BY <1>9, <1>2 DEF Environment, Crash, Interrupt, Edit
<1> QED
  BY <1>4, <1>5, <1>6, <1>7, <1>8, <1>9 DEF Step

(* Retention (retain_newest with the eligibility test of                   *)
(* install_transaction.py), later publishes and every other step leave the *)
(* journal of an unfinished publish where it is, and take a kept original  *)
(* out of its rollback folder only to put it back.                         *)
THEOREM UnfinishedStaysAlone == Spec \/ GatewaySpec => UnfinishedStay
<1>1. TypeInv /\ OriginalsInv /\ [Step]_vars
        => [\A k \in Unfinished :
              /\ journal'[k].phase # "absent"
              /\ \A t \in Target : kept[k][t] # None => kept[k][t] \in {kept'[k][t], dest'[t]}]_vars
  BY StepsLeaveAlone DEF LeftAlone
<1> QED
  BY <1>1, TypeInvariant, OriginalsInvariant, BothStep, PTL DEF Steps, UnfinishedStay

----------------------------------------------------------------------------
(* A file of somebody else's stays: no check adopts it as the publish's    *)
(* own output, so what a recovery or a restore removes at a location that  *)
(* did not change since the last comparison is what a publish placed.      *)

(* What the plan of a recovery removes is the candidate it found there, or *)
(* what is left of it.                                                     *)
PlannedInv ==
  pc \in {"undo", "undo-rm"} =>
    \A t \in todo \ unseen : plan[t] \in {"replace", "remove"} =>
      ContentOf(dest[t]) \in {journal[rec].candidate[t], None, Partial}

(* What a restore finds is the original or the publish's own output, or    *)
(* what its removals leave.                                                *)
ComparedInv ==
  pc \in {"restore", "restore-rm", "restore-put"} =>
    \A t \in todo \ unseen :
      dest[t] \in {item[t].before, item[t].after} \/ ContentOf(dest[t]) \in {None, Partial}

(* A publish notes as its own output only what it staged. *)
OwnInv == \A t \in Target : /\ item[t].after \in {None, item[t].candidate}
                            /\ item[t].candidate # None => item[t].candidate.id >= 0

ForeignInv == PlannedInv /\ ComparedInv /\ OwnInv

LEMMA InitForeign == Init => ForeignInv
BY DEF Init, ForeignInv, PlannedInv, ComparedInv, OwnInv, NoItems, NoItem

(* The memory of a batch that begins, ends or is lost notes no output. *)
LEMMA NoOutput ==
  ASSUME item' = NoItems
  PROVE  OwnInv'
BY DEF OwnInv, NoItems, NoItem

(* Elsewhere than in a removal nothing is compared. *)
LEMMA ForeignElsewhere ==
  ASSUME OwnInv', pc' \notin {"undo", "undo-rm", "restore", "restore-rm", "restore-put"}
  PROVE  ForeignInv'
BY DEF ForeignInv, PlannedInv, ComparedInv

LEMMA RecoverForeign == TypeInv /\ ForeignInv /\ (StartCommand \/ Recover) => ForeignInv'
<1> SUFFICES ASSUME TypeInv, ForeignInv, StartCommand \/ Recover PROVE ForeignInv'
  OBVIOUS
<1> USE DEF ForeignInv, Goto, disk, memory, history
<1>1. ASSUME NEW k \in Tx, RecoverCheck(k) PROVE ForeignInv'
  <2>1. PlannedInv'
    <3> SUFFICES ASSUME NEW t \in todo', plan'[t] \in {"replace", "remove"}
                 PROVE  ContentOf(dest[t]) = journal[k].candidate[t]
      BY <1>1 DEF RecoverCheck, PlannedInv
    <3>1. t \in journal[k].targets /\ t \in Target
      BY <1>1, JournalTargets DEF RecoverCheck
    <3>2. RecoveryAction(k, t) \in {"replace", "remove"}
      BY <1>1, <3>1 DEF RecoverCheck
    <3> QED
      BY <3>2 DEF RecoveryAction
  <2>2. ComparedInv' /\ OwnInv'
    BY <1>1 DEF RecoverCheck, ComparedInv, OwnInv
  <2> QED
    BY <2>1, <2>2
<1>2. ASSUME NEW t \in Target, UndoRemove(t) \/ UndoRemoved(t) PROVE ForeignInv'
  <2>1. /\ pc \in {"undo", "undo-rm"} /\ pc' \in {"undo", "undo-rm"} /\ todo' \subseteq todo /\ todo \subseteq Target
        /\ UNCHANGED <<item, journal, rec, unseen>>
        /\ \A u \in Target : u # t => dest'[u] = dest[u] /\ plan'[u] = plan[u]
        /\ ContentOf(dest'[t]) \in {None, Partial}
    <3>1. CASE UndoRemove(t)
      <4>1. /\ pc = "undo" /\ pc' \in {"undo", "undo-rm"} /\ todo' \subseteq todo /\ UNCHANGED <<item, journal, rec, unseen>>
            /\ \A u \in Target : u # t => plan'[u] = plan[u]
        BY <3>1 DEF UndoRemove, StartRemoval, Removed, TypeInv, TypeOK
      <4>2. /\ \A u \in Target : u # t => dest'[u] = dest[u]
            /\ ContentOf(dest'[t]) \in {None, Partial}
        <5>1. dest[t] \in File
          BY <3>1 DEF UndoRemove, TypeInv, TypeOK, Slot
        <5>2. dest' = [dest EXCEPT ![t] = None] \/ dest' = [dest EXCEPT ![t] = [dest[t] EXCEPT !.c = Partial]]
          BY <3>1 DEF UndoRemove, StartRemoval
        <5>3. [dest[t] EXCEPT !.c = Partial].c = Partial
          BY <5>1 DEF File
        <5> QED
          BY <5>2, <5>3 DEF ContentOf, TypeInv, TypeOK
      <4> QED
        BY <4>1, <4>2 DEF TypeInv, TypeOK
    <3>2. CASE UndoRemoved(t)
      BY <3>2 DEF UndoRemoved, Removed, ContentOf, TypeInv, TypeOK
    <3> QED
      BY <1>2, <3>1, <3>2
  <2>2. PlannedInv'
    BY <2>1 DEF PlannedInv
  <2>3. ComparedInv' /\ OwnInv'
    BY <2>1 DEF ComparedInv, OwnInv
  <2> QED
    BY <2>2, <2>3
<1>3. ASSUME NEW t \in Target, UndoPutBack(t) PROVE ForeignInv'
  <2>1. /\ pc = "undo" /\ pc' = "undo" /\ todo' = todo \ {t} /\ todo \subseteq Target
        /\ UNCHANGED <<item, journal, rec, unseen, plan>>
        /\ \A u \in Target : u # t => dest'[u] = dest[u]
    BY <1>3 DEF UndoPutBack, TypeInv, TypeOK
  <2> QED
    BY <2>1 DEF PlannedInv, ComparedInv, OwnInv
<1>4. ASSUME NEW t \in Target, UndoFails(t) PROVE ForeignInv'
  BY <1>4, NoOutput, ForeignElsewhere DEF UndoFails, Forget
<1>5. ASSUME NEW k \in Tx, RecoverRefused(k) PROVE ForeignInv'
  BY <1>5, NoOutput, ForeignElsewhere DEF RecoverRefused, Forget
<1>6. CASE StartCommand \/ UndoRecord \/ UndoMark \/ UndoStages \/ RecoveryDone
  <2>1. OwnInv'
    BY <1>6 DEF StartCommand, UndoRecord, UndoMark, UndoStages, RecoveryDone, OwnInv
  <2> QED
    BY <1>6, <2>1, ForeignElsewhere DEF StartCommand, UndoRecord, UndoMark, UndoStages, RecoveryDone
<1> QED
  BY <1>1, <1>2, <1>3, <1>4, <1>5, <1>6 DEF Recover

LEMMA PublishForeign == TypeInv /\ ForeignInv /\ Publish => ForeignInv'
<1> SUFFICES ASSUME TypeInv, ForeignInv, Publish PROVE ForeignInv'
  OBVIOUS
<1> USE DEF ForeignInv, Goto, Fails, disk, memory, history
<1>1. pc' \notin {"undo", "undo-rm", "restore", "restore-rm", "restore-put"}
  BY DEF Publish, Begin, BeginFails, StageOne, StageFails, SaveStaged, Check, CheckFails, MoveAside, MoveIn, MoveFails,
         WriteRecord, MarkDone, WriteFails, Retain, Cleanup, EndCommand
<1>2. OwnInv'
  <2>1. ASSUME NEW t \in Target, StageOne(t) PROVE OwnInv'
    <3>1. tx \in Nat
      BY <2>1, PublishAssumption DEF StageOne, TypeInv, TypeOK
    <3> QED
      BY <2>1, <3>1 DEF StageOne, OwnInv, TypeInv, TypeOK
  <2>2. ASSUME NEW t \in Target, StageFails(t) PROVE OwnInv'
    BY <2>2 DEF StageFails, NoItem, OwnInv, TypeInv, TypeOK
  <2>3. ASSUME NEW t \in Target, MoveIn(t) \/ MoveFails(t) PROVE OwnInv'
    <3>1. PICK now : item' = Noted(t, now)
      BY <2>3 DEF MoveIn, MoveFails
    <3>2. /\ \A u \in Target : u # t => item'[u] = item[u]
          /\ item'[t].candidate = item[t].candidate /\ item'[t].after \in {None, item[t].candidate}
      BY <3>1 DEF Noted, TypeInv, TypeOK, Item
    <3> QED
      BY <3>2 DEF OwnInv
  <2>4. CASE EndCommand \/ Cleanup
    BY <2>4, NoOutput DEF EndCommand, Cleanup, Forget
  <2> QED
    BY <2>1, <2>2, <2>3, <2>4
       DEF Publish, Begin, BeginFails, SaveStaged, Check, CheckFails, MoveAside, WriteRecord, MarkDone, WriteFails,
           Retain, OwnInv
<1> QED
  BY <1>1, <1>2, ForeignElsewhere

LEMMA RestoreForeign == TypeInv /\ ForeignInv /\ Restore => ForeignInv'
<1> SUFFICES ASSUME TypeInv, ForeignInv, Restore PROVE ForeignInv'
  OBVIOUS
<1> USE DEF ForeignInv, Goto, disk, memory, history
<1>1. item' = item /\ pc' \notin {"undo", "undo-rm"}
  BY DEF Restore, CheckRestore, CheckRestoreFails, RestoreSkip, RestoreRemove, RestoreRemoved, RestorePutBack,
         RestoreBare, RestoreBlocked, RestoreRecord, RestoreMark, RestoreFails, StartRemoval
<1>2. OwnInv' /\ PlannedInv'
  BY <1>1 DEF OwnInv, PlannedInv
<1>3. ComparedInv'
  <2>1. CASE CheckRestore
    BY <2>1 DEF CheckRestore, Restorable, Staged, ComparedInv
  <2>2. ASSUME NEW t \in Target, RestoreRemove(t) \/ RestoreRemoved(t) PROVE ComparedInv'
    <3>1. /\ pc \in {"restore", "restore-rm"} /\ UNCHANGED <<todo, unseen>> /\ todo \subseteq Target
          /\ \A u \in Target : u # t => dest'[u] = dest[u]
          /\ ContentOf(dest'[t]) \in {None, Partial}
      <4>1. CASE RestoreRemove(t)
        <5>1. dest[t] \in File
          BY <4>1 DEF RestoreRemove, TypeInv, TypeOK, Slot
        <5>2. dest' = [dest EXCEPT ![t] = None] \/ dest' = [dest EXCEPT ![t] = [dest[t] EXCEPT !.c = Partial]]
          BY <4>1 DEF RestoreRemove, StartRemoval
        <5>3. [dest[t] EXCEPT !.c = Partial].c = Partial
          BY <5>1 DEF File
        <5>4. ContentOf(dest'[t]) \in {None, Partial} /\ \A u \in Target : u # t => dest'[u] = dest[u]
          BY <5>2, <5>3 DEF ContentOf, TypeInv, TypeOK
        <5> QED
          BY <4>1, <5>4 DEF RestoreRemove, TypeInv, TypeOK
      <4>2. CASE RestoreRemoved(t)
        BY <4>2 DEF RestoreRemoved, ContentOf, TypeInv, TypeOK
      <4> QED
        BY <2>2, <4>1, <4>2
    <3> QED
      BY <1>1, <3>1 DEF ComparedInv
  <2>3. ASSUME NEW t \in Target, RestoreSkip(t) \/ RestorePutBack(t) \/ RestoreBare(t) PROVE ComparedInv'
    <3>1. /\ pc' \in {"restore", "cleanup"} /\ pc \in {"restore", "restore-put"} /\ UNCHANGED unseen
          /\ pc' = "restore" => todo' = todo \ {t}
          /\ \A u \in Target : u # t => dest'[u] = dest[u]
          /\ todo \subseteq Target
      BY <2>3 DEF RestoreSkip, RestorePutBack, RestoreBare, Emptied, TypeInv, TypeOK
    <3> QED
      BY <1>1, <3>1 DEF ComparedInv
  <2>4. CASE CheckRestoreFails \/ RestoreRecord \/ RestoreMark \/ RestoreFails \/ \E t \in Target : RestoreBlocked(t)
    BY <2>4 DEF CheckRestoreFails, RestoreRecord, RestoreMark, RestoreFails, RestoreBlocked, ComparedInv
  <2> QED
    BY <2>1, <2>2, <2>3, <2>4 DEF Restore
<1> QED
  BY <1>2, <1>3

LEMMA ForeignStep == TypeInv /\ ForeignInv /\ [Step]_vars => ForeignInv'
<1> SUFFICES ASSUME TypeInv, ForeignInv, [Step]_vars PROVE ForeignInv'
  OBVIOUS
<1> USE DEF Goto, Fails, disk, memory, history
<1>1. CASE Calls
  <2>1. item' = item /\ pc' \notin {"undo", "undo-rm", "restore", "restore-rm", "restore-put"}
    BY <1>1 DEF Calls, BeforePublish, AfterPublish, BeforeRestore, AfterRestore, BeforePublishFails,
                AfterPublishFails, BeforeRestoreFails, AfterRestoreFails
  <2> QED
    BY <2>1, ForeignElsewhere DEF ForeignInv, OwnInv
<1>2. CASE Crash \/ Interrupt
  BY <1>2, NoOutput, ForeignElsewhere DEF Crash, Interrupt, Forget
<1>3. ASSUME NEW t \in Target, Edit(t) PROVE ForeignInv'
  <2>1. /\ UNCHANGED <<journal, pc, item, todo, rec, plan>> /\ unseen' = unseen \cup {t} /\ todo \subseteq Target
        /\ \A u \in Target : u # t => dest'[u] = dest[u]
    BY <1>3 DEF Edit, TypeInv, TypeOK
  <2> QED
    BY <2>1 DEF ForeignInv, PlannedInv, ComparedInv, OwnInv
<1>4. CASE UNCHANGED vars
  BY <1>4 DEF vars, ForeignInv, PlannedInv, ComparedInv, OwnInv
<1> QED
  BY <1>1, <1>2, <1>3, <1>4, RecoverForeign, PublishForeign, RestoreForeign DEF Step, Environment

LEMMA ForeignInvariant == Steps => []ForeignInv
BY InitForeign, ForeignStep, TypeInvariant, PTL DEF Steps

(* What a step that is no edit takes from a location since compared is a   *)
(* kept original, or the candidate of a journal.                           *)
LEMMA ForeignSurvives ==
  ASSUME TypeInv, ForeignInv, Step, NEW t \in Target,
         dest[t] # None, dest[t].id < 0, dest[t].c # Partial, dest'[t] # dest[t], edits' = edits,
         \A k \in Tx : kept'[k][t] # dest[t] /\ journal[k].candidate[t] # dest[t].c
  PROVE  t \in unseen
<1> USE DEF ForeignInv, Goto, disk, memory, history
<1>0. /\ dest[t] \in File /\ dest[t].c # None /\ ContentOf(dest[t]) = dest[t].c
  BY PublishAssumption DEF TypeInv, TypeOK, Slot, File, ContentOf
<1>1. CASE UndoRemove(t)
  <2>1. pc = "undo" /\ t \in todo /\ plan[t] \in {"replace", "remove"} /\ rec \in Tx
    BY <1>1 DEF UndoRemove, Last, TypeInv, UndoPlace, RecoverPlace
  <2> QED
    BY <1>0, <2>1 DEF PlannedInv
<1>2. CASE RestoreRemove(t)
  <2>1. pc = "restore" /\ t \in todo /\ dest[t] \notin {item[t].before, None}
    BY <1>2 DEF RestoreRemove, Last
  <2>2. dest[t] # item[t].after
    <3>1. dest[t].id \in Int /\ dest[t].id < 0
      BY <1>0 DEF File
    <3> QED
      BY <3>1, <2>1 DEF OwnInv
  <2> QED
    BY <1>0, <2>1, <2>2 DEF ComparedInv
<1>3. CASE MoveAside(t)
  <2>1. tx \in Tx /\ kept'[tx][t] = dest[t]
    BY <1>3 DEF MoveAside, TypeInv, TypeOK, PublishPlace
  <2> QED
    BY <2>1
<1>4. ASSUME NEW u \in Target, Edit(u) PROVE FALSE
  BY <1>4, PublishAssumption DEF Edit, TypeInv, TypeOK
<1>5. ASSUME NEW u \in Target, u # t,
             UndoRemove(u) \/ RestoreRemove(u) \/ MoveAside(u) \/ UndoRemoved(u) \/ RestoreRemoved(u)
             \/ UndoPutBack(u) \/ MoveIn(u) \/ RestorePutBack(u)
      PROVE  FALSE
  BY <1>5 DEF UndoRemove, RestoreRemove, MoveAside, UndoRemoved, RestoreRemoved, UndoPutBack, MoveIn, RestorePutBack,
              StartRemoval, TypeInv, TypeOK
<1>6. ~(UndoRemoved(t) \/ RestoreRemoved(t) \/ UndoPutBack(t) \/ MoveIn(t) \/ RestorePutBack(t))
  BY <1>0 DEF UndoRemoved, RestoreRemoved, UndoPutBack, MoveIn, RestorePutBack
<1>7. dest' # dest
  OBVIOUS
<1>8. \E u \in Target : UndoRemove(u) \/ RestoreRemove(u) \/ MoveAside(u) \/ UndoRemoved(u) \/ RestoreRemoved(u)
                        \/ UndoPutBack(u) \/ MoveIn(u) \/ RestorePutBack(u) \/ Edit(u)
  <2>1. CASE StartCommand \/ Recover
    BY <1>7, <2>1 DEF StartCommand, Recover, RecoverCheck, RecoverRefused, UndoFails, UndoRecord, UndoMark, UndoStages,
                      RecoveryDone
  <2>2. CASE Publish
    BY <1>7, <2>2 DEF Publish, Begin, BeginFails, StageOne, StageFails, MoveFails, SaveStaged, Check, CheckFails,
                      WriteRecord, MarkDone, WriteFails, Retain, Cleanup, EndCommand
  <2>3. CASE Restore
    BY <1>7, <2>3 DEF Restore, CheckRestore, CheckRestoreFails, RestoreSkip, RestoreBare, RestoreBlocked, RestoreRecord,
                      RestoreMark, RestoreFails
  <2>4. CASE Calls \/ Environment
    BY <1>7, <2>4 DEF Calls, Environment, BeforePublish, AfterPublish, BeforeRestore, AfterRestore, BeforePublishFails,
                      AfterPublishFails, BeforeRestoreFails, AfterRestoreFails, Crash, Interrupt
  <2> QED
    BY <2>1, <2>2, <2>3, <2>4 DEF Step
<1> QED
  BY <1>1, <1>2, <1>3, <1>4, <1>5, <1>6, <1>8

(* A file somebody else put at an install location, no copy of what a      *)
(* publish staged there, leaves it in a program's step only into a         *)
(* rollback folder, or when it came after the program last compared the    *)
(* locations (the checks of _recovery_action and ReplacementBatch.restore).*)
THEOREM ForeignFilesKept == Spec \/ GatewaySpec => ForeignKept
<1>1. TypeInv /\ ForeignInv /\ [Step]_vars
        => [\A t \in Target :
              /\ dest[t] # None /\ dest[t].id < 0 /\ dest[t].c # Partial
              /\ dest'[t] # dest[t] /\ edits' = edits
              /\ \A k \in Tx : kept'[k][t] # dest[t] /\ journal[k].candidate[t] # dest[t].c
              => t \in unseen]_vars
  BY ForeignSurvives
<1> QED
  BY <1>1, TypeInvariant, ForeignInvariant, BothStep, PTL DEF Steps, ForeignKept

----------------------------------------------------------------------------
(* The service of a publish with the gateway participant.                  *)

(* The journal of a publish that neither ended nor was restored says so.   *)
PhaseInv ==
  pc \in PublishPlace \ {"retain", "after-restore", "cleanup"} => Marked(tx)

(* The service runs the installed code, unless somebody changed it since   *)
(* the publish began.                                                      *)
RunsCurrent == Runtime \notin touched => loaded = RuntimeCode

(* What the participant of the publish remembers. *)
MemoryOfService ==
  pc \in PublishPlace => /\ wasRunning => Affected
                         /\ stopped => wasRunning
                         /\ pc \in {"stage", "before-publish"} => ~wasRunning /\ ~started

(* While the files change, a service that ran is absent; once they are in  *)
(* place it runs them.                                                     *)
PublishingInv ==
  /\ pc \in {"check", "move", "move-in", "after-publish"} => ~started /\ (wasRunning => stopped /\ service = "absent")
  /\ pc \in {"finish", "retain"} =>
       /\ started => wasRunning
       /\ wasRunning => started /\ stopped /\ service = "running" /\ RunsCurrent

(* In a restore the service is absent, unless the candidate's still runs   *)
(* or its stop was never confirmed (exit 3).                               *)
RestoringInv ==
  /\ pc \in RestorePlace => exit # 5 /\ (wasRunning => stopped \/ exit = 3)
  /\ pc = "before-restore" => /\ started => wasRunning /\ exit # 3 /\ (service = "running" => RunsCurrent)
                              /\ ~started => (stopped => service = "absent")
  /\ pc \in RestorePlace \ {"before-restore"} => ~started /\ (stopped => service = "absent")

ServiceInv ==
  PhaseInv /\ MemoryOfService /\ PublishingInv /\ RestoringInv /\ RunsInstalledCode /\ ServiceComesBack

(* Outside a publish nothing is promised of the service. *)
LEMMA NoPublish ==
  ASSUME pc' \notin PublishPlace
  PROVE  ServiceInv'
BY DEF ServiceInv, PhaseInv, MemoryOfService, PublishingInv, RestoringInv, RunsInstalledCode, ServiceComesBack,
       PublishPlace, RestorePlace

(* A command's own steps: the journal of the running publish. *)
LEMMA PhaseStep ==
  ASSUME TypeInv, PhaseInv, Step
  PROVE  PhaseInv'
<1> USE DEF PhaseInv, Marked, Goto, Fails, PublishPlace, RestorePlace, RecoverPlace, disk, memory, history
<1>1. CASE StartCommand \/ Recover
  BY <1>1 DEF StartCommand, Recover, RecoverCheck, RecoverRefused, UndoRemove, UndoRemoved, UndoPutBack, UndoFails,
              StartRemoval, UndoRecord, UndoMark, UndoStages, RecoveryDone
<1>2. CASE Publish
  <2>1. ASSUME NEW kind \in {"link", "current", "copy"}, NEW T \in SUBSET Target, NEW c \in Links \cup Trees,
               Begin(kind, T, c)
        PROVE  PhaseInv'
    <3>1. tx' \in Tx /\ tx' = tx + 1
      BY <2>1, PublishAssumption DEF Begin, Tx, TypeInv, TypeOK
    <3> QED
      BY <2>1, <3>1 DEF Begin, NoJournal, TypeInv, TypeOK
  <2>2. CASE SaveStaged
    BY <2>2 DEF SaveStaged, TypeInv, TypeOK, Journals
  <2>3. CASE MarkDone \/ Retain \/ Cleanup \/ EndCommand
    BY <2>3 DEF MarkDone, Retain, Cleanup, EndCommand
  <2>4. CASE \E kind \in {"link", "current", "copy"}, T \in SUBSET Target, c \in Links \cup Trees : BeginFails(kind, T, c)
    BY <2>4 DEF BeginFails
  <2> QED
    BY <1>2, <2>1, <2>2, <2>3, <2>4
       DEF Publish, StageOne, StageFails, MoveAside, MoveIn, MoveFails, Check, CheckFails, WriteRecord, WriteFails
<1>3. CASE Restore
  BY <1>3 DEF Restore, CheckRestore, CheckRestoreFails, RestoreSkip, RestoreRemove, RestoreRemoved, RestorePutBack,
              RestoreBare, RestoreBlocked, RestoreRecord, RestoreMark, RestoreFails, StartRemoval, Emptied
<1>4. CASE Calls
  BY <1>4 DEF Calls, BeforePublish, AfterPublish, BeforeRestore, AfterRestore, BeforePublishFails,
              AfterPublishFails, BeforeRestoreFails, AfterRestoreFails
<1>5. CASE Environment
  BY <1>5 DEF Environment, Crash, Interrupt, Edit
<1> QED
  BY <1>1, <1>2, <1>3, <1>4, <1>5 DEF Step

(* A publish changes its files while the service it found running is       *)
(* absent.                                                                 *)
LEMMA PublishService ==
  ASSUME TypeInv, ServiceInv, PhaseInv', Publish, IF pc = "ready" THEN NewParticipant ELSE UNCHANGED serviceVars
  PROVE  ServiceInv'
<1> USE DEF ServiceInv, MemoryOfService, PublishingInv, RestoringInv, RunsInstalledCode, ServiceComesBack, RunsCurrent,
            RuntimeCode, Affected, Replaced, PhaseInv, Marked, Goto, Fails, PublishPlace, RestorePlace,
            NewParticipant, serviceVars, participantVars, disk, memory, history
<1>1. ASSUME NEW kind \in {"link", "current", "copy"}, NEW T \in SUBSET Target, NEW c \in Links \cup Trees,
             Begin(kind, T, c) \/ BeginFails(kind, T, c)
      PROVE  ServiceInv'
  BY <1>1 DEF Begin, BeginFails
<1>2. ASSUME NEW t \in Target, StageOne(t) \/ StageFails(t) PROVE ServiceInv'
  BY <1>2 DEF StageOne, StageFails
<1>3. CASE SaveStaged \/ Check \/ CheckFails
  BY <1>3 DEF SaveStaged, Check, CheckFails
<1>4. ASSUME NEW t \in Target, MoveAside(t) \/ MoveIn(t) \/ MoveFails(t) PROVE ServiceInv'
  BY <1>4 DEF MoveAside, MoveIn, MoveFails
<1>5. CASE WriteRecord \/ MarkDone
  BY <1>5 DEF WriteRecord, MarkDone
<1>6. CASE WriteFails
  <2>1. /\ pc \in {"stage", "move", "finish"} /\ pc' = "before-restore" /\ exit' = 1
        /\ UNCHANGED <<dest, journal, tx, request, touched, service, loaded, wasRunning, stopped, started>>
    BY <1>6 DEF WriteFails
  <2> QED
    BY <2>1
<1>7. CASE Retain
  BY <1>7 DEF Retain
<1>8. CASE Cleanup \/ EndCommand
  BY <1>8, NoPublish DEF Cleanup, EndCommand
<1> QED
  BY <1>1, <1>2, <1>3, <1>4, <1>5, <1>6, <1>7, <1>8 DEF Publish

(* A restore changes its files while the service is absent. *)
LEMMA RestoreService ==
  ASSUME TypeInv, ServiceInv, PhaseInv', Restore, UNCHANGED serviceVars
  PROVE  ServiceInv'
<1> USE DEF ServiceInv, MemoryOfService, PublishingInv, RestoringInv, RunsInstalledCode, ServiceComesBack, RunsCurrent,
            RuntimeCode, Affected, Replaced, PhaseInv, Marked, Goto, PublishPlace, RestorePlace,
            serviceVars, participantVars, disk, memory, history
<1>1. CASE CheckRestore \/ CheckRestoreFails \/ RestoreRecord \/ RestoreMark \/ RestoreFails
  BY <1>1 DEF CheckRestore, CheckRestoreFails, RestoreRecord, RestoreMark, RestoreFails
<1>2. ASSUME NEW t \in Target, RestoreSkip(t) \/ RestoreRemove(t) \/ RestoreRemoved(t) PROVE ServiceInv'
  BY <1>2 DEF RestoreSkip, RestoreRemove, RestoreRemoved, StartRemoval
<1>3. ASSUME NEW t \in Target, RestorePutBack(t) \/ RestoreBare(t) \/ RestoreBlocked(t) PROVE ServiceInv'
  BY <1>3 DEF RestorePutBack, RestoreBare, RestoreBlocked, Emptied
<1> QED
  BY <1>1, <1>2, <1>3 DEF Restore

(* The participant's calls. *)
LEMMA HooksService ==
  ASSUME TypeInv, ServiceInv, PhaseInv', Hooks
  PROVE  ServiceInv'
<1> USE DEF ServiceInv, MemoryOfService, PublishingInv, RestoringInv, RunsInstalledCode, ServiceComesBack, RunsCurrent,
            RuntimeCode, Affected, Replaced, PhaseInv, Marked, Goto, Fails, PublishPlace, RestorePlace,
            serviceVars, participantVars, disk, memory, history, Starts, StartFails, ServiceFault
<1>1. CASE BeforePublish /\ StopBefore(Affected /\ Readable)
  BY <1>1 DEF BeforePublish, StopBefore
<1>2. CASE BeforePublishFails(2) /\ UNCHANGED serviceVars
  BY <1>2 DEF BeforePublishFails
<1>3. CASE BeforePublishFails(2) /\ StopBeforeFails(Affected, 2)
  BY <1>3 DEF BeforePublishFails, StopBeforeFails
<1>4. CASE BeforePublishFails(3) /\ StopBeforeFails(Affected, 3)
  BY <1>4 DEF BeforePublishFails, StopBeforeFails
<1>5. CASE AfterPublish /\ StartAfter(Affected, RuntimeCode)
  BY <1>5 DEF AfterPublish, StartAfter
<1>6. ASSUME NEW code \in {1, 4}, AfterPublishFails(code), StartAfterFails(Affected, RuntimeCode, code)
      PROVE  ServiceInv'
  BY <1>6 DEF AfterPublishFails, StartAfterFails
<1>7. CASE BeforeRestore /\ StopCandidate
  BY <1>7 DEF BeforeRestore, StopCandidate
<1>8. CASE BeforeRestoreFails /\ StopCandidateFails
  BY <1>8 DEF BeforeRestoreFails, StopCandidateFails
<1>9. CASE AfterRestore /\ StartPrior(RuntimeCode)
  BY <1>9 DEF AfterRestore, StartPrior
<1>10. CASE AfterRestoreFails /\ StartPriorFails(RuntimeCode)
  BY <1>10 DEF AfterRestoreFails, StartPriorFails
<1> QED
  BY <1>1, <1>2, <1>3, <1>4, <1>5, <1>6, <1>7, <1>8, <1>9, <1>10 DEF Hooks

LEMMA ServiceStep == TypeInv /\ ServiceInv /\ [GatewayNext]_gatewayVars => ServiceInv'
<1> SUFFICES ASSUME TypeInv, ServiceInv, [GatewayNext]_gatewayVars PROVE ServiceInv'
  OBVIOUS
<1>1. CASE UNCHANGED gatewayVars
  BY <1>1 DEF gatewayVars, vars, serviceVars, participantVars, ServiceInv, MemoryOfService, PublishingInv, RestoringInv,
              RunsInstalledCode, ServiceComesBack, RunsCurrent, RuntimeCode, Affected, Replaced, PhaseInv, Marked
<1>2. CASE GatewayNext
  <2>1. GatewayNext => Step \/ Login
    BY DEF GatewayNext, Hooks, Step, Calls, Environment
  <2>2. CASE Login
    BY <2>2, NoPublish DEF Login, vars, PublishPlace, RestorePlace
  <2>3. CASE Step
    <3>1. PhaseInv'
      BY <2>3, PhaseStep DEF ServiceInv
    <3>2. CASE StartCommand \/ Recover
      <4>1. pc' \notin PublishPlace
        BY <3>2 DEF StartCommand, Recover, RecoverCheck, RecoverRefused, UndoRemove, UndoRemoved, UndoPutBack, UndoFails,
                    StartRemoval, UndoRecord, UndoMark, UndoStages, RecoveryDone, Goto, PublishPlace, RestorePlace
      <4> QED
        BY <4>1, NoPublish
    <3>3. CASE Crash \/ Interrupt
      BY <3>3, NoPublish DEF Crash, Interrupt, Goto, PublishPlace, RestorePlace
    <3>4. ASSUME NEW t \in Target, Edit(t), UNCHANGED serviceVars PROVE ServiceInv'
      <4>1. /\ UNCHANGED <<pc, tx, journal, request, exit>> /\ touched' = touched \cup {t}
            /\ UNCHANGED <<service, loaded, wasRunning, stopped, started>>
            /\ Runtime \notin touched' => RuntimeCode' = RuntimeCode
        BY <3>4, RuntimeAssumption DEF Edit, memory, serviceVars, participantVars, RuntimeCode, TypeInv, TypeOK
      <4> QED
        BY <4>1 DEF ServiceInv, MemoryOfService, PublishingInv, RestoringInv, RunsInstalledCode, ServiceComesBack,
                    RunsCurrent, Affected, Replaced, PhaseInv, Marked
    <3> QED
      BY <1>2, <2>2, <3>1, <3>2, <3>3, <3>4, PublishService, RestoreService, HooksService DEF GatewayNext
  <2> QED
    BY <1>2, <2>1, <2>2, <2>3
<1> QED
  BY <1>1, <1>2

LEMMA ServiceInvariant == GatewaySpec => []ServiceInv
<1>1. GatewayInit => ServiceInv
  BY DEF GatewayInit, Init, ServiceInv, PhaseInv, MemoryOfService, PublishingInv, RestoringInv, RunsInstalledCode,
         ServiceComesBack, PublishPlace, RestorePlace
<1> QED
  BY <1>1, ServiceStep, TypeInvariant, BothStep, PTL DEF GatewaySpec

(* Whatever fails between the stop and the end of a publish, a service the *)
(* publish found running and that runs at its end runs the installed code  *)
(* (gateway_participant.py), unless the stop itself was never confirmed.   *)
THEOREM ServiceRunsInstalledCode == GatewaySpec => []RunsInstalledCode
<1>1. ServiceInv => RunsInstalledCode
  BY DEF ServiceInv
<1> QED
  BY <1>1, ServiceInvariant, PTL

(* A publish that is done or restored gives back the service it stopped,   *)
(* unless its exit code holds the service for review.                      *)
THEOREM ServiceIsGivenBack == GatewaySpec => []ServiceComesBack
<1>1. ServiceInv => ServiceComesBack
  BY DEF ServiceInv
<1> QED
  BY <1>1, ServiceInvariant, PTL

----------------------------------------------------------------------------
(* A publish is all or nothing: InstallPublish implements AbstractPublish  *)
(* as long as no publish begins over an unfinished one.                    *)

(* A publish notes only what it replaces, and its journal names just that. *)
RequestInv ==
  pc \in PublishPlace =>
    /\ \A t \in Target : item[t].on => t \in Replaced
    /\ Marked(tx) => journal[tx].targets = Replaced
    /\ pc \in {"stage", "move", "move-in"} => todo \subseteq Replaced
    /\ pc \in {"restore", "restore-rm", "restore-put"} => todo \subseteq Staged
    /\ pc \in {"before-publish", "check", "move", "move-in", "after-publish", "finish"} => journal[tx].staged

Holds(T) == \A t \in T \ touched : ContentOf(dest[t]) = request.content

(* What is staged, and then what is installed, is what was requested. *)
PlacedInv ==
  /\ pc = "stage" => \A t \in Replaced \ todo : ContentOf(stage[tx][t]) = request.content
  /\ pc \in {"before-publish", "check"} => \A t \in Replaced : ContentOf(stage[tx][t]) = request.content
  /\ pc \in {"move", "move-in"} =>
       Holds(Replaced \ todo) /\ \A t \in todo : ContentOf(stage[tx][t]) = request.content
  /\ pc \in {"after-publish", "finish"} => Holds(Replaced)
  /\ pc \in {"stage", "before-publish", "check", "move", "move-in", "after-publish", "finish"} /\ request.kind = "current"
       => Holds(request.targets)

Recorded(before) ==
  IF before = Unreadable THEN before
  ELSE [t \in Target |-> IF t \in request.targets THEN request.content ELSE before[t]]

(* The record is the saved one until the files are in place, and again     *)
(* before a journal says restored.                                         *)
RecordInv ==
  /\ pc \in {"stage", "before-publish", "check", "move", "move-in", "restore-mark"} => record = journal[tx].record
  /\ pc \in {"after-publish", "finish"} => record = Recorded(journal[tx].record)
  /\ pc = "undo-mark" => record = journal[rec].record

(* A publish that staged nothing changed nothing. *)
UnstagedInv ==
  pc \in PublishPlace /\ Marked(tx) /\ ~journal[tx].staged =>
    /\ \A t \in Target : kept[tx][t] = None
    /\ \A t \in Target \ touched : item[t].on => dest[t] = item[t].before
    /\ pc \in {"restore-rm", "restore-put"} => \A t \in todo : Last(t) => t \in touched

(* What publish k replaced is as it was, but for the targets left to do. *)
Back(k) ==
  journal[k].staged => \A t \in journal[k].targets \ (todo \cup touched) : ContentOf(dest[t]) = journal[k].before[t]

BackInv ==
  /\ pc \in {"restore", "restore-rm", "restore-put", "restore-mark"} /\ ~overlaid => Back(tx)
  /\ pc \in {"undo", "undo-rm", "undo-mark"} /\ ~overlaid => Back(rec)
  /\ pc \in {"restore-mark", "undo-mark"} => todo = {}
  /\ pc \in {"undo", "undo-rm"} => todo \subseteq journal[rec].targets /\ (todo # {} => journal[rec].staged)
  /\ pc = "undo-rm" => \A t \in todo : Last(t) => plan[t] \in {"replace", "remove"}
  /\ pc = "undo-mark" => Marked(rec)

AtomicInv == PhaseInv /\ RequestInv /\ PlacedInv /\ RecordInv /\ UnstagedInv /\ BackInv

LEMMA InitAtomic == Init => AtomicInv
BY DEF Init, AtomicInv, PhaseInv, RequestInv, PlacedInv, RecordInv, UnstagedInv, BackInv, PublishPlace, RestorePlace

(* The steps of a recovery are no steps of a publish. *)
LEMMA RecoverPlaces ==
  ASSUME StartCommand \/ Recover
  PROVE  /\ pc' \in RecoverPlace \cup {"idle", "ready"} /\ pc' \notin PublishPlace
         /\ UNCHANGED <<tx, touched, overlaid>>
BY DEF StartCommand, Recover, RecoverCheck, RecoverRefused, UndoRemove, UndoRemoved, UndoPutBack, UndoFails,
       StartRemoval, UndoRecord, UndoMark, UndoStages, RecoveryDone, Goto, RecoverPlace, PublishPlace, RestorePlace,
       memory, history

(* Calls change nothing of the files, the record and the batch. *)
LEMMA CallPlaces ==
  ASSUME Calls
  PROVE  /\ UNCHANGED <<dest, stage, kept, journal, record, tx, request, item, todo, rec, plan, touched, overlaid>>
         /\ \/ pc = "before-publish" /\ pc' \in {"check", "before-restore"}
            \/ pc = "after-publish" /\ pc' \in {"finish", "before-restore"}
            \/ pc = "before-restore" /\ pc' \in {"check-restore", "cleanup"}
            \/ pc = "after-restore" /\ pc' = "cleanup"
BY DEF Calls, BeforePublish, AfterPublish, BeforeRestore, AfterRestore, BeforePublishFails,
       AfterPublishFails, BeforeRestoreFails, AfterRestoreFails, Goto, Fails, disk, memory, history

LEMMA RequestStep ==
  ASSUME TypeInv, OriginalsInv, RequestInv, Step
  PROVE  RequestInv'
<1> USE DEF RequestInv, Replaced, Marked, Goto, Fails, PublishPlace, RestorePlace, RecoverPlace, disk, memory, history
<1>1. CASE StartCommand \/ Recover
  BY <1>1, RecoverPlaces
<1>2. CASE Publish
  <2>1. ASSUME NEW kind \in {"link", "current", "copy"}, NEW T \in SUBSET Target, NEW c \in Links \cup Trees,
               Begin(kind, T, c)
        PROVE  RequestInv'
    <3>1. /\ tx' \in Tx /\ tx' = tx + 1 /\ item' = item /\ todo' = Replaced' /\ pc' = "stage"
          /\ \A t \in Target : ~item[t].on
      BY <2>1, PublishAssumption DEF Begin, Tx, TypeInv, TypeOK, OriginalsInv, IdleInv
    <3>2. journal'[tx'].targets = Replaced'
      BY <2>1, <3>1 DEF Begin, NoJournal, TypeInv, TypeOK
    <3> QED
      BY <3>1, <3>2
  <2>2. ASSUME NEW t \in Target, StageOne(t) \/ StageFails(t) PROVE RequestInv'
    <3>1. /\ pc = "stage" /\ pc' \in {"stage", "before-restore"} /\ UNCHANGED <<request, journal, tx>>
          /\ t \in todo /\ todo' \subseteq todo /\ \A u \in Target : u # t => item'[u] = item[u]
      BY <2>2 DEF StageOne, StageFails, First, TypeInv, TypeOK
    <3> QED
      BY <3>1
  <2>3. CASE SaveStaged
    <3>1. /\ pc = "stage" /\ pc' = "before-publish" /\ UNCHANGED <<request, tx, item>>
          /\ journal'[tx].staged /\ journal'[tx].targets = journal[tx].targets /\ journal'[tx].phase = journal[tx].phase
      BY <2>3 DEF SaveStaged, TypeInv, TypeOK, Journals
    <3> QED
      BY <3>1
  <2>4. ASSUME NEW t \in Target, MoveAside(t) \/ MoveIn(t) \/ MoveFails(t) PROVE RequestInv'
    <3>1. /\ pc \in {"move", "move-in"} /\ pc' \in {"move", "move-in", "before-restore"} /\ UNCHANGED <<request, journal, tx>>
          /\ todo' \subseteq todo
      BY <2>4 DEF MoveAside, MoveIn, MoveFails
    <3>2. item' = item \/ \E now : item' = Noted(t, now)
      BY <2>4 DEF MoveAside, MoveIn, MoveFails
    <3>3. \A u \in Target : item'[u].on = item[u].on
      BY <3>2 DEF Noted, TypeInv, TypeOK, Item
    <3> QED
      BY <3>1, <3>3
  <2>5. CASE MarkDone \/ Retain
    <3>1. /\ pc' \in {"retain", "cleanup"} /\ UNCHANGED <<request, tx, item>>
          /\ Marked(tx)' => Marked(tx) /\ journal'[tx] = journal[tx]
      BY <2>5 DEF MarkDone, Retain, NoJournal, TypeInv, TypeOK, Journals
    <3> QED
      BY <2>5, <3>1 DEF MarkDone, Retain
  <2>6. CASE Check \/ CheckFails \/ WriteRecord \/ WriteFails \/ Cleanup \/ EndCommand
    BY <2>6 DEF Check, CheckFails, WriteRecord, WriteFails, Cleanup, EndCommand
  <2>7. CASE \E kind \in {"link", "current", "copy"}, T \in SUBSET Target, c \in Links \cup Trees : BeginFails(kind, T, c)
    BY <2>7 DEF BeginFails
  <2> QED
    BY <1>2, <2>1, <2>2, <2>3, <2>4, <2>5, <2>6, <2>7 DEF Publish
<1>3. CASE Restore
  <2>1. /\ UNCHANGED <<request, tx, item>> /\ pc \in RestorePlace
        /\ pc' \in RestorePlace \cup {"cleanup"} /\ (Marked(tx)' => journal'[tx] = journal[tx])
        /\ todo' \subseteq todo \/ todo' = Staged
        /\ pc' \in {"restore", "restore-rm", "restore-put"} =>
             pc \in {"restore", "restore-rm", "restore-put"} \/ (todo' = Staged)
    BY <1>3 DEF Restore, CheckRestore, CheckRestoreFails, RestoreSkip, RestoreRemove, RestoreRemoved, RestorePutBack,
                RestoreBare, RestoreBlocked, RestoreRecord, RestoreMark, RestoreFails, StartRemoval, Emptied,
                TypeInv, TypeOK, Journals
  <2> QED
    BY <2>1 DEF Staged
<1>4. CASE Calls
  BY <1>4, CallPlaces
<1>5. CASE Environment
  BY <1>5 DEF Environment, Crash, Interrupt, Edit, Staged
<1> QED
  BY <1>1, <1>2, <1>3, <1>4, <1>5 DEF Step

LEMMA PlacedStep ==
  ASSUME TypeInv, RequestInv, PlacedInv, Step
  PROVE  PlacedInv'
<1> USE DEF PlacedInv, Holds, Replaced, Goto, Fails, PublishPlace, RestorePlace, disk, memory, history
<1>1. CASE StartCommand \/ Recover
  BY <1>1, RecoverPlaces
<1>2. CASE Publish
  <2>1. ASSUME NEW kind \in {"link", "current", "copy"}, NEW T \in SUBSET Target, NEW c \in Links \cup Trees,
               Begin(kind, T, c)
        PROVE  PlacedInv'
    BY <2>1 DEF Begin, MayRequest
  <2>2. ASSUME NEW t \in Target, StageOne(t) \/ StageFails(t) PROVE PlacedInv'
    <3>1. CASE StageOne(t)
      <4>1. tx \in Tx
        BY <3>1 DEF StageOne, TypeInv
      <4>2. stage'[tx][t] = [c |-> request.content, id |-> tx] /\ \A u \in Target : u # t => stage'[tx][u] = stage[tx][u]
        BY <3>1, <4>1 DEF StageOne, TypeInv, TypeOK
      <4>3. ContentOf(stage'[tx][t]) = request.content
        <5>0. request.content \in Content /\ tx \in Int
          BY <3>1, <4>1 DEF StageOne, TypeInv, Tx
        <5>1. [c |-> request.content, id |-> tx] # None
          BY <5>0, FileType, PublishAssumption
        <5> QED
          BY <4>2, <5>1 DEF ContentOf
      <4>4. request.targets \subseteq Target
        BY DEF TypeInv, TypeOK, Requests
      <4> QED
        BY <3>1, <4>2, <4>3, <4>4 DEF StageOne
    <3>2. CASE StageFails(t)
      BY <3>2 DEF StageFails
    <3> QED
      BY <2>2, <3>1, <3>2
  <2>3. CASE SaveStaged
    BY <2>3 DEF SaveStaged
  <2>4. CASE Check
    BY <2>4 DEF Check
  <2>5. ASSUME NEW t \in Target, MoveAside(t) \/ MoveIn(t) PROVE PlacedInv'
    <3>1. /\ pc \in {"move", "move-in"} /\ pc' \in {"move", "move-in"} /\ UNCHANGED <<request, tx, touched>>
          /\ t \in todo /\ tx \in Tx /\ todo \subseteq Replaced /\ Replaced \subseteq Target
          /\ \A u \in Target : u # t => dest'[u] = dest[u] /\ stage'[tx][u] = stage[tx][u]
      BY <2>5 DEF MoveAside, MoveIn, First, RequestInv, TypeInv, TypeOK, Requests
    <3>2. MoveAside(t) => todo' = todo /\ stage' = stage
      BY DEF MoveAside
    <3>3. MoveIn(t) => todo' = todo \ {t} /\ dest'[t] = stage[tx][t]
      BY DEF MoveIn, TypeInv, TypeOK
    <3>4. request.kind # "current"
      BY <3>1
    <3> QED
      BY <2>5, <3>1, <3>2, <3>3, <3>4
  <2>6. CASE WriteRecord \/ MarkDone \/ Retain \/ Cleanup \/ EndCommand
    BY <2>6 DEF WriteRecord, MarkDone, Retain, Cleanup, EndCommand
  <2>7. CASE CheckFails \/ WriteFails \/ \E t \in Target : MoveFails(t)
    BY <2>7 DEF CheckFails, WriteFails, MoveFails
  <2>8. CASE \E kind \in {"link", "current", "copy"}, T \in SUBSET Target, c \in Links \cup Trees : BeginFails(kind, T, c)
    BY <2>8 DEF BeginFails
  <2> QED
    BY <1>2, <2>1, <2>2, <2>3, <2>4, <2>5, <2>6, <2>7, <2>8 DEF Publish
<1>3. CASE Restore
  <2>1. pc' \in RestorePlace \cup {"cleanup"} /\ (pc' = "cleanup" => UNCHANGED <<request, touched, dest>> /\ pc \in RestorePlace)
    BY <1>3 DEF Restore, CheckRestore, CheckRestoreFails, RestoreSkip, RestoreRemove, RestoreRemoved, RestorePutBack,
                RestoreBare, RestoreBlocked, RestoreRecord, RestoreMark, RestoreFails, StartRemoval, Emptied
  <2> QED
    BY <2>1
<1>4. CASE Calls
  BY <1>4, CallPlaces
<1>5. CASE Crash \/ Interrupt
  BY <1>5 DEF Crash, Interrupt
<1>6. ASSUME NEW t \in Target, Edit(t) PROVE PlacedInv'
  <2>1. /\ UNCHANGED <<stage, pc, tx, request, todo>> /\ touched' = touched \cup {t}
        /\ \A u \in Target : u # t => dest'[u] = dest[u]
        /\ request.targets \subseteq Target
    BY <1>6 DEF Edit, TypeInv, TypeOK, Requests
  <2> QED
    BY <2>1
<1> QED
  BY <1>1, <1>2, <1>3, <1>4, <1>5, <1>6 DEF Step, Environment


LEMMA RecordStep ==
  ASSUME TypeInv, RecordInv, Step
  PROVE  RecordInv'
<1> USE DEF RecordInv, Recorded, Goto, Fails, PublishPlace, RestorePlace, RecoverPlace, disk, memory, history
<1>1. CASE StartCommand \/ Recover
  BY <1>1 DEF StartCommand, Recover, RecoverCheck, RecoverRefused, UndoRemove, UndoRemoved, UndoPutBack, UndoFails,
              StartRemoval, UndoRecord, UndoMark, UndoStages, RecoveryDone
<1>2. CASE Publish
  <2>1. ASSUME NEW kind \in {"link", "current", "copy"}, NEW T \in SUBSET Target, NEW c \in Links \cup Trees,
               Begin(kind, T, c)
        PROVE  RecordInv'
    <3>1. tx' \in Tx /\ tx' = tx + 1 /\ pc' = "stage" /\ record' = record
      BY <2>1, PublishAssumption DEF Begin, Tx, TypeInv, TypeOK
    <3>2. journal'[tx'].record = record
      BY <2>1, <3>1 DEF Begin, NoJournal, TypeInv, TypeOK
    <3> QED
      BY <3>1, <3>2
  <2>2. CASE SaveStaged
    <3>1. /\ pc = "stage" /\ pc' = "before-publish" /\ UNCHANGED <<request, tx, record>>
          /\ journal'[tx].record = journal[tx].record
      BY <2>2 DEF SaveStaged, TypeInv, TypeOK, Journals
    <3> QED
      BY <3>1
  <2>3. CASE WriteRecord
    BY <2>3 DEF WriteRecord
  <2>4. CASE \E t \in Target : StageOne(t) \/ StageFails(t) \/ MoveAside(t) \/ MoveIn(t) \/ MoveFails(t)
    BY <2>4 DEF StageOne, StageFails, MoveAside, MoveIn, MoveFails
  <2>5. CASE Check \/ CheckFails \/ MarkDone \/ WriteFails \/ Retain \/ Cleanup \/ EndCommand
    BY <2>5 DEF Check, CheckFails, MarkDone, WriteFails, Retain, Cleanup, EndCommand
  <2>6. CASE \E kind \in {"link", "current", "copy"}, T \in SUBSET Target, c \in Links \cup Trees : BeginFails(kind, T, c)
    BY <2>6 DEF BeginFails
  <2> QED
    BY <1>2, <2>1, <2>2, <2>3, <2>4, <2>5, <2>6 DEF Publish
<1>3. CASE Restore
  BY <1>3 DEF Restore, CheckRestore, CheckRestoreFails, RestoreSkip, RestoreRemove, RestoreRemoved, RestorePutBack,
              RestoreBare, RestoreBlocked, RestoreRecord, RestoreMark, RestoreFails, StartRemoval, Emptied
<1>4. CASE Calls
  BY <1>4, CallPlaces
<1>5. CASE Environment
  BY <1>5 DEF Environment, Crash, Interrupt, Edit
<1> QED
  BY <1>1, <1>2, <1>3, <1>4, <1>5 DEF Step

LEMMA OneLast ==
  ASSUME TypeInv, NEW t \in Target, Last(t), NEW u \in Target, Last(u)
  PROVE  u = t
<1>1. u <= t /\ t <= u /\ u \in Int /\ t \in Int
  BY DEF Last, Target
<1> QED
  BY <1>1

LEMMA UnstagedStep ==
  ASSUME TypeInv, OriginalsInv, RequestInv, UnstagedInv, Step
  PROVE  UnstagedInv'
<1> USE DEF UnstagedInv, Marked, Goto, Fails, PublishPlace, RestorePlace, RecoverPlace, disk, memory, history
<1>1. CASE StartCommand \/ Recover
  BY <1>1, RecoverPlaces
<1>2. CASE Publish
  <2>1. ASSUME NEW kind \in {"link", "current", "copy"}, NEW T \in SUBSET Target, NEW c \in Links \cup Trees,
               Begin(kind, T, c)
        PROVE  UnstagedInv'
    <3>1. /\ tx' \in Tx /\ tx' > tx /\ item' = item /\ kept' = kept /\ pc' = "stage"
          /\ \A t \in Target : ~item[t].on
      BY <2>1, PublishAssumption DEF Begin, Tx, TypeInv, TypeOK, OriginalsInv, IdleInv
    <3>2. kept[tx'] = NoSlots
      BY <3>1 DEF OriginalsInv, NumbersInv
    <3> QED
      BY <3>1, <3>2 DEF NoSlots
  <2>2. ASSUME NEW t \in Target, StageOne(t) \/ StageFails(t) PROVE UnstagedInv'
    <3>1. /\ pc = "stage" /\ pc' \in {"stage", "before-restore"} /\ UNCHANGED <<dest, kept, journal, tx, touched>>
          /\ \A u \in Target : u # t => item'[u] = item[u]
      BY <2>2 DEF StageOne, StageFails, TypeInv, TypeOK
    <3>2. item'[t].before = dest[t]
      <4>1. CASE StageOne(t)
        BY <4>1 DEF StageOne, TypeInv, TypeOK
      <4>2. CASE StageFails(t)
        <5>1. [NoItem EXCEPT !.on = TRUE, !.before = dest[t]].before = dest[t]
          BY DEF NoItem
        <5> QED
          BY <4>2, <5>1 DEF StageFails, TypeInv, TypeOK
      <4> QED
        BY <2>2, <4>1, <4>2
    <3> QED
      BY <3>1, <3>2
  <2>3. CASE SaveStaged
    BY <2>3 DEF SaveStaged, TypeInv, TypeOK, Journals
  <2>4. ASSUME pc \in {"before-publish", "check", "move", "move-in", "after-publish", "finish"}, UNCHANGED <<journal, tx>>
        PROVE  UnstagedInv'
    BY <2>4 DEF RequestInv
  <2>5. CASE \E t \in Target : MoveAside(t) \/ MoveIn(t) \/ MoveFails(t)
    BY <2>4, <2>5 DEF MoveAside, MoveIn, MoveFails
  <2>6. CASE Check \/ CheckFails \/ WriteRecord
    BY <2>4, <2>6 DEF Check, CheckFails, WriteRecord
  <2>7. CASE WriteFails
    BY <2>7 DEF WriteFails
  <2>8. CASE MarkDone \/ Retain
    <3>1. /\ pc' \in {"retain", "cleanup"} /\ UNCHANGED <<dest, tx, item, touched>> /\ tx \in Tx
          /\ Marked(tx)' => Marked(tx) /\ journal'[tx] = journal[tx] /\ kept'[tx] = kept[tx]
      BY <2>8 DEF MarkDone, Retain, NoJournal, TypeInv, TypeOK, Journals
    <3> QED
      BY <2>8, <3>1 DEF MarkDone, Retain
  <2>9. CASE Cleanup \/ EndCommand
    BY <2>9 DEF Cleanup, EndCommand
  <2>10. CASE \E kind \in {"link", "current", "copy"}, T \in SUBSET Target, c \in Links \cup Trees : BeginFails(kind, T, c)
    BY <2>10 DEF BeginFails
  <2> QED
    BY <1>2, <2>1, <2>2, <2>3, <2>5, <2>6, <2>7, <2>8, <2>9, <2>10 DEF Publish
<1>3. CASE Restore
  <2> SUFFICES ASSUME Marked(tx), ~journal[tx].staged, UNCHANGED <<journal, tx, item>>
               PROVE  UnstagedInv'
    BY <1>3 DEF Restore, CheckRestore, CheckRestoreFails, RestoreSkip, RestoreRemove, RestoreRemoved, RestorePutBack,
                RestoreBare, RestoreBlocked, RestoreRecord, RestoreMark, RestoreFails, StartRemoval, TypeInv, TypeOK, Journals
  <2>1. ASSUME NEW t \in Target, RestoreRemove(t) \/ RestoreRemoved(t) PROVE UnstagedInv'
    <3>1. /\ pc \in {"restore", "restore-rm"} /\ pc' \in {"restore-rm", "restore-put"} /\ Last(t) /\ todo \subseteq Target
          /\ UNCHANGED <<kept, todo, touched>> /\ \A u \in Target : u # t => dest'[u] = dest[u]
      BY <2>1 DEF RestoreRemove, RestoreRemoved, StartRemoval, TypeInv, TypeOK
    <3>2. t \in touched
      <4>1. CASE RestoreRemove(t)
        BY <3>1, <4>1 DEF RestoreRemove, RequestInv, Staged, Last
      <4>2. CASE RestoreRemoved(t)
        BY <3>1, <4>2 DEF RestoreRemoved, Last
      <4> QED
        BY <2>1, <4>1, <4>2
    <3>3. \A u \in todo' : Last(u)' => u = t
      BY <3>1, OneLast DEF Last
    <3> QED
      BY <3>1, <3>2, <3>3
  <2>2. ASSUME NEW t \in Target, RestorePutBack(t) PROVE FALSE
    BY <2>2 DEF RestorePutBack, Emptied
  <2>3. ASSUME NEW t \in Target, RestoreSkip(t) \/ RestoreBare(t) \/ RestoreBlocked(t) PROVE UnstagedInv'
    BY <2>3 DEF RestoreSkip, RestoreBare, RestoreBlocked, Emptied
  <2>4. CASE CheckRestore \/ CheckRestoreFails \/ RestoreRecord \/ RestoreMark \/ RestoreFails
    BY <2>4 DEF CheckRestore, CheckRestoreFails, RestoreRecord, RestoreMark, RestoreFails
  <2> QED
    BY <1>3, <2>1, <2>2, <2>3, <2>4 DEF Restore
<1>4. CASE Calls
  BY <1>4, CallPlaces
<1>5. CASE Crash \/ Interrupt
  BY <1>5 DEF Crash, Interrupt
<1>6. ASSUME NEW t \in Target, Edit(t) PROVE UnstagedInv'
  <2>1. /\ UNCHANGED <<kept, journal, pc, tx, item, todo>> /\ touched' = touched \cup {t}
        /\ \A u \in Target : u # t => dest'[u] = dest[u]
        /\ \A u \in todo : Last(u)' => Last(u)
    BY <1>6 DEF Edit, Last, TypeInv, TypeOK
  <2> QED
    BY <2>1
<1> QED
  BY <1>1, <1>2, <1>3, <1>4, <1>5, <1>6 DEF Step, Environment


(* A restore or a recovery puts back what it takes off its list. *)
LEMMA BackStep ==
  ASSUME TypeInv, OriginalsInv, PhaseInv, UnstagedInv, BackInv, Step
  PROVE  BackInv'
<1> USE DEF BackInv, Back, Marked, Goto, Fails, PublishPlace, RestorePlace, RecoverPlace, disk, memory, history
<1>1. CASE StartCommand \/ Recover
  <2>1. ASSUME NEW k \in Tx, RecoverCheck(k) PROVE BackInv'
    <3>1. /\ pc' = "undo" /\ rec' = k /\ UNCHANGED <<dest, journal, touched, overlaid>> /\ journal[k].targets \subseteq Target
          /\ todo' = {t \in journal[k].targets : RecoveryAction(k, t) # "none"}
      BY <2>1, JournalTargets DEF RecoverCheck
    <3>2. ASSUME journal[k].staged, NEW t \in journal[k].targets, RecoveryAction(k, t) = "none"
          PROVE  ContentOf(dest[t]) = journal[k].before[t]
      BY <3>2 DEF RecoveryAction
    <3>3. ~journal[k].staged => todo' = {}
      BY <3>1 DEF RecoveryAction
    <3> QED
      BY <3>1, <3>2, <3>3
  <2>2. ASSUME NEW t \in Target, UndoRemove(t) \/ UndoRemoved(t) PROVE BackInv'
    <3>1. /\ pc \in {"undo", "undo-rm"} /\ pc' \in {"undo", "undo-rm"} /\ t \in todo /\ Last(t) /\ todo \subseteq Target
          /\ UNCHANGED <<journal, rec, touched, overlaid>>
          /\ \A u \in Target : u # t => dest'[u] = dest[u]
          /\ rec \in Tx /\ journal[rec].targets \subseteq Target
      BY <2>2, JournalTargets DEF UndoRemove, UndoRemoved, StartRemoval, Last, TypeInv, TypeOK, UndoPlace
    <3>2. todo' = todo \/ (todo' = todo \ {t} /\ plan[t] # "replace" /\ dest'[t] = None)
      BY <2>2, <3>1 DEF UndoRemove, UndoRemoved, StartRemoval, Removed, TypeInv, TypeOK
    <3>3. plan[t] \in {"replace", "remove"}
      BY <2>2, <3>1 DEF UndoRemove, UndoRemoved, Last
    <3>4. journal[rec].staged /\ todo' = todo \ {t} => ContentOf(dest'[t]) = journal[rec].before[t]
      BY <3>1, <3>2, <3>3 DEF OriginalsInv, PlanInv, ContentOf
    <3>5. pc' = "undo-rm" => todo' = todo /\ \A u \in todo' : Last(u)' => u = t /\ plan'[u] = plan[u]
      <4> SUFFICES ASSUME pc' = "undo-rm" PROVE todo' = todo /\ plan' = plan /\ \A u \in todo : Last(u) => u = t
        BY DEF Last
      <4> QED
        BY <2>2, <3>1, OneLast DEF UndoRemove, UndoRemoved, StartRemoval
    <3>6. BackInv!1' /\ BackInv!2' /\ BackInv!3'
      BY <3>1, <3>2, <3>4
    <3> QED
      BY <3>1, <3>2, <3>3, <3>5, <3>6
  <2>3. ASSUME NEW t \in Target, UndoPutBack(t) PROVE BackInv'
    <3>1. /\ pc = "undo" /\ pc' = "undo" /\ t \in todo /\ todo' = todo \ {t} /\ rec \in Tx
          /\ UNCHANGED <<journal, rec, touched, overlaid>>
          /\ \A u \in Target : u # t => dest'[u] = dest[u]
          /\ dest'[t] = kept[rec][t] /\ Marked(rec) /\ kept[rec][t] # None
          /\ journal[rec].targets \subseteq Target
      BY <2>3, JournalTargets DEF UndoPutBack, Last, TypeInv, TypeOK, UndoPlace, OriginalsInv, PlanInv
    <3>2. ~overlaid /\ journal[rec].staged /\ t \in journal[rec].targets \ touched
            => ContentOf(kept[rec][t]) = journal[rec].before[t]
      BY <3>1 DEF OriginalsInv, DiskInv, Safe
    <3> QED
      BY <3>1, <3>2
  <2>4. CASE UndoRecord
    BY <2>4 DEF UndoRecord, OriginalsInv, PlanInv
  <2>5. CASE StartCommand \/ UndoMark \/ UndoStages \/ RecoveryDone
    BY <2>5 DEF StartCommand, UndoMark, UndoStages, RecoveryDone
  <2>6. CASE (\E k \in Tx : RecoverRefused(k)) \/ (\E t \in Target : UndoFails(t))
    BY <2>6 DEF RecoverRefused, UndoFails
  <2> QED
    BY <1>1, <2>1, <2>2, <2>3, <2>4, <2>5, <2>6 DEF Recover
<1>2. CASE Publish
  BY <1>2 DEF Publish, Begin, BeginFails, StageOne, StageFails, SaveStaged, Check, CheckFails, MoveAside, MoveIn, MoveFails,
              WriteRecord, MarkDone, WriteFails, Retain, Cleanup, EndCommand
<1>3. CASE Restore
  <2>1. pc \in RestorePlace /\ tx' = tx /\ tx \in Tx /\ journal[tx].targets \subseteq Target
    BY <1>3, JournalTargets DEF Restore, CheckRestore, CheckRestoreFails, RestoreSkip, RestoreRemove, RestoreRemoved,
         RestorePutBack, RestoreBare, RestoreBlocked, RestoreRecord, RestoreMark, RestoreFails, Emptied, TypeInv
  <2>2. CASE CheckRestore
    <3>1. journal[tx].staged => journal[tx].targets \subseteq Staged
      BY <2>1, <2>2 DEF CheckRestore, PhaseInv, OriginalsInv, MemoryInv, Staged
    <3> QED
      BY <2>2, <3>1 DEF CheckRestore
  <2>3. ASSUME NEW t \in Target, RestoreRemove(t) \/ RestoreRemoved(t) PROVE BackInv'
    <3>1. /\ pc \in {"restore", "restore-rm"} /\ pc' \in {"restore-rm", "restore-put"} /\ t \in todo
          /\ UNCHANGED <<journal, todo, touched, overlaid>> /\ \A u \in Target : u # t => dest'[u] = dest[u]
      BY <2>3 DEF RestoreRemove, RestoreRemoved, StartRemoval, Last, TypeInv, TypeOK
    <3> QED
      BY <2>1, <3>1
  <2>4. ASSUME NEW t \in Target, RestoreSkip(t) \/ RestoreBare(t) \/ RestorePutBack(t) PROVE BackInv'
    <3>1. /\ pc \in {"restore", "restore-put"} /\ pc' \in {"restore", "cleanup"}
          /\ UNCHANGED <<journal, item, touched, overlaid>> /\ \A u \in Target : u # t => dest'[u] = dest[u]
          /\ pc' = "restore" => todo' = todo \ {t}
      BY <2>4 DEF RestoreSkip, RestoreBare, RestorePutBack, Emptied, TypeInv, TypeOK
    <3>2. pc' = "restore" => \/ dest'[t] = item[t].before
                             \/ dest'[t] = kept[tx][t] /\ kept[tx][t] # None
      BY <2>4, <3>1 DEF RestoreSkip, RestoreBare, RestorePutBack, TypeInv, TypeOK
    <3>3. Marked(tx)
      BY <2>1, <3>1 DEF PhaseInv
    <3>4. ~overlaid /\ journal[tx].staged /\ t \in journal[tx].targets \ touched
            => /\ journal[tx].before[t] = ContentOf(item[t].before)
               /\ kept[tx][t] # None => ContentOf(kept[tx][t]) = journal[tx].before[t]
      BY <2>1, <3>1, <3>3 DEF OriginalsInv, MemoryInv, DiskInv, Safe
    <3> QED
      BY <2>1, <3>1, <3>2, <3>4
  <2>5. CASE RestoreRecord
    BY <2>1, <2>5 DEF RestoreRecord
  <2>6. CASE CheckRestoreFails \/ RestoreMark \/ RestoreFails \/ \E t \in Target : RestoreBlocked(t)
    BY <2>6 DEF CheckRestoreFails, RestoreMark, RestoreFails, RestoreBlocked
  <2> QED
    BY <1>3, <2>2, <2>3, <2>4, <2>5, <2>6 DEF Restore
<1>4. CASE Calls
  BY <1>4, CallPlaces
<1>5. CASE Crash \/ Interrupt
  BY <1>5 DEF Crash, Interrupt
<1>6. ASSUME NEW t \in Target, Edit(t) PROVE BackInv'
  <2>1. /\ UNCHANGED <<journal, pc, tx, rec, item, todo, overlaid>> /\ touched' = touched \cup {t}
        /\ \A u \in Target : u # t => dest'[u] = dest[u]
        /\ plan' = plan /\ \A u \in todo : Last(u)' => Last(u)
    BY <1>6 DEF Edit, TypeInv, TypeOK, Last
  <2>2. /\ pc \in PublishPlace => journal[tx].targets \subseteq Target
        /\ pc \in UndoPlace => journal[rec].targets \subseteq Target
    BY JournalTargets DEF TypeInv
  <2> QED
    BY <2>1, <2>2 DEF UndoPlace
<1> QED
  BY <1>1, <1>2, <1>3, <1>4, <1>5, <1>6 DEF Step, Environment

LEMMA AtomicInvariant == Steps => []AtomicInv
<1>1. TypeInv /\ OriginalsInv /\ AtomicInv /\ [Step]_vars => AtomicInv'
  <2> SUFFICES ASSUME TypeInv, OriginalsInv, AtomicInv, [Step]_vars PROVE AtomicInv'
    OBVIOUS
  <2> USE DEF AtomicInv
  <2>1. CASE Step
    BY <2>1, PhaseStep, RequestStep, PlacedStep, RecordStep, UnstagedStep, BackStep
  <2>2. CASE UNCHANGED vars
    BY <2>2 DEF vars, PhaseInv, RequestInv, PlacedInv, Holds, RecordInv, Recorded, UnstagedInv, BackInv, Back,
                Replaced, Staged, Marked, Last
  <2> QED
    BY <2>1, <2>2
<1> QED
  BY <1>1, InitAtomic, TypeInvariant, OriginalsInvariant, PTL DEF Steps


(* The installation as the next command restores it, when at most the last *)
(* publish is unfinished.                                                  *)
Open == tx \in Tx /\ Marked(tx)

FileOf(t) ==
  IF t \in touched THEN "foreign"
  ELSE IF Open /\ journal[tx].staged /\ t \in journal[tx].targets THEN journal[tx].before[t]
  ELSE ContentOf(dest[t])

Mapping ==
  /\ Unfinished # {} <=> Open
  /\ FilesAfterRecovery = [t \in Target |-> FileOf(t)]
  /\ RecordAfterRecovery = IF Open THEN journal[tx].record ELSE record

LEMMA Maps == TypeInv /\ OriginalsInv /\ ~overlaid => Mapping
<1> SUFFICES ASSUME TypeInv, OriginalsInv, ~overlaid PROVE Mapping
  OBVIOUS
<1>1. \A k \in Unfinished : k = tx
  BY DEF OriginalsInv, LastInv, Unfinished, Marked
<1>2. CASE Open
  <2>1. Unfinished = {tx}
    BY <1>1, <1>2 DEF Unfinished, Open, Marked
  <2>2. (CHOOSE k \in Unfinished : \A m \in Unfinished : k <= m) = tx
    <3>1. tx <= tx
      BY <1>2 DEF Open, Tx
    <3> QED
      BY <2>1, <3>1
  <2>3. RecordAfterRecovery = journal[tx].record
    BY <2>1, <2>2 DEF RecordAfterRecovery
  <2>4. ASSUME NEW t \in Target
        PROVE  (IF t \in touched THEN "foreign"
                ELSE IF \E k \in Unfinished : journal[k].staged /\ t \in journal[k].targets
                THEN journal[CHOOSE k \in Unfinished : \A m \in Unfinished : k <= m].before[t]
                ELSE ContentOf(dest[t])) = FileOf(t)
    <3>1. (\E k \in Unfinished : journal[k].staged /\ t \in journal[k].targets)
            <=> (journal[tx].staged /\ t \in journal[tx].targets)
      BY <2>1
    <3>2. journal[CHOOSE k \in Unfinished : \A m \in Unfinished : k <= m].before[t] = journal[tx].before[t]
      BY <2>2
    <3>3. CASE t \notin touched /\ journal[tx].staged /\ t \in journal[tx].targets
      BY <1>2, <3>1, <3>2, <3>3 DEF FileOf
    <3> QED
      BY <3>1, <3>3 DEF FileOf
  <2>5. FilesAfterRecovery = [t \in Target |-> FileOf(t)]
    BY <2>4 DEF FilesAfterRecovery
  <2> QED
    BY <1>2, <2>1, <2>3, <2>5 DEF Mapping
<1>3. CASE ~Open
  <2>1. Unfinished = {}
    BY <1>1, <1>3 DEF Unfinished, Open, Marked
  <2> QED
    BY <1>3, <2>1 DEF Mapping, FilesAfterRecovery, RecordAfterRecovery, FileOf
<1> QED
  BY <1>2, <1>3

(* What the refinement needs of a state. *)
Good == TypeInv /\ OriginalsInv /\ AtomicInv /\ ~overlaid /\ Mapping

(* A step that changes no location of the mapping, no record and opens or  *)
(* ends no publish.                                                        *)
AbsStutter == UNCHANGED <<FilesAfterRecovery, RecordAfterRecovery, Unfinished # {}>>

LEMMA Stutters ==
  ASSUME Good, Good', Open' <=> Open, UNCHANGED touched,
         Open => tx' = tx /\ journal'[tx].record = journal[tx].record,
         ~Open => record' = record,
         \A t \in Target \ touched : FileOf(t)' = FileOf(t)
  PROVE  AbsStutter
<1>1. \A t \in Target : FileOf(t)' = FileOf(t)
  BY DEF FileOf
<1>2. FilesAfterRecovery' = FilesAfterRecovery
  BY <1>1 DEF Good, Mapping
<1>3. RecordAfterRecovery' = RecordAfterRecovery /\ (Unfinished # {})' = (Unfinished # {})
  BY DEF Good, Mapping
<1> QED
  BY <1>2, <1>3 DEF AbsStutter

LEMMA DiskSame ==
  ASSUME Good, Good', UNCHANGED <<dest, journal, record, tx, touched>>
  PROVE  AbsStutter
BY Stutters DEF Open, FileOf, Marked

(* A location of the open publish may change: its original counts. *)
LEMMA CoveredChanges ==
  ASSUME Good, Good', UNCHANGED <<journal, record, tx, touched>>, NEW t \in Target,
         \A u \in Target : u # t => dest'[u] = dest[u],
         t \in touched \/ (Open /\ journal[tx].staged /\ t \in journal[tx].targets)
  PROVE  AbsStutter
BY Stutters DEF Open, FileOf, Marked

(* While a publish is open its saved record counts. *)
LEMMA RecordChanges ==
  ASSUME Good, Good', UNCHANGED <<dest, journal, tx, touched>>, Open
  PROVE  AbsStutter
BY Stutters DEF Open, FileOf, Marked

(* Everything is back: the publish never was. *)
LEMMA Aborts ==
  ASSUME Good, Good', UNCHANGED <<dest, record, tx, touched>>, Open,
         journal' = [journal EXCEPT ![tx].phase = "restored"],
         record = journal[tx].record, Back(tx), todo = {}
  PROVE  Installation!Abort
<1>1. ~Open'
  BY DEF Open, Marked, Good, TypeInv, TypeOK, Journals
<1>2. \A t \in Target : FileOf(t)' = FileOf(t)
  BY <1>1 DEF FileOf, Back
<1> QED
  BY <1>1, <1>2 DEF Good, Mapping, Installation!Abort

LEMMA RecoverRefines ==
  ASSUME Good, Good', StartCommand \/ Recover
  PROVE  AbsStutter \/ Installation!Abort
<1> USE DEF Goto, disk, memory, history
<1>1. pc \in UndoPlace => rec \in Tx
  BY DEF Good, TypeInv
<1>2. (pc \in {"undo", "undo-rm"} \/ pc = "undo-mark") => rec = tx /\ Open
  BY <1>1 DEF Good, OriginalsInv, PlanInv, LastInv, AtomicInv, BackInv, Open, UndoPlace, RecoverPlace
<1>3. ASSUME NEW t \in Target, UndoRemove(t) \/ UndoRemoved(t) \/ UndoPutBack(t) PROVE AbsStutter
  <2>1. /\ pc \in {"undo", "undo-rm"} /\ t \in todo /\ UNCHANGED <<journal, record, tx, touched>>
        /\ \A u \in Target : u # t => dest'[u] = dest[u]
    BY <1>3 DEF UndoRemove, UndoRemoved, UndoPutBack, StartRemoval, Last, Good, TypeInv, TypeOK
  <2>2. Open /\ journal[tx].staged /\ t \in journal[tx].targets
    BY <1>2, <2>1 DEF Good, AtomicInv, BackInv
  <2> QED
    BY <2>1, <2>2, CoveredChanges
<1>4. CASE UndoRecord
  BY <1>2, <1>4, RecordChanges DEF UndoRecord
<1>5. CASE UndoMark
  BY <1>2, <1>5, Aborts DEF UndoMark, Good, AtomicInv, BackInv, RecordInv
<1>6. CASE \/ StartCommand \/ UndoStages \/ RecoveryDone
           \/ (\E k \in Tx : RecoverCheck(k) \/ RecoverRefused(k)) \/ (\E t \in Target : UndoFails(t))
  BY <1>6, DiskSame DEF StartCommand, UndoStages, RecoveryDone, RecoverCheck, RecoverRefused, UndoFails
<1> QED
  BY <1>3, <1>4, <1>5, <1>6 DEF Recover

LEMMA RestoreRefines ==
  ASSUME Good, Good', Restore
  PROVE  AbsStutter \/ Installation!Abort
<1> USE DEF Goto, disk, memory, history
<1>1. pc \in RestorePlace => tx \in Tx /\ (pc # "after-restore" => Open)
  BY DEF Good, TypeInv, AtomicInv, PhaseInv, Open, PublishPlace, RestorePlace
<1>2. ASSUME NEW t \in Target, RestoreRemove(t) \/ RestoreRemoved(t) \/ RestorePutBack(t) PROVE AbsStutter
  <2>1. /\ pc \in {"restore", "restore-rm", "restore-put"} /\ Last(t) /\ t \in todo
        /\ UNCHANGED <<journal, record, tx, touched>>
        /\ \A u \in Target : u # t => dest'[u] = dest[u]
    BY <1>2 DEF RestoreRemove, RestoreRemoved, RestorePutBack, Emptied, StartRemoval, Last, Good, TypeInv, TypeOK
  <2>2. Open
    BY <1>1, <2>1 DEF RestorePlace
  <2>3. item[t].on /\ t \in journal[tx].targets
    BY <2>1, <2>2 DEF Good, AtomicInv, RequestInv, Staged, Open, PublishPlace, RestorePlace
  <2>4. ~journal[tx].staged => t \in touched
    BY <1>2, <2>1, <2>2, <2>3
       DEF Good, AtomicInv, UnstagedInv, Open, RestoreRemove, RestoreRemoved, RestorePutBack, PublishPlace, RestorePlace
  <2> QED
    BY <2>1, <2>2, <2>3, <2>4, CoveredChanges
<1>3. CASE RestoreRecord
  BY <1>1, <1>3, RecordChanges DEF RestoreRecord, RestorePlace
<1>4. CASE RestoreMark
  BY <1>1, <1>4, Aborts DEF RestoreMark, RestorePlace, Good, AtomicInv, BackInv, RecordInv
<1>5. CASE \/ CheckRestore \/ CheckRestoreFails \/ RestoreFails
           \/ \E t \in Target : RestoreSkip(t) \/ RestoreBare(t) \/ RestoreBlocked(t)
  BY <1>5, DiskSame DEF CheckRestore, CheckRestoreFails, RestoreFails, RestoreSkip, RestoreBare, RestoreBlocked
<1> QED
  BY <1>2, <1>3, <1>4, <1>5 DEF Restore

(* A publish that is done replaced all its targets and their entries. *)
LEMMA Commits ==
  ASSUME Good, Good', MarkDone
  PROVE  \E T \in SUBSET Target, c \in Seen : Installation!Commit(T, c)
<1> DEFINE T == request.targets
           c == request.content
<1>1. /\ pc = "finish" /\ tx \in Tx /\ Open /\ journal[tx].staged /\ journal[tx].targets = Replaced
      /\ T \in SUBSET Target /\ c \in Seen
      /\ UNCHANGED <<dest, record, tx, touched>>
  BY DEF MarkDone, Good, TypeInv, TypeOK, Requests, AtomicInv, PhaseInv, RequestInv, Open, PublishPlace, RestorePlace,
         Seen, memory, history
<1>2. ~Open'
  BY <1>1 DEF MarkDone, Open, Marked, Good, TypeInv, TypeOK, Journals
<1>3. \A t \in T \ touched : ContentOf(dest[t]) = c
  BY <1>1 DEF Good, AtomicInv, PlacedInv, Holds, Replaced
<1>4. \A t \in Target \ touched : FileOf(t) # "foreign"
  <2>1. \A t \in Target : journal[tx].before[t] \in Seen /\ ContentOf(dest[t]) \in Seen
    BY <1>1, ContentType DEF Good, TypeInv, TypeOK, Journals
  <2> QED
    BY <2>1, PublishAssumption DEF FileOf
<1>5. \A t \in Target : FileOf(t)' = IF t \in T /\ FileOf(t) # "foreign" THEN c ELSE FileOf(t)
  <2> SUFFICES ASSUME NEW t \in Target, t \notin touched
               PROVE  FileOf(t)' = IF t \in T THEN c ELSE FileOf(t)
    BY <1>1, <1>4 DEF FileOf
  <2>1. FileOf(t)' = ContentOf(dest[t])
    BY <1>1, <1>2 DEF FileOf
  <2>2. t \notin T => FileOf(t) = ContentOf(dest[t])
    BY <1>1 DEF FileOf, Replaced
  <2> QED
    BY <1>3, <2>1, <2>2
<1>6. record = Recorded(journal[tx].record)
  BY <1>1 DEF Good, AtomicInv, RecordInv
<1>7. Installation!Commit(T, c)
  BY <1>1, <1>2, <1>5, <1>6 DEF Good, Mapping, Installation!Commit, Recorded
<1> QED
  BY <1>1, <1>7

LEMMA PublishRefines ==
  ASSUME Good, Good', Publish
  PROVE  AbsStutter \/ Installation!AbsNext
<1> USE DEF Goto, Fails, disk, memory, history
<1>1. ASSUME NEW kind \in {"link", "current", "copy"}, NEW T \in SUBSET Target, NEW c \in Links \cup Trees,
             Begin(kind, T, c)
      PROVE  Installation!AbsBegin
  <2>0. Unfinished = {}
    <3>1. overlaid' = (overlaid \/ Unfinished # {})
      BY <1>1 DEF Begin
    <3>2. ~overlaid'
      BY DEF Good
    <3> QED
      BY <3>1, <3>2
  <2>1. /\ tx' \in Tx /\ tx' = tx + 1 /\ UNCHANGED <<dest, record>> /\ touched' = {}
        /\ Unfinished = {}
    BY <1>1, <2>0, PublishAssumption DEF Begin, Tx, Good, TypeInv, TypeOK
  <2>2. Marked(tx)' /\ ~journal'[tx'].staged /\ journal'[tx'].record = record
    BY <1>1, <2>1 DEF Begin, NoJournal, Marked, Good, TypeInv, TypeOK
  <2>3. Open' /\ ~Open
    BY <2>1, <2>2 DEF Open, Good, Mapping
  <2>4. \A t \in Target : FileOf(t)' = IF FileOf(t) = "foreign" THEN ContentOf(dest[t]) ELSE FileOf(t)
    BY <2>1, <2>2, <2>3 DEF FileOf
  <2>5. [t \in Target |-> ContentOf(dest[t])] \in [Target -> Seen]
    BY ContentType DEF Good, TypeInv, TypeOK
  <2>6. Installation!TakeIn
    BY <2>1, <2>2, <2>3, <2>4, <2>5 DEF Good, Mapping, Installation!TakeIn
  <2> QED
    BY <2>3, <2>6 DEF Good, Mapping, Installation!AbsBegin
<1>2. CASE SaveStaged
  <2>1. /\ pc = "stage" /\ tx \in Tx /\ Open /\ UNCHANGED <<dest, record, tx, touched>>
        /\ ~journal[tx].staged /\ journal[tx].targets = Replaced
    BY <1>2 DEF SaveStaged, Good, TypeInv, AtomicInv, PhaseInv, OriginalsInv, StageInv, Open, PublishPlace, RestorePlace
  <2>2. /\ journal'[tx].phase = journal[tx].phase /\ journal'[tx].targets = journal[tx].targets
        /\ journal'[tx].record = journal[tx].record
        /\ \A t \in Replaced : t \in Target => journal'[tx].before[t] = ContentOf(dest[t])
    <3>1. tx \in Tx /\ journal \in [Tx -> Journals]
      BY <2>1 DEF Good, TypeInv, TypeOK
    <3> QED
      BY <1>2, <3>1 DEF SaveStaged, Journals
  <2>3. Open'
    BY <2>1, <2>2 DEF Open, Marked
  <2>4. \A t \in Target \ touched : FileOf(t)' = FileOf(t)
    BY <2>1, <2>2, <2>3 DEF FileOf
  <2> QED
    BY <2>1, <2>2, <2>3, <2>4, Stutters
<1>3. ASSUME NEW t \in Target, MoveAside(t) \/ MoveIn(t) PROVE AbsStutter
  <2>1. /\ pc \in {"move", "move-in"} /\ t \in todo /\ UNCHANGED <<journal, record, tx, touched>>
        /\ \A u \in Target : u # t => dest'[u] = dest[u]
    BY <1>3 DEF MoveAside, MoveIn, First, Good, TypeInv, TypeOK
  <2>2. Open /\ journal[tx].staged /\ t \in journal[tx].targets
    BY <2>1 DEF Good, TypeInv, AtomicInv, PhaseInv, RequestInv, Open, PublishPlace, RestorePlace
  <2> QED
    BY <2>1, <2>2, CoveredChanges
<1>4. CASE WriteRecord
  <2>1. Open
    BY <1>4 DEF WriteRecord, Good, TypeInv, AtomicInv, PhaseInv, Open, PublishPlace, RestorePlace
  <2> QED
    BY <1>4, <2>1, RecordChanges DEF WriteRecord
<1>5. CASE MarkDone
  BY <1>5, Commits DEF Installation!AbsNext
<1>6. CASE Retain
  <2>1. /\ UNCHANGED <<dest, record, tx, touched>> /\ tx \in Tx
        /\ journal'[tx] = journal[tx] \/ (~Marked(tx) /\ ~Marked(tx)')
    BY <1>6 DEF Retain, Expired, Finished, NoJournal, Marked, Good, TypeInv, PublishPlace
  <2>2. (Open' <=> Open) /\ (Open => journal'[tx] = journal[tx])
    BY <2>1 DEF Open, Marked
  <2> QED
    BY <2>1, <2>2, Stutters DEF FileOf
<1>7. CASE \/ Check \/ CheckFails \/ WriteFails \/ Cleanup \/ EndCommand
           \/ \E t \in Target : StageOne(t) \/ StageFails(t) \/ MoveFails(t)
  BY <1>7, DiskSame DEF Check, CheckFails, WriteFails, Cleanup, EndCommand, StageOne, StageFails, MoveFails
<1>8. CASE \E kind \in {"link", "current", "copy"}, T \in SUBSET Target, c \in Links \cup Trees : BeginFails(kind, T, c)
  BY <1>8, DiskSame DEF BeginFails
<1> QED
  BY <1>1, <1>2, <1>3, <1>4, <1>5, <1>6, <1>7, <1>8 DEF Publish, Installation!AbsNext

LEMMA EditRefines ==
  ASSUME Good, Good', NEW t \in Target, Edit(t)
  PROVE  Installation!Interfere(t)
<1>1. /\ UNCHANGED <<journal, record, tx>> /\ touched' = touched \cup {t}
      /\ \A u \in Target : u # t => dest'[u] = dest[u]
  BY DEF Edit, memory, Good, TypeInv, TypeOK
<1>2. Open' <=> Open
  BY <1>1 DEF Open, Marked
<1>3. \A u \in Target : FileOf(u)' = IF u = t THEN "foreign" ELSE FileOf(u)
  BY <1>1, <1>2 DEF FileOf
<1> QED
  BY <1>1, <1>2, <1>3 DEF Good, Mapping, Installation!Interfere

LEMMA StepRefines ==
  ASSUME Good, Good', [Step]_vars
  PROVE  AbsStutter \/ Installation!AbsNext
<1>1. CASE Calls
  BY <1>1, CallPlaces, DiskSame
<1>2. CASE Crash \/ Interrupt
  BY <1>2, DiskSame DEF Crash, Interrupt, disk, history
<1>3. CASE UNCHANGED vars
  BY <1>3, DiskSame DEF vars
<1> QED
  BY <1>1, <1>2, <1>3, RecoverRefines, RestoreRefines, PublishRefines, EditRefines
     DEF Step, Environment, Installation!AbsNext

(* A publish is all or nothing, in the files and in the record together:   *)
(* through crashes, failures, restores and recoveries the installation, as *)
(* the next command restores it, changes in one step to all of the publish *)
(* or not at all (install_transaction.py), as long as no publish begins    *)
(* over an unfinished one.                                                 *)
THEOREM PublishIsAtomic == (Spec \/ GatewaySpec) /\ []~overlaid => AllOrNothing
<1>1. TypeInv /\ OriginalsInv /\ AtomicInv /\ ~overlaid => Good
  BY Maps DEF Good
<1>2. Init => Installation!AbsInit
  <2> SUFFICES ASSUME Init PROVE Installation!AbsInit
    OBVIOUS
  <2>1. Unfinished = {} /\ touched = {} /\ dest \in [Target -> Slot]
    BY DEF Init, NoJournal, Unfinished, Slot, File, Content
  <2>2. FilesAfterRecovery = [t \in Target |-> ContentOf(dest[t])] /\ RecordAfterRecovery = record
    BY <2>1 DEF FilesAfterRecovery, RecordAfterRecovery
  <2>3. FilesAfterRecovery \in [Target -> Seen]
    BY <2>1, <2>2, ContentType
  <2> QED
    BY <2>1, <2>2, <2>3 DEF Init, Installation!AbsInit
<1>3. Good /\ Good' /\ [Step]_vars => [Installation!AbsNext]_(Installation!absVars)
  BY StepRefines DEF AbsStutter, Installation!absVars
<1> QED
  BY <1>1, <1>2, <1>3, TypeInvariant, OriginalsInvariant, AtomicInvariant, BothStep, PTL
     DEF Steps, AllOrNothing, Installation!AbsSpec

(* While only copies are published, a command that goes on to another      *)
(* publish left nothing unfinished.                                        *)
CopiesInv ==
  /\ ~overlaid
  /\ request.kind = "copy"
  /\ pc \in {"ready", "retain", "cleanup"} /\ exit = 0 => Unfinished = {}
  /\ pc \in RestorePlace => exit # 0

LEMMA CopiesStep ==
  ASSUME Links = {}, TypeInv, OriginalsInv, CopiesInv, Step
  PROVE  CopiesInv'
<1> USE DEF CopiesInv, Goto, disk, memory, history, PublishPlace, RestorePlace
<1>1. CASE StartCommand \/ Recover
  <2>1. /\ pc \in {"idle"} \cup RecoverPlace /\ UNCHANGED <<overlaid>>
        /\ pc' \in {"idle"} \cup RecoverPlace \/ (pc' = "ready" /\ Unfinished' = {})
        /\ request' \in {request, NoRequest}
    BY <1>1 DEF StartCommand, Recover, RecoverCheck, RecoverRefused, UndoRemove, UndoRemoved, UndoPutBack, UndoFails,
       UndoRecord, UndoMark, UndoStages, RecoveryDone, StartRemoval, Forget, RecoverPlace, Unfinished
  <2> QED
    BY <2>1 DEF RecoverPlace, NoRequest
<1>2. ASSUME NEW kind \in {"link", "current", "copy"}, NEW T \in SUBSET Target, NEW c \in Links \cup Trees,
             Begin(kind, T, c) \/ BeginFails(kind, T, c)
      PROVE  CopiesInv'
  <2>1. kind = "copy" /\ exit = 0
    BY <1>2, PublishAssumption DEF Begin, BeginFails, MayBegin, MayRequest
  <2>2. Unfinished = {}
    BY <1>2, <2>1 DEF Begin, BeginFails
  <2>3. CASE Begin(kind, T, c)
    BY <2>1, <2>2, <2>3 DEF Begin
  <2>4. CASE BeginFails(kind, T, c)
    BY <2>1, <2>4 DEF BeginFails
  <2> QED
    BY <1>2, <2>3, <2>4
<1>3. CASE MarkDone
  <2>1. \A k \in Tx : journal'[k].phase = "prepare" => journal[k].phase = "prepare" /\ k # tx
    BY <1>3 DEF MarkDone, TypeInv, TypeOK, Journals
  <2>2. Unfinished' = {}
    BY <2>1 DEF OriginalsInv, LastInv, Marked, Unfinished
  <2> QED
    BY <1>3, <2>2 DEF MarkDone
<1>4. CASE Retain
  <2>1. Unfinished' \subseteq Unfinished
    BY <1>4 DEF Retain, NoJournal, Unfinished
  <2> QED
    BY <1>4, <2>1 DEF Retain
<1>5. CASE SaveStaged \/ Check \/ CheckFails \/ WriteRecord \/ WriteFails \/ Cleanup \/ EndCommand
  BY <1>5 DEF SaveStaged, Check, CheckFails, WriteRecord, WriteFails, Cleanup, EndCommand, Fails, Forget, NoRequest, Unfinished
<1>6. CASE \E t \in Target : StageOne(t) \/ StageFails(t) \/ MoveAside(t) \/ MoveIn(t) \/ MoveFails(t)
  BY <1>6 DEF StageOne, StageFails, MoveAside, MoveIn, MoveFails, Fails
<1>7. CASE Restore
  <2>1. pc \in RestorePlace /\ pc' \in RestorePlace \cup {"cleanup"} /\ UNCHANGED <<overlaid, request, exit>>
    BY <1>7 DEF Restore, CheckRestore, CheckRestoreFails, RestoreSkip, RestoreRemove, RestoreRemoved, RestorePutBack,
       RestoreBare, RestoreBlocked, RestoreRecord, RestoreMark, RestoreFails, StartRemoval, Emptied
  <2> QED
    BY <2>1
<1>8. CASE Calls
  <2>1. /\ exit' = exit \/ exit' # 0
        /\ pc' \in {"before-restore", "cleanup"} => exit' # 0 \/ pc \in RestorePlace
    BY <1>8 DEF Calls, BeforePublish, AfterPublish, BeforeRestore, AfterRestore, BeforePublishFails,
       AfterPublishFails, BeforeRestoreFails, AfterRestoreFails, Fails
  <2> QED
    BY <1>8, <2>1, CallPlaces
<1>9. CASE Environment
  BY <1>9 DEF Environment, Crash, Interrupt, Edit, Forget, NoRequest, Unfinished
<1> QED
  BY <1>1, <1>2, <1>3, <1>4, <1>5, <1>6, <1>7, <1>8, <1>9 DEF Step, Publish

(* Where installs are copies, without links to a checkout, no publish      *)
(* begins over an unfinished one (the installer places nothing more after  *)
(* a failure, install_transaction.py and installer/cli.py): every publish  *)
(* is all or nothing.                                                      *)
THEOREM CopiesAreAtomic == Links = {} => (Spec \/ GatewaySpec => AllOrNothing)
<1> SUFFICES ASSUME Links = {} PROVE Spec \/ GatewaySpec => AllOrNothing
  OBVIOUS
<1>1. Init => CopiesInv
  BY DEF Init, CopiesInv, NoRequest, PublishPlace, RestorePlace
<1>2. TypeInv /\ OriginalsInv /\ CopiesInv /\ [Step]_vars => CopiesInv'
  <2>1. UNCHANGED vars /\ CopiesInv => CopiesInv'
    BY DEF vars, CopiesInv, Unfinished
  <2> QED
    BY <2>1, CopiesStep
<1>3. CopiesInv => ~overlaid
  BY DEF CopiesInv
<1> QED
  BY <1>1, <1>2, <1>3, TypeInvariant, OriginalsInvariant, PublishIsAtomic, BothStep, PTL DEF Steps

=============================================================================
