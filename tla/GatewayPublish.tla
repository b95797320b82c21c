--------------------------- MODULE GatewayPublish ---------------------------
(***************************************************************************)
(* The publish transaction with the gateway participant in the place of    *)
(* its participants: InstallPublish and GatewayParticipant composed at the *)
(* four points a publish calls.                                            *)
(*                                                                         *)
(* The participant of a publish comes from the install record: the gateway *)
(* participant when the record can be read (a gateway is registered in     *)
(* this model), else one that holds every publish touching the runtime.    *)
(***************************************************************************)
EXTENDS InstallPublish, GatewayParticipant

CONSTANTS
  Runtime   \* the location the service runs its code from

ASSUME RuntimeAssumption == Runtime \in Target /\ Code = Seen

gatewayVars == <<vars, serviceVars>>

RuntimeCode == ContentOf(dest[Runtime])

(* affects: the publish replaces a location that touches the service. *)
Affected == Runtime \in Replaced
Readable == record # Unreadable

GatewayInit == Init /\ ServiceInit(RuntimeCode)

(* A participant failure is bounded by MaxServiceFaults here. *)
Hooks ==
  \/ BeforePublish /\ (Readable \/ ~Affected) /\ StopBefore(Affected /\ Readable)
  \/ BeforePublishFails(2) /\ Affected /\ ~Readable /\ UNCHANGED serviceVars /\ NoFault
  \/ \E code \in {2, 3} :
       BeforePublishFails(code) /\ Readable /\ StopBeforeFails(Affected, code) /\ NoFault
  \/ AfterPublish /\ StartAfter(Affected, RuntimeCode)
  \/ \E code \in {1, 4} : AfterPublishFails(code) /\ StartAfterFails(Affected, RuntimeCode, code) /\ NoFault
  \/ BeforeRestore /\ StopCandidate
  \/ BeforeRestoreFails /\ StopCandidateFails /\ NoFault
  \/ AfterRestore /\ StartPrior(RuntimeCode)
  \/ AfterRestoreFails /\ StartPriorFails(RuntimeCode) /\ NoFault

(* launchd loads the agent again, at the next login for instance. *)
Login ==
  /\ pc = "idle" /\ service = "absent" /\ RuntimeCode # None
  /\ Starts(RuntimeCode)
  /\ UNCHANGED <<vars, participantVars, serviceFaults>>

GatewayNext ==
  /\ UNCHANGED darwin
  /\ \/ (StartCommand \/ Recover \/ Restore \/ \E t \in Target : Edit(t)) /\ UNCHANGED serviceVars
     \/ Publish /\ IF pc = "ready" THEN NewParticipant ELSE UNCHANGED serviceVars
     \/ Hooks
     \/ (Crash \/ Interrupt) /\ NewParticipant
     \/ Login

GatewaySpec == GatewayInit /\ [][GatewayNext]_gatewayVars

----------------------------------------------------------------------------
(* Properties *)

(* Whatever the exit code, a service that a publish found running and      *)
(* stopped runs, if it runs at the publish's end, the code that is         *)
(* installed then.  (Exit 3: the stop itself is unconfirmed.)              *)
RunsInstalledCode ==
  (pc = "cleanup" /\ wasRunning /\ exit # 3 /\ Runtime \notin touched /\ service = "running")
    => loaded = RuntimeCode

(* A publish that says it is done or restored, with an exit code that does *)
(* not hold the service for review (3, 5), gives back the service it       *)
(* stopped.                                                                *)
ServiceComesBack ==
  (pc = "cleanup" /\ wasRunning /\ exit \notin {3, 5} /\ journal[tx].phase \in {"done", "restored"})
    => service = "running"

=============================================================================
