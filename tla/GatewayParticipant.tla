------------------------- MODULE GatewayParticipant -------------------------
(***************************************************************************)
(* The gateway participant of a publish                                    *)
(* (_shared/installer/gateway_participant.py) and the launchd service it   *)
(* stops and starts (the effects of _shared/context_gateway_platform.py).  *)
(*                                                                         *)
(* Each of the four points of a publish is one relation over the service   *)
(* and the participant's memory, with the exit code the point ends with:   *)
(* 0 when it returns, the code of its error otherwise.  An effect that     *)
(* raises leaves the service in any state that error is compatible with.   *)
(***************************************************************************)
EXTENDS Naturals

CONSTANTS
  Code,             \* the versions of the service's code
  MaxServiceFaults  \* bound: effects that raise or stay inconclusive

ASSUME ServiceAssumption == MaxServiceFaults \in Nat

VARIABLES
  darwin,         \* TRUE: the launchctl owner of the service is available
  service,        \* what launchd says: "running" or "absent"
  loaded,         \* the code the service started from
  wasRunning, stopped, started,  \* the participant's memory of one publish
  serviceFaults

participantVars == <<wasRunning, stopped, started>>
serviceVars == <<darwin, service, loaded, wasRunning, stopped, started, serviceFaults>>

ServiceInit(code) ==
  /\ darwin \in BOOLEAN
  /\ service \in {"running", "absent"}
  /\ loaded = code
  /\ wasRunning = FALSE /\ stopped = FALSE /\ started = FALSE
  /\ serviceFaults = 0

(* `participants` makes a new one for every publish. *)
NewParticipant ==
  /\ wasRunning' = FALSE /\ stopped' = FALSE /\ started' = FALSE
  /\ UNCHANGED <<service, loaded, serviceFaults>>

ServiceFault == serviceFaults < MaxServiceFaults /\ serviceFaults' = serviceFaults + 1

----------------------------------------------------------------------------
(* Mutant of StopBefore: the service is looked at and not stopped. *)
OnlyLooks(affected) ==
  \/ ~affected /\ UNCHANGED serviceVars
  \/ /\ affected /\ darwin
     /\ wasRunning' = (service = "running")
     /\ UNCHANGED <<service, loaded, stopped, started, serviceFaults>>

(* before_publish: the service must be absent before any file changes.     *)

StopBefore(affected) ==
  \/ ~affected /\ UNCHANGED serviceVars
  \/ /\ affected /\ darwin
     /\ wasRunning' = (service = "running")
     /\ stopped' = (service = "running")
     /\ service' = "absent"
     /\ UNCHANGED <<loaded, started, serviceFaults>>

StopBeforeFails(affected, code) ==
  /\ affected
  /\ \/ code = 2 /\ ~darwin /\ UNCHANGED serviceVars
     \/ /\ code = 3 /\ darwin /\ ServiceFault
        /\ \/ UNCHANGED <<service, participantVars>>   \* its state is unavailable
           \/ /\ service = "running"                   \* the stop raised
              /\ wasRunning' = TRUE
              /\ service' \in {"running", "absent"}
              /\ UNCHANGED <<stopped, started>>
           \/ /\ wasRunning' = (service = "running")   \* its absence is unconfirmed
              /\ stopped' = (service = "running")
              /\ service' = "absent"
              /\ UNCHANGED started
        /\ UNCHANGED loaded

(* The service starts from `code`; a start that fails leaves it absent,    *)
(* one that does not get ready leaves it running.                          *)
Starts(code) == service' = "running" /\ loaded' = code
StartFails(code) == Starts(code) \/ (service' = "absent" /\ UNCHANGED loaded)

(* after_publish: a service this publish stopped starts on the new code.   *)
StartAfter(affected, code) ==
  IF affected /\ stopped
    THEN started' = TRUE /\ Starts(code) /\ UNCHANGED <<wasRunning, stopped, serviceFaults>>
    ELSE UNCHANGED serviceVars

(* Not started or not ready: 4.  Started, but the record write failed: 1.  *)
StartAfterFails(affected, code, exitCode) ==
  /\ affected /\ stopped /\ ServiceFault
  /\ started' = TRUE
  /\ IF exitCode = 1 THEN Starts(code) ELSE exitCode = 4 /\ StartFails(code)
  /\ UNCHANGED <<wasRunning, stopped>>

(* before_restore: a service that runs the candidate stops first.          *)
StopCandidate ==
  IF started
    THEN service' = "absent" /\ started' = FALSE /\ UNCHANGED <<loaded, wasRunning, stopped, serviceFaults>>
    ELSE UNCHANGED serviceVars

StopCandidateFails ==
  /\ started /\ ServiceFault
  /\ service' \in {service, "absent"}
  /\ UNCHANGED <<loaded, participantVars>>

(* Mutant of StartPrior: nothing is started after the restore. *)
StaysStopped(code) == UNCHANGED serviceVars

(* after_restore: the service this publish stopped starts on the restored  *)
(* code.                                                                   *)
StartPrior(code) ==
  IF wasRunning /\ stopped
    THEN Starts(code) /\ stopped' = FALSE /\ UNCHANGED <<wasRunning, started, serviceFaults>>
    ELSE UNCHANGED serviceVars

StartPriorFails(code) ==
  /\ wasRunning /\ stopped /\ ServiceFault
  /\ StartFails(code)
  /\ UNCHANGED participantVars
=============================================================================
