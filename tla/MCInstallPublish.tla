-------------------------- MODULE MCInstallPublish --------------------------
(* A small instance of the publish transaction. *)
EXTENDS InstallPublish

CONSTANTS v1, v2, MaxTroubles

(* Contents are interchangeable: what is installed first is v1, the first  *)
(* publish brings v2 and the second v1 again. A change by somebody else is *)
(* troubles enough for one more.                                           *)
Scenario ==
  /\ tx # 0 => request.content \in {None, IF tx = 1 THEN v2 ELSE v1}
  /\ crashes + faults + 2 * edits <= MaxTroubles

MCInit == Init /\ \A t \in Target : ContentOf(dest[t]) # v2

MCSpec ==
  /\ MCInit /\ [][Next /\ Scenario']_vars
  /\ WF_vars(Commands /\ Scenario')
=============================================================================
