-------------------------- MODULE MCSessionLedger --------------------------
(***************************************************************************)
(* A small instance of the session ledger: five hosts, each with the       *)
(* prompts and the agents that what may go wrong on it calls for.          *)
(***************************************************************************)
EXTENDS SessionLedger

CONSTANTS s1, s2, s3, t1, t2

Host(platform, origins, tags, mayFail, hooks) ==
  [platform |-> platform, origins |-> origins, tags |-> tags, faults |-> mayFail, hooks |-> hooks]

(* Agents write while rows come and transactions roll back; on Codex the   *)
(* hook itself records the input.                                          *)
AgentHosts ==
  {Host("claude", {"human", "sdk", "notification", "unknown"}, {FALSE}, {"imported", "rollback"}, {}),
   Host("codex", {}, {FALSE}, {"imported", "unhooked"}, {})}

(* Three prompts, the third with the text of the first, and rows that may  *)
(* have no actor.                                                          *)
InputHosts == {Host("claude", {"human", "unknown"}, {FALSE}, {}, {})}

(* A transcript that cannot always be read, with hooks that show it, and   *)
(* one that is replaced and whose rows may be tagged.                      *)
HookHosts ==
  {Host("claude", {"unknown"}, {FALSE}, {"unreadable"}, Hook),
   Host("claude", {"human", "unknown", "context"}, {TRUE, FALSE}, {"replaced"}, {})}

MCHosts == AgentHosts \cup InputHosts \cup HookHosts

MCInit ==
  /\ Init
  /\ text[s1] = t1 /\ text[s3] = t1
  /\ text[s2] = IF host \in InputHosts THEN t2 ELSE t1

(* Submissions are interchangeable: they are named in the order in which   *)
(* their hooks take them up.                                               *)
InOrder ==
  /\ hook[s2].at # "new" => hook[s1].at # "new"
  /\ hook[s3].at # "new" => hook[s2].at # "new"

(* The third prompt belongs to the input hosts, the agents to theirs.      *)
Scenario ==
  /\ host \notin InputHosts => hook[s3].at = "new" /\ s3 \notin appended
  /\ host \notin AgentHosts => \A w \in Writer : snap[w].at = "new"

(* The largest revision comes only where agents write.                     *)
Bound == host \in AgentHosts \/ db = None \/ db.revision < MaxRevision

MCSpec == MCInit /\ [][Next /\ InOrder' /\ Scenario']_vars
=============================================================================
