--------------------------- MODULE MCAddonLifecycle ---------------------------
(* Two addons whose skills are their own and whose command goes to one place. *)
EXTENDS AddonLifecycle, TLC
CONSTANTS a1, a2, skill1, skill2, command
MCSkill == a1 :> skill1 @@ a2 :> skill2
MCExtra == a1 :> {command} @@ a2 :> {command}
MCLegacy == {a2}
=============================================================================
