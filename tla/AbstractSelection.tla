---------------------------- MODULE AbstractSelection ----------------------------
(* What the publications of a session's choices promise: at any time there is one *)
(* judgment per chosen part of the transcript and no two parts overlap. A whole   *)
(* publication sets the choices anew, an update leaves those it does not touch    *)
(* exactly as they were, and may not split a choice of a whole exchange.          *)
CONSTANTS Scope, Judgment, Overlap(_, _)

VARIABLES
  chosen,      \* a function from the chosen scopes to their judgments
  asked        \* how and with which choices the last publication changed it

Selection == UNION {[S -> Judgment] : S \in SUBSET Scope}
Touched(new, s) == \E t \in DOMAIN new : Overlap(s, t)
Splits(new, s) == \E t \in DOMAIN new : Overlap(s, t) /\ t[2] # 0

Init == chosen = [s \in {} |-> "none"] /\ asked = [mode |-> "none", new |-> chosen]

Publish(new) == asked' = [mode |-> "whole", new |-> new] /\ chosen' = new

Update(new) ==
  /\ asked' = [mode |-> "update", new |-> new]
  /\ \A s \in DOMAIN chosen : s[2] = 0 => ~Splits(new, s)
  /\ LET kept == {s \in DOMAIN chosen : ~Touched(new, s)}
     IN chosen' = [s \in kept \cup DOMAIN new |-> IF s \in DOMAIN new THEN new[s] ELSE chosen[s]]

Next == \E new \in Selection : Publish(new) \/ Update(new)

Spec == Init /\ [][Next]_<<chosen, asked>>
=============================================================================
