------------------------- MODULE AbstractAuthority -------------------------
(***************************************************************************)
(* What the session ledger promises: a register of the user's latest       *)
(* input.  It moves only forward, to inputs that were never the latest     *)
(* before; while an input of unknown origin is in it, or a turn that no    *)
(* human started, it is closed; a route is ready only for the latest input *)
(* and only recorded while the register is open.                           *)
(***************************************************************************)

CONSTANTS Input, None

VARIABLES
  current,  \* the latest input of the user
  open,     \* writes for it are accepted
  ready,    \* the input whose route is ready, or None
  past      \* every input that was the latest

vars == <<current, open, ready, past>>

Init ==
  /\ current \in Input \cup {None}
  /\ past = {current} \ {None}
  /\ open = TRUE
  /\ ready = None

(* An input arrives whose origin is not known yet. *)
Receive ==
  /\ open' = FALSE
  /\ UNCHANGED <<current, ready, past>>

(* Some inputs are the user's: the last of them is the latest. *)
Adopt ==
  /\ current' \in Input \ past
  /\ current' \in past' /\ past \subseteq past' /\ past' \subseteq Input
  /\ ready' = None
  /\ open' \in BOOLEAN

(* The inputs that arrived are not the user's; a turn that another program *)
(* started withdraws the route.                                            *)
Dismiss ==
  /\ ~open
  /\ open' \in BOOLEAN
  /\ ready' \in {ready, None}
  /\ UNCHANGED <<current, past>>

(* A route for the latest input. *)
Route ==
  /\ open
  /\ current # None
  /\ ready' = current
  /\ UNCHANGED <<current, open, past>>

Next == Receive \/ Adopt \/ Dismiss \/ Route

Spec == Init /\ [][Next]_vars
=============================================================================
