-------------------------- MODULE MCHookRegistration --------------------------
EXTENDS HookRegistration

CONSTANTS c1, c2, a1, r1, u1, u2, start, stop, ask

MCHome == [x \in {c1, c2, a1} |-> IF x = c2 THEN stop ELSE start]
MCOrder == <<c1, c2>>
H(x) == [id |-> x, version |-> 1]
File(f) == [e \in Event |-> IF e \in DOMAIN f THEN f[e] ELSE <<>>]

(* A hooks file without the suite, and those that older versions left: a       *)
(* retired hook before or beside the user's, the suite and an addon among his, *)
(* and his handlers behind what goes in an event that no table follows.        *)
MCSettings ==
  {File(start :> <<<<H(r1), H(u1)>>>> @@ stop :> <<<<H(u2)>>>>),
   File(start :> <<<<H(c1), H(u1)>>, <<H(a1)>>, <<H(u2)>>>>
        @@ stop :> <<<<H(r1)>>, <<H(c2)>>>>),
   File(start :> <<<<>>, <<H(a1), H(u1)>>, <<H(c1), H(u2)>>>>),
   File(start :> <<<<H(u1)>>>> @@ ask :> <<<<>>, <<H(r1)>>, <<H(u2)>>>>)}
===============================================================================
