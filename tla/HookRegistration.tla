-------------------------- MODULE HookRegistration --------------------------
(* The registration of the suite's native hooks in one host's hooks file      *)
(* (src/_shared/install_hooks.py). The file belongs to the user: it holds his *)
(* own handlers beside the suite's, in groups per event. Codex keeps the      *)
(* user's consent in another file, config.toml, as one table per handler      *)
(* POSITION with the hash of the handler it was given for. A command that     *)
(* removes or adds handlers moves others, and has to move their tables too.   *)
(* It moves those of five events, and none of a file it cannot safely edit.   *)
(* A handler stands for its own hash: a table allows the handler it equals.   *)
EXTENDS Integers, Sequences, SequencesExt

CONSTANTS Event, Core, Addon, Retired, User, Version,
          Followable,       \* events whose table keys the reconciliation reads
          Home,             \* the event of a suite or addon hook
          CoreOrder,        \* the suite's hooks in the order they are placed
          InitialSettings,  \* hooks files an installation may find
          MaxCommands, MaxEdits, MaxFaults

ASSUME HooksAssumption ==
  /\ Core \cap User = {} /\ Addon \cap User = {} /\ Retired \cap User = {}
  /\ Core \cap Addon = {} /\ Core \cap Retired = {} /\ Addon \cap Retired = {}
  /\ CoreOrder \in Seq(Core) /\ Followable \subseteq Event

VARIABLES settings,  \* hooks.json: event -> sequence of groups of handlers
          tables,    \* config.toml: position -> the handler it allows
          granted,   \* handlers of his own that the user ever allowed
          plain,     \* is config.toml written so that its tables can be moved?
          pc, cmd,   \* the command's place and what it holds in memory
          outcome,   \* how the last command ended
          commands, edits, faults

vars == <<settings, tables, granted, plain, pc, cmd, outcome, commands, edits, faults>>
files == <<settings, tables>>

Handler == [id : Core \cup Addon \cup Retired \cup User, version : Version]

ASSUME SettingsAssumption == InitialSettings \subseteq [Event -> Seq(Seq(Handler))]

Places(s) == UNION {UNION {{<<e, g, h>> : h \in DOMAIN s[e][g]}
                           : g \in DOMAIN s[e]} : e \in Event}
HandlerAt(s, p) == s[p[1]][p[2]][p[3]]
HandlersOf(groups) == UNION {Range(groups[g]) : g \in DOMAIN groups}
Allowed(s, t) == {x \in Handler : \E p \in Places(s) \cap DOMAIN t :
                                    HandlerAt(s, p) = x /\ t[p] = x}

-----------------------------------------------------------------------------
(* Edits of the parsed hooks file, in memory. *)

(* The elements of s that are in K, in their order: SelectSeq, which no prover *)
(* can expand, as a recursive function.                                        *)
Kept(s, K) ==
  LET kept[i \in 0 .. Len(s)] ==
        IF i = 0 THEN <<>>
        ELSE IF s[i] \in K THEN Append(kept[i - 1], s[i])
        ELSE kept[i - 1]
  IN kept[Len(s)]

(* A bug: a group with any handler to remove goes whole. *)
WholeGroupsGone(groups, gone) ==
  Kept(groups, {g \in Range(groups) : Range(g) \cap gone = {}})

(* A group whose handlers all go goes with them; an empty group stays. *)
Without(groups, gone) ==
  LET left == Kept(groups, {g \in Range(groups) : g = <<>> \/ Range(g) \ gone # {}})
  IN [i \in DOMAIN left |-> Kept(left[i], Range(left[i]) \ gone)]

Drop(s, gone) == [e \in Event |-> Without(s[e], gone)]
NoEmpty(s) == [e \in Event |-> Kept(s[e], Range(s[e]) \ {<<>>})]

(* One hook: other versions of it go from its event, it is appended if absent. *)
Placed(s, x) ==
  LET e == Home[x.id]
      kept == Without(s[e], {y \in Handler : y.id = x.id /\ y # x})
  IN [s EXCEPT ![e] = IF x \in HandlersOf(kept) THEN kept
                      ELSE Append(kept, <<x>>)]

RetiredForms == {x \in Handler : x.id \in Retired}
Suite(v, addons) ==
  [i \in 1..Len(CoreOrder) |-> [id |-> CoreOrder[i], version |-> v]]
  \o [i \in 1..Len(addons) |-> [id |-> addons[i], version |-> v]]
Edited(s, v, addons) ==
  NoEmpty(FoldLeft(Placed, Drop(s, RetiredForms), Suite(v, addons)))

(* What an uninstall takes: the suite's hooks in their events, every addon's   *)
(* and every retired one.                                                      *)
Uninstalled(s) ==
  NoEmpty([e \in Event |->
    Without(s[e], {x \in Handler : \/ x.id \in Addon \cup Retired
                                   \/ x.id \in Core /\ Home[x.id] = e})])

-----------------------------------------------------------------------------
(* Edits of the trust tables. *)

(* A bug: a table stays at its position. *)
MovesNowhere(t, before, after) ==
  {m \in (DOMAIN t) \X Places(after) : m[1] = m[2]}

(* A table goes where its handler goes. One at a position that held no handler *)
(* stays if a handler is there now; every other one is dropped. A table whose  *)
(* key names an event that the reconciliation does not know stays as it is.    *)
Goes(p, q, before, after) ==
  \/ p[1] \notin Followable /\ q = p
  \/ /\ p[1] \in Followable /\ q \in Places(after)
     /\ IF p \in Places(before)
        THEN q[1] = p[1] /\ HandlerAt(before, p) = HandlerAt(after, q)
        ELSE q = p
Moves(t, before, after) ==
  {m \in (DOMAIN t) \X (Places(after) \cup DOMAIN t) :
     Goes(m[1], m[2], before, after)}

Collide(moves) == \E m, n \in moves : m # n /\ m[2] = n[2]
Clean(t, before, after) == ~Collide(Moves(t, before, after))
Followed(t, before, after) ==
  LET moves == Moves(t, before, after)
  IN [q \in {m[2] : m \in moves} |-> t[(CHOOSE m \in moves : m[2] = q)[1]]]

(* Tables that two would share, or that cannot be edited without doubt, are    *)
(* left as they are; the command goes on.                                      *)
Reconciled(t, before, after) ==
  {u \in {t} : ~plain \/ ~Clean(t, before, after)}
    \cup {u \in {Followed(t, before, after)} : Clean(t, before, after)}

(* A bug: whatever stands in the plan is trusted. *)
EveryPlace(s, v, addons) == Places(s)

(* The suite's own handlers, and the addon hooks this install verified. *)
OwnPlaces(s, v, addons) ==
  {p \in Places(s) : LET x == HandlerAt(s, p)
                     IN \/ x.id \in Core
                        \/ x.id \in Range(addons) \cap Addon /\ x.version = v}
Trusted(t, s, v, addons) ==
  LET own == OwnPlaces(s, v, addons)
  IN [p \in DOMAIN t \cup own |-> IF p \in own THEN HandlerAt(s, p) ELSE t[p]]

-----------------------------------------------------------------------------
NoCommand == [kind |-> "none"]

(* The user may have allowed handlers of his before any suite was there. *)
Init ==
  /\ settings \in InitialSettings
  /\ \E asked \in SUBSET {p \in Places(settings) : HandlerAt(settings, p).id \in User} :
       /\ tables = [p \in asked |-> HandlerAt(settings, p)]
       /\ granted = {HandlerAt(settings, p) : p \in asked}
  /\ plain \in BOOLEAN
  /\ pc = "idle" /\ cmd = NoCommand /\ outcome = "none"
  /\ commands = 0 /\ edits = 0 /\ faults = 0

End(result) == pc' = "idle" /\ outcome' = result /\ cmd' = NoCommand
Goto(place) == pc' = place /\ UNCHANGED <<cmd, outcome>>
Stays == UNCHANGED <<granted, plain, commands, edits>>
Ready == pc = "idle" /\ commands < MaxCommands
Fault == faults < MaxFaults /\ faults' = faults + 1

-----------------------------------------------------------------------------
(* install_hook *)

(* Without a Node.js runtime the install raises before it reads anything. *)
NoNodeRuntime ==
  /\ Ready /\ Fault
  /\ cmd' = NoCommand /\ outcome' = "error"
  /\ commands' = commands + 1
  /\ UNCHANGED <<files, granted, plain, pc, edits>>

BeginInstall(v, addons) ==
  /\ Ready
  /\ cmd' = [kind |-> "install", version |-> v, addons |-> addons,
             read |-> settings, tables |-> tables,
             plan |-> Edited(settings, v, addons)]
  /\ pc' = "follow" /\ outcome' = "none"
  /\ commands' = commands + 1
  /\ UNCHANGED <<files, granted, plain, edits, faults>>

Follow ==
  /\ pc = "follow"
  /\ tables' \in Reconciled(tables, cmd.read, cmd.plan)
  /\ Goto("trust")
  /\ Stays /\ UNCHANGED <<settings, faults>>

Trust ==
  /\ pc = "trust"
  /\ tables' = Trusted(tables, cmd.plan, cmd.version, cmd.addons)
  /\ Goto(IF cmd.plan = cmd.read /\ tables' = cmd.tables
          THEN "keep" ELSE "write")
  /\ Stays /\ UNCHANGED <<settings, faults>>

WriteSettings ==
  /\ pc = "write"
  /\ settings' = cmd.plan
  /\ Goto("persist")
  /\ Stays /\ UNCHANGED <<tables, faults>>

(* The Node.js path and the addon permissions are recorded last. *)
Persist ==
  /\ pc \in {"persist", "keep"}
  /\ End(IF pc = "keep" THEN "already" ELSE "installed")
  /\ Stays /\ UNCHANGED <<files, faults>>

(* config.toml is never put back: the tables stay as the failed install left  *)
(* them.                                                                      *)
InstallFails ==
  /\ pc \in {"follow", "trust", "write", "keep"} /\ Fault
  /\ End("error")
  /\ Stays /\ UNCHANGED files

PersistFails ==
  /\ pc = "persist" /\ Fault
  /\ \/ settings' = cmd.read /\ End("error")
     \/ UNCHANGED settings /\ End("unrestored") /\ faults + 1 < MaxFaults
  /\ Stays /\ UNCHANGED tables

-----------------------------------------------------------------------------
(* uninstall_hook, remove_addon_hook, remove_retired_hooks *)

BeginRemoval(plan) ==
  /\ Ready
  /\ IF Places(plan) = Places(settings)
     THEN End("not_found")
     ELSE /\ pc' = "detrust" /\ outcome' = "none"
          /\ cmd' = [kind |-> "removal", read |-> settings, tables |-> tables,
                     plan |-> plan]
  /\ commands' = commands + 1
  /\ UNCHANGED <<files, granted, plain, edits, faults>>

Removal ==
  \/ BeginRemoval(Uninstalled(settings))
  \/ BeginRemoval(Drop(settings, RetiredForms))
  \/ \E a \in Addon : BeginRemoval(Drop(settings, {x \in Handler : x.id = a}))

Detrust ==
  /\ pc = "detrust"
  /\ tables' \in Reconciled(tables, cmd.read, cmd.plan)
  /\ Goto("remove")
  /\ Stays /\ UNCHANGED <<settings, faults>>

WriteRemoved ==
  /\ pc = "remove"
  /\ settings' = cmd.plan
  /\ End("removed")
  /\ Stays /\ UNCHANGED <<tables, faults>>

RemovalFails ==
  /\ Fault
  /\ \/ pc = "detrust" /\ UNCHANGED tables /\ End("error")
     \/ pc = "remove" /\ tables' = cmd.tables /\ End("error")
     \/ pc = "remove" /\ UNCHANGED tables /\ End("unrestored")
        /\ faults + 1 < MaxFaults
  /\ Stays /\ UNCHANGED settings

Die ==
  /\ pc # "idle" /\ Fault
  /\ End("died")
  /\ Stays /\ UNCHANGED files

-----------------------------------------------------------------------------
(* The user and the host, between commands. *)

Present(u) == {p \in Places(settings) : HandlerAt(settings, p).id = u}
Edit == pc = "idle" /\ edits < MaxEdits /\ edits' = edits + 1
        /\ outcome' = "edited" /\ UNCHANGED <<pc, cmd, commands, faults>>

(* The host asks and the user allows the handler where it is now. *)
Grant(u) ==
  /\ Edit
  /\ \E p \in Present(u) :
       LET x == HandlerAt(settings, p)
       IN /\ tables' = [q \in DOMAIN tables \cup {p} |->
                          IF q = p THEN x ELSE tables[q]]
          /\ granted' = granted \cup {x}
  /\ UNCHANGED <<settings, plain>>

(* The user writes config.toml in another form, with the same tables. *)
Reform ==
  /\ Edit
  /\ plain' = ~plain
  /\ UNCHANGED <<files, granted>>

AddHandler(u, e, v) ==
  /\ Edit /\ Present(u) = {}
  /\ LET x == [id |-> u, version |-> v]
     IN \/ settings' = [settings EXCEPT ![e] = <<<<x>>>> \o @]
        \/ \E g \in DOMAIN settings[e] :
             settings' = [settings EXCEPT ![e][g] = <<x>> \o @]
  /\ UNCHANGED <<tables, granted, plain>>

(* The user takes his handler out of its group, which may become empty. *)
TakeHandler(u) ==
  /\ Edit
  /\ \E p \in Present(u) :
       settings' = [settings EXCEPT ![p[1]][p[2]] = RemoveAt(@, p[3])]
  /\ UNCHANGED <<tables, granted, plain>>

ChangeHandler(u, v) ==
  /\ Edit
  /\ \E p \in Present(u) :
       settings' = [settings EXCEPT ![p[1]][p[2]][p[3]].version = v]
  /\ UNCHANGED <<tables, granted, plain>>

UserStep ==
  \/ Reform
  \/ \E u \in User :
       \/ Grant(u)
       \/ TakeHandler(u)
       \/ \E v \in Version : ChangeHandler(u, v) \/ \E e \in Event : AddHandler(u, e, v)

Install == \E v \in Version, addons \in {<<>>} \cup {<<a>> : a \in Addon} :
             BeginInstall(v, addons)
CommandStep ==
  \/ NoNodeRuntime \/ Install \/ Follow \/ Trust \/ WriteSettings \/ Persist
  \/ InstallFails \/ PersistFails
  \/ Removal \/ Detrust \/ WriteRemoved \/ RemovalFails \/ Die

Next == UserStep \/ CommandStep

Spec == Init /\ [][Next]_vars

-----------------------------------------------------------------------------
UserOrder(s) ==
  [e \in Event |-> Kept(FlattenSeq(s[e]), {x \in Handler : x.id \in User})]
Ends(results) == pc # "idle" /\ pc' = "idle" /\ outcome' \in results

(* No command, whatever it fails or dies at, loses, changes or reorders a      *)
(* handler of the user's (install_hook, uninstall_hook and the two removals).  *)
UserHandlersKept ==
  [][edits' = edits => UserOrder(settings') = UserOrder(settings)]_vars

(* A position's table allows a handler of the user's only if he allowed that   *)
(* very handler: tables that follow handlers, or that a command leaves at      *)
(* positions of another hooks file, never allow what nobody allowed.           *)
TrustNeverGained ==
  \A p \in DOMAIN tables : tables[p].id \in User => tables[p] \in granted

EndsWell == Ends({"installed", "already", "removed"})
Consents(s, t) == {p \in Places(s) \cap DOMAIN t :
                     HandlerAt(s, p).id \in User /\ t[p] = HandlerAt(s, p)}
Keeps(p) == HandlerAt(cmd.read, p) \in Allowed(settings', tables')
Stands(p) == p \in Places(cmd.plan) /\ HandlerAt(cmd.plan, p) = HandlerAt(cmd.read, p)
Settled == plain /\ Clean(cmd.tables, cmd.read, cmd.plan)

(* A command that ends well takes the user's consent along: a handler that he  *)
(* had allowed stays allowed wherever it is now, if its event is one whose keys *)
(* _reconcile_codex_hook_trust reads and it could move the tables. Where it    *)
(* could not, or does not know the event, a handler that the command leaves at *)
(* its position stays allowed, whatever happens to the tables around it.       *)
TrustFollows ==
  [][EndsWell => \A p \in Consents(cmd.read, cmd.tables) :
       Stands(p) \/ (p[1] \in Followable /\ Settled) => Keeps(p)]_vars

=============================================================================
