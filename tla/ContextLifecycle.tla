---------------------------- MODULE ContextLifecycle ----------------------------
(* How the context gateway shortens the requests of a session. The response model *)
(* judges parts of the transcript it has read, either by their place (a           *)
(* publication, context_lifecycle.py) or as the result of a lookup it declared    *)
(* before (a use, response_context_use.py). For each request the gateway waits    *)
(* for the transcript if it must, reads both kinds of judgments twice, and        *)
(* forwards the request with the parts changed that both let it change. Other     *)
(* agents publish and judge, the user types and the host rewrites its transcript  *)
(* between these reads.                                                           *)
EXTENDS Naturals, Sequences, FiniteSets

CONSTANTS Hosts, Judgments, Block, Use, MaxInputs, MaxPublications, MaxEvents, MaxRequests, MaxChoices

ASSUME ContextAssumption ==
  /\ Hosts \subseteq {"codex", "claude"} /\ Judgments \subseteq {"keep", "replace", "omit"}
  /\ Block \subseteq {1, 2} \X {1, 2} /\ Use \subseteq {b \o <<1>> : b \in Block}
  /\ MaxInputs \in Nat \ {0} /\ MaxPublications \in Nat /\ MaxEvents \in Nat
  /\ MaxRequests \in Nat /\ MaxChoices \in Nat

\* A call and its result share a number. A block is a part of a result; a scope is a block, or
\* with 0 the whole exchange; a use is an object in a block.
Record == {b[1] : b \in Block}
Scope == Block \cup {<<b[1], 0>> : b \in Block}
At(u) == <<u[1], u[2]>>
Overlap(s, t) == s[1] = t[1] /\ (s[2] = t[2] \/ s[2] = 0 \/ t[2] = 0)

NoCall == [call |-> 0, epoch |-> 0]
NoUse == [judgment |-> "none", epoch |-> 0]
NoRequest == [pc |-> "idle", human |-> 0, wire |-> {}, epoch |-> 0, late |-> FALSE, view |-> {},
              heldScopes |-> {}, heldUses |-> {}, scopes |-> {}, uses |-> {}]

VARIABLES
  host,              \* the program whose requests these are
  input, staged,     \* the latest confirmed input; a newer one waiting for its origin
  calls,             \* call -> "none", "listed" in the transcript, "done"
  epoch,             \* how often the host has rewritten the transcript
  published, current,\* the publications, which never change, and the one in force
  bound, judged,     \* use -> the call it was recorded for (0: none), when; its latest judgment
  req,               \* the request under way
  kept, allowed,     \* what was kept, and what could be changed, throughout and ever in it
  moved,             \* whether a record changed between the reads of the request
  events, requests

session == <<host, input, staged>>
records == <<published, current, bound, judged>>
ghosts == <<kept, allowed, moved>>
counters == <<events, requests>>
vars == <<session, calls, epoch, records, req, ghosts, counters>>

\* What the transcript shows of a call.
Pending(r) == calls[r] = "listed"
Done(r) == calls[r] = "done"

\* The choices in force: those of the current publication and those it retains, each resolved
\* to the publication that made it.
ChosenBy(ref) ==
  IF ref = 0 THEN {}
  ELSE {[ref |-> ref, scope |-> s] : s \in DOMAIN published[ref].selected} \cup published[ref].retained
JudgmentOf(d) == published[d.ref].selected[d.scope]
NoChoices == [s \in {} |-> "none"]
Decisions ==
  [s \in {d.scope : d \in ChosenBy(current)} |->
     JudgmentOf(CHOOSE d \in ChosenBy(current) : d.scope = s)]
Verified == \A d \in ChosenBy(current) : published[d.ref].epoch = epoch

\* A request is matched with the confirmed input and the transcript as they are when it is read.
AnswersAny == TRUE           \* mutant: the input of the request is not compared
Answers == req.human = input
Ready == staged = "no" /\ Answers /\ req.epoch = epoch
OnWire(s) == s[1] \in req.wire
Usable == current # 0 /\ published[current].epoch = epoch /\ Verified
InForce == IF Ready /\ Usable THEN {s \in DOMAIN Decisions : OnWire(s)} ELSE {}
Authentic == {u \in Use : Ready /\ judged[u].judgment # "none" /\ judged[u].epoch = epoch /\ OnWire(At(u))}
Keeps(u) == judged[u].judgment = "keep"
Changeable == {s \in InForce : Decisions[s] # "keep"}

KeptNow == {b \in Block :
  \/ Usable /\ \E s \in DOMAIN Decisions : Overlap(s, b) /\ Decisions[s] = "keep"
  \/ \E u \in Use : At(u) = b /\ Keeps(u) /\ judged[u].epoch = epoch}
AllowedNow ==
  IF input # req.human \/ epoch # req.epoch THEN {}
  ELSE {s \in DOMAIN Decisions : Usable /\ Decisions[s] # "keep"}
       \cup {u \in Use : judged[u].judgment \notin {"none", "keep"} /\ judged[u].epoch = epoch}

Doing(p) == req.pc = p
Active == ~Doing("idle")
Reading == req.pc \in {"uses", "manual", "apply"}
Watch ==
  /\ kept' = IF Active THEN kept \cap KeptNow' ELSE kept
  /\ allowed' = IF Active THEN allowed \cup AllowedNow' ELSE allowed
  /\ moved' = IF Reading THEN moved \/ <<input, records>>' # <<input, records>> ELSE moved
Event == events < MaxEvents /\ events' = events + 1 /\ UNCHANGED requests /\ Watch

Init ==
  /\ host \in Hosts /\ input = 1 /\ staged = "no"
  /\ calls = [r \in Record |-> "none"] /\ epoch = 0
  /\ published = <<>> /\ current = 0
  /\ bound = [u \in Use |-> NoCall] /\ judged = [u \in Use |-> NoUse]
  /\ req = NoRequest /\ kept = {} /\ allowed = {} /\ moved = FALSE
  /\ events = 0 /\ requests = 0

-----------------------------------------------------------------------------
(* The host: prompts, tool calls and its transcript.                          *)

\* The prompt's hook stages the input; its row follows in the transcript. (Codex's hook commits the
\* input at once, but until the row is there every reader finds another input in the transcript
\* than in the ledger and refuses.)
StageInput ==
  /\ staged = "no" /\ input < MaxInputs /\ staged' = "waiting"
  /\ UNCHANGED <<host, input, calls, epoch, records, req>> /\ Event

AppendRow ==
  /\ staged = "waiting" /\ staged' = "appended"
  /\ UNCHANGED <<host, input, calls, epoch, records, req, counters>> /\ Watch

Confirm == staged = "appended" /\ input' = input + 1 /\ staged' = "no"

HookConfirms ==
  /\ Confirm
  /\ UNCHANGED <<host, calls, epoch, records, req, counters>> /\ Watch

CallProceeds(r) ==
  /\ ~Done(r) /\ calls' = [calls EXCEPT ![r] = IF @ = "none" THEN "listed" ELSE "done"]
  /\ UNCHANGED <<session, epoch, records, req, counters>> /\ Watch

Rewrite ==
  /\ epoch' = epoch + 1
  /\ UNCHANGED <<session, calls, records, req>> /\ Event

-----------------------------------------------------------------------------
(* Publications and uses.                                                     *)

New == UNION {[S -> Judgments] : S \in
  {S \in SUBSET Scope : \A s, t \in S : s # t => ~Overlap(s, t)}}

\* An update retains the choices it does not touch, and refuses to split an exchange. Only Codex
\* has updates, choices of an exchange and results of several blocks.
Touches(new, s) == \E t \in DOMAIN new : Overlap(s, t)
RetainedOfLast(new) ==      \* mutant: what the last publication retained is forgotten
  {d \in ChosenBy(current) : d.ref = current /\ ~Touches(new, d.scope)}
Retained(new) == {d \in ChosenBy(current) : ~Touches(new, d.scope)}
Splits(new) == \E d \in ChosenBy(current), t \in DOMAIN new :
  d.scope[2] = 0 /\ t[2] # 0 /\ Overlap(d.scope, t)

Publish(mode, new, retained) ==
  /\ staged = "no" /\ Len(published) < MaxPublications
  /\ Cardinality(DOMAIN new) <= MaxChoices /\ \A s \in DOMAIN new : Done(s[1])
  /\ published' = Append(published,
       [mode |-> mode, selected |-> new, epoch |-> epoch, retained |-> retained])
  /\ current' = Len(published')
  /\ UNCHANGED <<session, calls, epoch, bound, judged, req>> /\ Event

PublishCodex(new) ==
  /\ host = "codex"
  /\ \/ Publish("whole", new, {})
     \/ (current # 0 => Verified) /\ ~Splits(new) /\ Publish("update", new, Retained(new))

PublishClaude(new) ==
  /\ host = "claude" /\ \A s \in DOMAIN new : s[2] = 1
  /\ Publish("whole", new, {})

\* A lookup records itself while it runs, for a call the transcript shows without a result; if
\* there are several the model says which.
RecordUse(u, r) ==
  /\ staged = "no" /\ bound[u] = NoCall
  /\ ~Done(At(u)[1]) /\ Pending(r)
  /\ bound' = [bound EXCEPT ![u] = [call |-> r, epoch |-> epoch]]
  /\ UNCHANGED <<session, calls, epoch, published, current, judged, req, counters>> /\ Watch

\* The result of that call must hold the object of the use, in a transcript that still begins
\* with what was read.
Holds(u) == bound[u].call = At(u)[1]

JudgeUse(u, j) ==
  /\ staged = "no" /\ bound[u] # NoCall /\ bound[u].epoch = epoch
  /\ Done(bound[u].call) /\ Holds(u)
  /\ judged' = [judged EXCEPT ![u] = [judgment |-> j, epoch |-> epoch]]
  /\ UNCHANGED <<session, calls, epoch, published, current, bound, req>> /\ Event

-----------------------------------------------------------------------------
(* A request.                                                                 *)

Advance(r) == req' = r /\ UNCHANGED <<calls, epoch, records, counters>> /\ Watch
Step(r) == UNCHANGED session /\ Advance(r)
Go(p) == Step([req EXCEPT !.pc = p])

StartRequest(W) ==
  /\ ~Active /\ requests < MaxRequests /\ requests' = requests + 1
  /\ \A r \in W : Done(r)
  /\ req' = [NoRequest EXCEPT !.pc = IF host = "claude" THEN "prepare" ELSE "inspect",
               !.human = input + (IF staged = "no" THEN 0 ELSE 1), !.wire = W, !.epoch = epoch]
  /\ UNCHANGED <<session, calls, epoch, records, events>>
  /\ kept' = KeptNow' /\ allowed' = AllowedNow' /\ moved' = FALSE

\* A Claude request first confirms its own input if the row is there. It waits for the row as
\* long as a choice in force would change it, and for two seconds at most.
PrepareRequest ==
  /\ Doing("prepare")
  /\ IF staged = "appended" THEN Confirm /\ UNCHANGED host ELSE UNCHANGED session
  /\ Advance([req EXCEPT !.pc = "wait"])

Eligible == {s \in DOMAIN Decisions : Decisions[s] # "keep" /\ OnWire(s)
  /\ ~\E u \in Use : Keeps(u) /\ judged[u].epoch = epoch /\ Overlap(s, At(u))}
Needs == staged # "no" /\ req.human = input + 1 /\ req.epoch = epoch /\ Usable /\ Eligible # {}

DeadlinePasses == Doing("wait") /\ ~req.late /\ Step([req EXCEPT !.late = TRUE])
EndWaitIfReady == Doing("wait") /\ ~Needs /\ Go("inspect")   \* mutant: no deadline
EndWait == Doing("wait") /\ (~Needs \/ req.late) /\ Go("inspect")
RowSeen == Doing("wait") /\ Needs /\ ~req.late /\ staged = "appended" /\ Go("prepare")

\* The first reads only find where the two kinds of judgments conflict.
InspectChoices ==
  /\ Doing("inspect")
  /\ IF InForce = {} \/ \A u \in Use : judged[u] = NoUse
       THEN Go("manual")
       ELSE Step([req EXCEPT !.pc = "uses", !.view = {<<s, Decisions[s]>> : s \in InForce}])

InspectUses ==
  /\ Doing("uses")
  /\ LET Conflict(c, u) == Overlap(c[1], At(u)) /\ u \in Authentic
     IN Step([req EXCEPT !.pc = "manual", !.view = {},
          !.heldUses = {u \in Use : ~Keeps(u) /\ \E c \in req.view : c[2] = "keep" /\ Conflict(c, u)},
          !.heldScopes = {c[1] : c \in {c \in req.view : c[2] # "keep"
                                          /\ \E u \in Use : Keeps(u) /\ Conflict(c, u)}}])

ChangeChoicesAnyway ==      \* mutant: a conflict does not hold a choice back
  /\ Doing("manual")
  /\ Step([req EXCEPT !.pc = "apply", !.scopes = Changeable])

ChangeChoices ==
  /\ Doing("manual")
  /\ Step([req EXCEPT !.pc = "apply", !.scopes = Changeable \ req.heldScopes])

\* A use whose object is no longer in the request is left out.
ChangeUses ==
  /\ Doing("apply")
  /\ Step([req EXCEPT !.pc = "send",
             !.uses = {u \in Authentic \ req.heldUses :
                         ~Keeps(u) /\ \A s \in req.scopes : ~Overlap(s, At(u))}])

\* If the ledger cannot be read the request goes out as it came.
StorageFails ==
  /\ req.pc \in {"prepare", "inspect", "uses", "manual", "apply"}
  /\ Step([req EXCEPT !.pc = "send", !.scopes = {}, !.uses = {}])

\* A Claude request whose earlier turns are signed goes out as it came as well, or with a policy for
\* the server (ServerClearing).
PrefixSigned ==
  /\ host = "claude" /\ req.pc \in {"inspect", "uses", "manual", "apply"}
  /\ Step([req EXCEPT !.pc = "send", !.scopes = {}, !.uses = {}])

Send == Doing("send") /\ req' = NoRequest /\ kept' = {} /\ allowed' = {} /\ moved' = FALSE
        /\ UNCHANGED <<session, calls, epoch, records, counters>>

Gateway ==
  \/ PrepareRequest \/ EndWait \/ RowSeen \/ InspectChoices \/ InspectUses \/ ChangeChoices
  \/ ChangeUses \/ Send

Next ==
  \/ StageInput \/ AppendRow \/ HookConfirms \/ Rewrite
  \/ \E r \in Record : CallProceeds(r)
  \/ \E new \in New : PublishCodex(new) \/ PublishClaude(new)
  \/ \E u \in Use, r \in Record : RecordUse(u, r)
  \/ \E u \in Use, j \in Judgments : JudgeUse(u, j)
  \/ \E W \in SUBSET Record : StartRequest(W)
  \/ DeadlinePasses \/ StorageFails \/ PrefixSigned \/ Gateway

\* The gateway's threads run and time passes; nothing else has to happen.
Spec == Init /\ [][Next]_vars /\ WF_vars(Gateway) /\ WF_vars(DeadlinePasses)
-----------------------------------------------------------------------------
(* Properties.                                                                *)

\* What either kind of judgment keeps during the whole of a request is forwarded unchanged, unless
\* a publication, a judgment or the confirmation of an input came between the reads that find the
\* conflicts and those that make the changes (select_request reads each of them twice).
KeepProtects ==
  Doing("send") /\ ~moved =>
    \A b \in kept : /\ \A s \in req.scopes : ~Overlap(s, b)
                   /\ \A u \in req.uses : At(u) # b

\* A request is changed only where a judgment in force at some moment of it allowed, while the
\* latest confirmed input was the one the request answers: a judgment never reaches a request of
\* an earlier input. And nothing is changed twice (_select_manual_request, select_uses).
ChangedAsJudged ==
  Doing("send") => /\ req.scopes \cup req.uses \subseteq allowed
                   /\ \A s \in req.scopes, u \in req.uses : ~Overlap(s, At(u))

\* The publications and the references by which an update retains earlier choices implement one
\* function from scopes to judgments (_codex_update_retained, _codex_decisions).
Asked == IF current = 0 THEN [mode |-> "none", new |-> NoChoices]
         ELSE [mode |-> published[current].mode, new |-> published[current].selected]
Selection == INSTANCE AbstractSelection WITH chosen <- Decisions, asked <- Asked, Judgment <- Judgments
SelectionRefined == Selection!Spec

\* Every request is forwarded in the end, also when the row it waits for never comes
\* (prepare_native_request).
RequestEnds == Active ~> ~Active
=============================================================================
