--------------------------- MODULE SessionLedger ---------------------------
(***************************************************************************)
(* The ledger of one session: session_intent_ledger.py with the transcript *)
(* reader of _shared/native_transcript.py and the calls that hooks and     *)
(* agents make.                                                            *)
(*                                                                         *)
(* A prompt reaches the ledger twice.  The UserPromptSubmit hook stages it *)
(* (Claude) or records it as the user's input (Codex).  For Claude the     *)
(* origin is only known from the row that the host appends to the          *)
(* transcript, before or after the hook ran, or never: reconcile resolves  *)
(* the staged inputs, in order, in one SQLite transaction.  Meanwhile      *)
(* agents read the ledger and write intent changes and response routes     *)
(* from what they read.                                                    *)
(*                                                                         *)
(* db is the committed state and txn the open write transaction (BEGIN     *)
(* IMMEDIATE admits one); a transaction that has no loop and reads nothing *)
(* but the database is one step.  The semantic fields of the ledger        *)
(* (goals, criteria, decisions, work units) are not told apart.            *)
(***************************************************************************)
EXTENDS Naturals, Sequences, FiniteSets, SequencesExt

CONSTANTS
  Sub,           \* prompt submissions; also the identity of the staged input and of its prompt
  Text,          \* what a prompt says
  Writer,        \* agent calls that read the ledger and later write to it
  Hook,          \* PreToolUse and Stop hooks that may show a notice
  Errors,        \* what a reconcile may raise
  Old,           \* the input of an imported JSON session
  None,          \* nothing
  MaxRevision,   \* MAX_SHARED_INTEGER, the last ledger revision
  NoticeLimit,   \* NOTIFIED_CAUSE_LIMIT
  Hosts          \* the hosts considered, see HostKind

Fault == {"replaced", "unreadable", "unhooked", "rollback", "imported"}
Actor == {"human", "sdk", "context", "notification", "unknown"}

(* platform: whose hooks run.  origins: the actors that its rows may have. *)
(* tags: whether it tags a row with its prompt, or may do both.  faults:   *)
(* what may go wrong.  hooks: the hooks that show notices.                 *)
HostKind == [platform : {"claude", "codex"}, origins : SUBSET Actor, tags : SUBSET BOOLEAN,
             faults : SUBSET Fault, hooks : SUBSET Hook]

Cause == {"row-not-found", "row-ambiguous", "transcript-unavailable", "unknown-actor"}

ASSUME LedgerAssumption ==
  /\ Hosts \subseteq HostKind
  /\ MaxRevision \in Nat \ {0, 1, 2} /\ NoticeLimit \in Nat
  /\ Old \notin Sub /\ None \notin Sub \cup Errors /\ None # Old

(* NOTIFIED_CAUSE_LIMIT is 32, far above the number of causes.             *)
ASSUME NoticeAssumption == NoticeLimit >= 4

VARIABLES
  host,        \* which host it is
  db,          \* the committed state of the session, or None
  txn,         \* the open transaction of a reconcile, or None
  text,        \* what each submission says
  transcript,  \* the transcript file: which file it is, and its rows
  appended,    \* submissions whose row the host wrote
  hook,        \* how far the UserPromptSubmit hook of each submission is, with what it captured
  snap,        \* what each agent call read
  peeked,      \* hooks that found a notice due
  raised       \* errors of failed reconciles that their hooks have yet to record

vars == <<host, db, txn, text, transcript, appended, hook, snap, peeked, raised>>

Platform == host.platform
Origins == host.origins
Tags == host.tags
Faults == host.faults

Input == Sub \cup {Old}
EventName == {"native-input-staged", "native-input-resolved", "native-input-superseded",
              "native-input-waiting", "native-input-notice", "native-intake-failed",
              "user-input-observed", "intent-updated", "response-route-recorded",
              "acceptance-criteria-ownership-bound"}

(* An audit event with the fields that the code below reads or that tell   *)
(* two events apart.  base is the revision an agent passed as expected.    *)
Event == [event : EventName, about : Input \cup Errors \cup {None}, actor : Actor \cup {None},
          row : [file : Nat, at : Nat], cause : Cause \cup {None}, by : Sub \cup {None},
          base : Nat \cup {None}]

Note(event, about) ==
  [event |-> event, about |-> about, actor |-> None, row |-> [file |-> 0, at |-> 0],
   cause |-> None, by |-> None, base |-> None]

(* A position in the transcript at which its staged row must not yet be.   *)
(* File 0 is the missing file; None a transcript that could not be read.   *)
Boundary == [file : Nat, offset : Nat] \cup {None}
Staged == [sub : Sub, boundary : Boundary]

Session ==
  [revision : 0 .. MaxRevision, latest : Input \cup {None}, context : Sub \cup {None},
   canonical : [input : Input, sequence : Nat] \cup {None},
   route : [ready : BOOLEAN, input : Input] \cup {None},
   pending : Seq(Staged), cursor : [0 .. 2 -> Nat],
   waiting : [sub : Sub, cause : Cause] \cup {None}, notified : Seq(Cause),
   status : {"pending", "pending-native-origin", "observed", "context-only"},
   failure : Errors \cup {None}, intakes : SUBSET Sub, imported : Nat, events : Seq(Event)]

(* Nothing is not one of the values it stands beside.                      *)
ASSUME NoneAssumption == None \notin Nat \cup Actor \cup Cause \cup Session \cup [ready : BOOLEAN, input : Input]

TypeOK ==
  /\ host \in Hosts
  /\ db \in Session \cup {None}
  /\ txn \in [work : Session, rows : Seq([sub : Sub, actor : Actor, tagged : BOOLEAN]), file : 0 .. 2] \cup {None}
  /\ text \in [Sub -> Text]
  /\ transcript \in [file : 0 .. 2, rows : Seq([sub : Sub, actor : Actor, tagged : BOOLEAN])]
  /\ appended \subseteq Sub
  /\ hook \in [Sub -> [at : {"new", "captured", "done"}, boundary : Boundary]]
  /\ snap \in [Writer -> [at : {"new", "read", "done"}, input : Input \cup {None}, revision : Nat]]
  /\ peeked \subseteq Hook
  /\ raised \subseteq Errors

NewSession ==
  [revision |-> 0, latest |-> None, context |-> None, canonical |-> None, route |-> None,
   pending |-> <<>>, cursor |-> [f \in 0 .. 2 |-> 0], waiting |-> None, notified |-> <<>>,
   status |-> "pending", failure |-> None, intakes |-> {}, imported |-> 0, events |-> <<>>]

(* A session of the JSON era, which carries a ready route of its own.      *)
JsonSession ==
  [NewSession EXCEPT !.revision = 1, !.latest = Old, !.status = "observed",
     !.route = [ready |-> TRUE, input |-> Old], !.events = <<Note("user-input-observed", Old)>>]

(* What a reader finds before the first write. *)
Portable == IF "imported" \in Faults THEN JsonSession ELSE NewSession

Init ==
  /\ host \in Hosts
  /\ db = None
  /\ txn = None
  /\ text \in [Sub -> Text]
  /\ transcript = [file |-> 0, rows |-> <<>>]
  /\ appended = {}
  /\ hook = [s \in Sub |-> [at |-> "new", boundary |-> None]]
  /\ snap = [w \in Writer |-> [at |-> "new", input |-> None, revision |-> 0]]
  /\ peeked = {}
  /\ raised = {}

----------------------------------------------------------------------------
(* The database *)

(* _load_state_for_update: a session that is not in the database yet is    *)
(* imported, and what it carries establishes no authority.                 *)
Loaded ==
  IF db # None THEN db
  ELSE [Portable EXCEPT !.imported = Len(Portable.events),
          !.route = IF @ = None THEN None ELSE [@ EXCEPT !.ready = FALSE]]

(* _commit: the next revision with its audit event. *)
Commit(d, event) == [d EXCEPT !.revision = @ + 1, !.events = Append(@, event)]

Room(d, n) == d.revision + n <= MaxRevision

(* The audit event at sequence n is the observation of input i. *)
Observed(d, n, i) ==
  n \in DOMAIN d.events /\ d.events[n].event = "user-input-observed" /\ d.events[n].about = i

(* _canonical_input_bound: the record of the current intake, or one audit  *)
(* event newer than the record or than the import, binds the input.        *)
CanonicalBound(d) ==
  /\ d.pending = <<>> /\ d.context = None /\ d.latest # None
  /\ IF d.canonical # None /\ d.canonical.input = d.latest
       THEN Observed(d, d.canonical.sequence, d.latest)
       ELSE \E n \in DOMAIN d.events :
              /\ \A k \in DOMAIN d.events : Observed(d, k, d.latest) <=> k = n
              /\ IF d.canonical # None
                   THEN n > d.canonical.sequence /\ Observed(d, d.canonical.sequence, d.canonical.input)
                   ELSE n > d.imported

(* Mutant of Expected: the revision is not compared. *)
ExpectedAtAnyRevision(d, input, revision, newInput) ==
  /\ d.pending = <<>>
  /\ d.context = None
  /\ d.latest # None /\ ~newInput => input # None
  /\ input # None => input = d.latest

(* _check_expected: the ledger is as the caller read it, and open.         *)
Expected(d, input, revision, newInput) ==
  /\ d.pending = <<>>
  /\ d.context = None
  /\ revision # None => revision = d.revision
  /\ d.latest # None /\ ~newInput => input # None
  /\ input # None => input = d.latest

(* Mutant of NewInput: the route of the previous input stays ready. *)
NewInputKeepsRoute(d, s) ==
  LET next == Commit([d EXCEPT !.latest = s, !.context = None,
                        !.status = IF d.pending = <<>> THEN "observed" ELSE "pending-native-origin"],
                     Note("user-input-observed", s))
  IN  [next EXCEPT !.canonical = [input |-> s, sequence |-> Len(next.events)]]

(* _commit_turn with input: s is the user's input, the route of another    *)
(* input is stale, and the intake record points to the new audit event.    *)
NewInput(d, s) ==
  LET next == Commit([d EXCEPT !.latest = s, !.context = None,
                        !.route = IF @ # None /\ @.input # s THEN [@ EXCEPT !.ready = FALSE] ELSE @,
                        !.status = IF d.pending = <<>> THEN "observed" ELSE "pending-native-origin"],
                     Note("user-input-observed", s))
  IN  [next EXCEPT !.canonical = [input |-> s, sequence |-> Len(next.events)]]

----------------------------------------------------------------------------
(* The host and the UserPromptSubmit hook *)

(* The host appends the row of s, which it may tag with the prompt.        *)
AppendRow(s) ==
  /\ Platform = "claude"
  /\ s \notin appended
  /\ \E actor \in Origins, tagged \in Tags :
       transcript' = [file |-> IF transcript.file = 0 THEN 1 ELSE transcript.file,
                      rows |-> Append(transcript.rows, [sub |-> s, actor |-> actor, tagged |-> tagged])]
  /\ appended' = appended \cup {s}
  /\ UNCHANGED <<db, txn, text, hook, snap, peeked, raised>>

(* The transcript becomes another file. *)
ReplaceTranscript ==
  /\ "replaced" \in Faults
  /\ transcript.file = 1
  /\ transcript' = [file |-> 2, rows |-> <<>>]
  /\ UNCHANGED <<db, txn, text, appended, hook, snap, peeked, raised>>

(* capture_append_boundary, before the transaction. *)
Capture(s) ==
  /\ Platform = "claude"
  /\ hook[s].at = "new"
  /\ \E boundary \in {[file |-> transcript.file, offset |-> Len(transcript.rows)]}
                     \cup (IF "unreadable" \in Faults THEN {None} ELSE {}) :
       hook' = [hook EXCEPT ![s] = [at |-> "captured", boundary |-> boundary]]
  /\ UNCHANGED <<db, txn, text, transcript, appended, snap, peeked, raised>>

(* stage_native_input. *)
Stage(s) ==
  /\ hook[s].at = "captured"
  /\ txn = None
  /\ Room(Loaded, 1)
  /\ db' = Commit([Loaded EXCEPT !.pending = Append(@, [sub |-> s, boundary |-> hook[s].boundary]),
                                 !.status = "pending-native-origin"],
                  Note("native-input-staged", s))
  /\ hook' = [hook EXCEPT ![s] = [at |-> "done", boundary |-> None]]
  /\ UNCHANGED <<txn, text, transcript, appended, snap, peeked, raised>>

(* record_turn by the Codex hook: a new input without a delta. *)
Observe(s) ==
  /\ Platform = "codex"
  /\ hook[s].at = "new"
  /\ txn = None
  /\ Expected(Loaded, None, None, TRUE)
  /\ Room(Loaded, 1)
  /\ db' = NewInput(Loaded, s)
  /\ hook' = [hook EXCEPT ![s] = [at |-> "done", boundary |-> None]]
  /\ UNCHANGED <<txn, text, transcript, appended, snap, peeked, raised>>

(* The hook raises, or there is no hook: the input is not recorded; the    *)
(* hook leaves a degrade marker beside the ledger.                         *)
HookFails(s) ==
  /\ "unhooked" \in Faults \/ ~Room(Loaded, 1)
  /\ hook[s].at # "done"
  /\ hook' = [hook EXCEPT ![s] = [at |-> "done", boundary |-> None]]
  /\ UNCHANGED <<db, txn, text, transcript, appended, snap, peeked, raised>>

----------------------------------------------------------------------------
(* native_transcript.locate_staged_input *)

Start(o, cursor, file) == IF o.boundary.offset > cursor[file] THEN o.boundary.offset ELSE cursor[file]

(* Mutant of Matches: rows before the cursor match again. *)
MatchesFromBoundary(o, cursor, t) ==
  {i \in o.boundary.offset + 1 .. Len(t.rows) :
     text[t.rows[i].sub] = text[o.sub] /\ (t.rows[i].tagged => t.rows[i].sub = o.sub)}

(* The rows at or after the boundary and the cursor that carry the text of *)
(* the staged input o and contradict no prompt identity.                   *)
Matches(o, cursor, t) ==
  {i \in Start(o, cursor, t.file) + 1 .. Len(t.rows) :
     text[t.rows[i].sub] = text[o.sub] /\ (t.rows[i].tagged => t.rows[i].sub = o.sub)}

(* The one row of o, or why there is none.  The file must be the one the   *)
(* boundary names, if it names one.                                        *)
Locate(o, cursor, t) ==
  LET why(cause) == [located |-> FALSE, cause |-> cause, actor |-> None, row |-> [file |-> 0, at |-> 0]]
  IN  IF o.boundary = None \/ t.file = 0 THEN why("transcript-unavailable")
      ELSE IF o.boundary.file \notin {0, t.file} THEN why("transcript-unavailable")
      ELSE LET matches == Matches(o, cursor, t)
           IN  IF matches = {} THEN why("row-not-found")
               ELSE IF Cardinality(matches) > 1 THEN why("row-ambiguous")
               ELSE LET i == CHOOSE i \in matches : TRUE
                    IN  [located |-> TRUE, cause |-> "unknown-actor", actor |-> t.rows[i].actor,
                         row |-> [file |-> t.file, at |-> i]]

(* The cursor after a located row. *)
Past(cursor, found) == IF found.located THEN [cursor EXCEPT ![found.row.file] = found.row.at] ELSE cursor

(* Mutant of LaterHuman: rows of the inputs in between are not passed. *)
LaterHumanAnywhere(queue, cursor, t) ==
  LET human == {k \in DOMAIN queue : Locate(queue[k], cursor, t).actor = "human"}
  IN  IF human = {} THEN None ELSE queue[CHOOSE k \in human : \A j \in human : k <= j].sub

(* _later_located_human: the first later staged input whose own row is     *)
(* located and human, given that those before it take their rows.          *)
LaterHuman(queue, cursor, t) ==
  LET look(acc, o) ==
        LET found == Locate(o, acc.cursor, t)
        IN  IF acc.human # None THEN acc
            ELSE IF found.actor = "human" THEN [acc EXCEPT !.human = o.sub]
            ELSE [acc EXCEPT !.cursor = Past(@, found)]
  IN  FoldLeft(look, [cursor |-> cursor, human |-> None], queue).human

----------------------------------------------------------------------------
(* reconcile_native_inputs *)

(* The transaction begins and reads the transcript once.                   *)
BeginReconcile ==
  /\ txn = None
  /\ db # None /\ db.pending # <<>>
  /\ \E file \in {transcript.file} \cup (IF "unreadable" \in Faults THEN {0} ELSE {}) :
       txn' = [work |-> db, rows |-> transcript.rows, file |-> file]
  /\ UNCHANGED <<db, text, transcript, appended, hook, snap, peeked, raised>>

First == txn.work.pending[1]
FirstFound == Locate(First, txn.work.cursor, [file |-> txn.file, rows |-> txn.rows])
FirstKnown == FirstFound.located /\ FirstFound.actor # "unknown"

LaterFound ==
  LaterHuman(Tail(txn.work.pending), Past(txn.work.cursor, FirstFound), [file |-> txn.file, rows |-> txn.rows])

(* _leave_native_input. *)
Left(d, found) ==
  [d EXCEPT !.pending = Tail(@),
            !.cursor = Past(@, found),
            !.waiting = IF @ # None /\ @.sub = d.pending[1].sub THEN None ELSE @]

ResolvedEvent(s, found) ==
  [Note("native-input-resolved", s) EXCEPT !.actor = found.actor, !.row = found.row]

Work(d) == txn' = [txn EXCEPT !.work = d]

InReconcile ==
  /\ txn # None
  /\ txn.work.pending # <<>>
  /\ UNCHANGED <<db, text, transcript, appended, hook, snap, peeked, raised>>

(* A human row promotes its input; the promotion has an event of its own.  *)
ResolveHuman ==
  /\ InReconcile
  /\ FirstFound.actor = "human"
  /\ Room(txn.work, 2)
  /\ Work(Commit(NewInput(Left(txn.work, FirstFound), First.sub), ResolvedEvent(First.sub, FirstFound)))

(* Mutant of Context: the route of the last human input stays ready. *)
ContextKeepsRoute(d, s) == [d EXCEPT !.context = s, !.intakes = @ \cup {s}]

(* An SDK-started turn closes human authority and keeps its original.      *)
Context(d, s) ==
  [d EXCEPT !.context = s, !.intakes = @ \cup {s},
            !.route = IF @ = None THEN None ELSE [@ EXCEPT !.ready = FALSE]]

StatusAfter(d) ==
  IF d.pending # <<>> THEN "pending-native-origin"
  ELSE IF d.context # None THEN "context-only"
  ELSE IF d.latest # None THEN "observed"
  ELSE "pending"

(* Other known actors promote nothing; an app event and a notification     *)
(* keep the human input and its route.                                     *)
ResolveOther ==
  /\ InReconcile
  /\ FirstKnown /\ FirstFound.actor # "human"
  /\ Room(txn.work, 1)
  /\ LET left == Left(txn.work, FirstFound)
         d == IF FirstFound.actor = "sdk" THEN Context(left, First.sub) ELSE left
     IN  Work(Commit([d EXCEPT !.status = StatusAfter(d)], ResolvedEvent(First.sub, FirstFound)))

(* An input without a known actor gives way to a later located human one.  *)
Supersede ==
  /\ InReconcile
  /\ ~FirstKnown
  /\ LaterFound # None
  /\ Room(txn.work, 1)
  /\ Work(Commit(Left(txn.work, FirstFound),
       [Note("native-input-superseded", First.sub) EXCEPT !.by = LaterFound, !.row = FirstFound.row,
                                                          !.cause = FirstFound.cause]))

NewWait(d, s, cause) == d.waiting # [sub |-> s, cause |-> cause]

(* _record_native_wait. *)
Waited(d, s, cause) ==
  Commit([d EXCEPT !.waiting = [sub |-> s, cause |-> cause], !.status = "pending-native-origin"],
         [Note("native-input-waiting", s) EXCEPT !.cause = cause])

(* The first input waits, and with it the queue: the transaction commits.  *)
(* PreToolUse and Stop hooks record the wait (record_wait), the generation *)
(* boundary does not.                                                      *)
CommitWaiting ==
  /\ txn # None /\ txn.work.pending # <<>>
  /\ ~FirstKnown
  /\ LaterFound = None
  /\ \E record_wait \in BOOLEAN :
       IF record_wait /\ NewWait(txn.work, First.sub, FirstFound.cause)
         THEN Room(txn.work, 1) /\ db' = Waited(txn.work, First.sub, FirstFound.cause)
         ELSE db' = txn.work
  /\ txn' = None
  /\ UNCHANGED <<text, transcript, appended, hook, snap, peeked, raised>>

(* Every staged input is resolved: the transaction commits. *)
CommitResolved ==
  /\ txn # None /\ txn.work.pending = <<>>
  /\ db' = txn.work
  /\ txn' = None
  /\ UNCHANGED <<text, transcript, appended, hook, snap, peeked, raised>>

(* A step of the loop raises, as it must when the revision has reached its *)
(* limit, or its process dies: nothing of the transaction remains.         *)
Rollback ==
  /\ txn # None
  /\ \/ "rollback" \in Faults
     \/ /\ txn.work.pending # <<>>
        /\ ~Room(txn.work, IF FirstFound.actor = "human" THEN 2 ELSE 1)
  /\ txn' = None
  /\ raised' \in {raised} \cup {raised \cup {error} : error \in Errors}
  /\ UNCHANGED <<db, text, transcript, appended, hook, snap, peeked>>

(* record_native_intake_failure: a repeat of the same error has no event.  *)
RecordFailure(error) ==
  /\ error \in raised
  /\ txn = None
  /\ IF Loaded.failure = error
       THEN db' = Loaded
       ELSE IF Room(Loaded, 1)
              THEN db' = Commit([Loaded EXCEPT !.failure = error], Note("native-intake-failed", error))
              ELSE UNCHANGED db
  /\ raised' = raised \ {error}
  /\ UNCHANGED <<txn, text, transcript, appended, hook, snap, peeked>>

----------------------------------------------------------------------------
(* claim_native_input_notice *)

(* A wait of the first input whose cause was not shown in this session.    *)
Due(d) ==
  /\ d # None /\ d.waiting # None /\ d.pending # <<>>
  /\ d.pending[1].sub = d.waiting.sub
  /\ d.waiting.cause \notin ToSet(d.notified)

(* The read that needs no write lock. *)
Peek(h) ==
  /\ h \in host.hooks \ peeked
  /\ Due(db)
  /\ peeked' = peeked \cup {h}
  /\ UNCHANGED <<db, txn, text, transcript, appended, hook, snap, raised>>

Newest(causes) == SubSeq(causes, IF Len(causes) > NoticeLimit THEN Len(causes) - NoticeLimit + 1 ELSE 1, Len(causes))

Notified(d) ==
  Commit([d EXCEPT !.notified = Newest(Append(@, d.waiting.cause))],
         [Note("native-input-notice", d.waiting.sub) EXCEPT !.cause = d.waiting.cause])

(* Mutant of Claim: what the read found still holds. *)
ClaimUnchecked(h) ==
  /\ h \in peeked
  /\ txn = None
  /\ IF db.waiting # None /\ Room(db, 1) THEN db' = Notified(db) ELSE UNCHANGED db
  /\ peeked' = peeked \ {h}
  /\ UNCHANGED <<txn, text, transcript, appended, hook, snap, raised>>

(* The write transaction checks again. *)
Claim(h) ==
  /\ h \in peeked
  /\ txn = None
  /\ IF Due(db) /\ Room(db, 1) THEN db' = Notified(db) ELSE UNCHANGED db
  /\ peeked' = peeked \ {h}
  /\ UNCHANGED <<txn, text, transcript, appended, hook, snap, raised>>

----------------------------------------------------------------------------
(* Agents *)

View == IF db # None THEN db ELSE Portable

(* read_session_state: the committed state, also while a transaction runs. *)
Read(w) ==
  /\ snap[w].at = "new"
  /\ snap' = [snap EXCEPT ![w] = [at |-> "read", input |-> View.latest, revision |-> View.revision]]
  /\ UNCHANGED <<db, txn, text, transcript, appended, hook, peeked, raised>>

Wrote(w) ==
  /\ snap[w].at = "read"
  /\ txn = None
  /\ snap' = [snap EXCEPT ![w] = [at |-> "done", input |-> None, revision |-> 0]]
  /\ UNCHANGED <<txn, text, transcript, appended, hook, peeked, raised>>

AgentEvent(event, w, base) == [Note(event, snap[w].input) EXCEPT !.base = base]

(* record_turn with a delta.  The expected revision is optional. *)
WriteDelta(w) ==
  /\ Wrote(w)
  /\ \E revision \in {None, snap[w].revision} :
       /\ Expected(Loaded, snap[w].input, revision, FALSE)
       /\ Room(Loaded, 1)
       /\ db' = Commit([Loaded EXCEPT !.status = "observed"], AgentEvent("intent-updated", w, revision))

(* record_response_route: it takes the input but no revision. *)
WriteRoute(w) ==
  /\ Wrote(w)
  /\ db # None /\ snap[w].input # None
  /\ CanonicalBound(db)
  /\ Expected(db, snap[w].input, None, FALSE)
  /\ Room(db, 1)
  /\ LET seq == CHOOSE n \in DOMAIN db.events : Observed(db, n, db.latest)
     IN  db' = Commit([db EXCEPT !.route = [ready |-> TRUE, input |-> db.latest],
                                 !.canonical = [input |-> db.latest, sequence |-> seq]],
                      AgentEvent("response-route-recorded", w, None))

(* bind_legacy_acceptance_criteria: the revision is required. *)
BindCriteria(w) ==
  /\ Wrote(w)
  /\ db # None /\ snap[w].input # None
  /\ CanonicalBound(db)
  /\ Expected(db, snap[w].input, snap[w].revision, FALSE)
  /\ Room(db, 1)
  /\ db' = Commit(db, AgentEvent("acceptance-criteria-ownership-bound", w, snap[w].revision))

(* The write is refused, for its input, its revision or its own contents,  *)
(* or is never made.                                                       *)
Refused(w) ==
  /\ Wrote(w)
  /\ UNCHANGED db

(* migrate_session. *)
Migrate ==
  /\ txn = None
  /\ db = None
  /\ db' = Loaded
  /\ UNCHANGED <<txn, text, transcript, appended, hook, snap, peeked, raised>>

(* Between transactions the session may stop for ever. *)
Idle ==
  /\ txn = None
  /\ UNCHANGED vars

----------------------------------------------------------------------------

HostStep(s) == AppendRow(s) \/ Capture(s) \/ Stage(s) \/ Observe(s) \/ HookFails(s)
Reconcile ==
  BeginReconcile \/ ResolveHuman \/ ResolveOther \/ Supersede \/ CommitWaiting \/ CommitResolved
AgentStep(w) == Read(w) \/ WriteDelta(w) \/ WriteRoute(w) \/ BindCriteria(w) \/ Refused(w)

Step ==
  \/ \E s \in Sub : HostStep(s)
  \/ ReplaceTranscript
  \/ Reconcile \/ Rollback
  \/ \E error \in Errors : RecordFailure(error)
  \/ \E h \in Hook : Peek(h) \/ Claim(h)
  \/ \E w \in Writer : AgentStep(w)
  \/ Migrate
  \/ Idle

Next == Step /\ UNCHANGED host

Spec == Init /\ [][Next]_vars

----------------------------------------------------------------------------

Audit == IF db = None THEN <<>> ELSE db.events
Is(e, names) == e.event \in names

(* An agent that names the revision it read overwrites nobody: its write   *)
(* is the next revision.                                                   *)
NoLostUpdate ==
  /\ db # None => db.revision = Len(db.events)
  /\ \A j \in DOMAIN Audit : Audit[j].base # None => Audit[j].base = j - 1

(* A ready route belongs to the input that is the user's latest, with no   *)
(* SDK turn after it.                                                      *)
RouteIsCurrent ==
  db # None /\ db.route # None /\ db.route.ready => db.route.input = db.latest /\ db.context = None

(* Every transcript row settles at most one staged input, and the inputs   *)
(* take their rows in the order of the transcript, over any number of      *)
(* reconciles, whichever inputs have the same text.                        *)
RowsOnce ==
  \A i, j \in DOMAIN Audit :
    i < j /\ Audit[i].row.at # 0 /\ Audit[j].row.file = Audit[i].row.file => Audit[i].row.at < Audit[j].row.at

(* An input is superseded only by a human input that does become the       *)
(* user's latest: the look ahead of _later_located_human finds what the    *)
(* loop then resolves.                                                     *)
SupersededByHuman ==
  \A i \in DOMAIN Audit : Is(Audit[i], {"native-input-superseded"}) =>
    \E k \in i + 1 .. Len(Audit) : Is(Audit[k], {"user-input-observed"}) /\ Audit[k].about = Audit[i].by

(* The user sees one notice per session and cause, however many hooks run  *)
(* at once.                                                                *)
NoticeOnce ==
  \A i, j \in DOMAIN Audit :
    Is(Audit[i], {"native-input-notice"}) /\ Is(Audit[j], {"native-input-notice"})
      /\ Audit[i].cause = Audit[j].cause => i = j

(* Seen from outside, the ledger is the register of AbstractAuthority,     *)
(* which is open when the intake status that consumers read says so.       *)
Authority == INSTANCE AbstractAuthority WITH
  current <- View.latest,
  open <- View.status \notin {"pending-native-origin", "context-only"},
  ready <- IF db # None /\ db.route # None /\ db.route.ready THEN db.route.input ELSE None,
  past <- {e.about : e \in {View.events[n] : n \in {k \in DOMAIN View.events : Observed(View, k, View.events[k].about)}}}

AuthorityRefined == Authority!Spec
=============================================================================
