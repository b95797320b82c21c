------------------------ MODULE SessionLedger_proofs ------------------------
(***************************************************************************)
(* The ledger for any number of submissions, agents and hooks, any texts   *)
(* and any transcript: a ready route is the route of the latest input      *)
(* (RouteInv), no update is lost, rows settle once and in order, what is   *)
(* superseded has its human successor and a notice is shown once (LogInv), *)
(* and the ledger implements AbstractAuthority (IntakeInv).                *)
(*                                                                         *)
(* The invariants hold for the open transaction too: a reconcile changes   *)
(* the latest input, the SDK turn and the route in several commits of its  *)
(* own, and any of them may be the last before the transaction commits.    *)
(***************************************************************************)
EXTENDS SessionLedger, SequenceTheorems, WellFoundedInduction, TLAPS

Fields == {"revision", "latest", "context", "canonical", "route", "pending", "cursor", "waiting",
           "notified", "status", "failure", "intakes", "imported", "events"}

(* A session whose ready route is current. *)
RouteHolds(d) ==
  /\ DOMAIN d = Fields
  /\ d.route # None => DOMAIN d.route = {"ready", "input"}
  /\ d.route # None /\ d.route.ready => d.route.input = d.latest /\ d.context = None

RouteInv ==
  /\ db # None => RouteHolds(db)
  /\ txn # None => DOMAIN txn = {"work", "rows", "file"} /\ RouteHolds(txn.work)

----------------------------------------------------------------------------

(* A change of the fields that the invariant does not mention keeps it. *)
Quiet(d, e) ==
  /\ DOMAIN e = DOMAIN d
  /\ e.route = d.route /\ e.latest = d.latest /\ e.context = d.context

LEMMA QuietKeeps ==
  ASSUME NEW d, NEW e, RouteHolds(d), Quiet(d, e)
  PROVE  RouteHolds(e)
  BY DEF RouteHolds, Quiet

LEMMA CommitIsQuiet ==
  ASSUME NEW d, NEW event, DOMAIN d = Fields
  PROVE  Quiet(d, Commit(d, event)) /\ DOMAIN Commit(d, event) = Fields
  BY DEF Quiet, Commit, Fields

(* Migration never makes a route ready: Portable is imported with its      *)
(* route stale.                                                            *)
LEMMA LoadedHolds ==
  ASSUME db # None => RouteHolds(db)
  PROVE  RouteHolds(Loaded)
<1>1. CASE db # None
  BY <1>1 DEF Loaded
<1>2. CASE db = None
  <2>1. DOMAIN Portable = Fields /\ (Portable.route # None => DOMAIN Portable.route = {"ready", "input"})
    BY DEF Portable, JsonSession, NewSession, Fields
  <2>2. DOMAIN Loaded = Fields
    BY <1>2, <2>1 DEF Loaded
  <2>3. Loaded.route = IF Portable.route = None THEN None ELSE [Portable.route EXCEPT !.ready = FALSE]
    BY <1>2, <2>1 DEF Loaded, Fields
  <2>. QED
    BY <2>1, <2>2, <2>3 DEF RouteHolds
<1>. QED
  BY <1>1, <1>2

LEMMA NewInputHolds ==
  ASSUME NEW d, NEW s, RouteHolds(d)
  PROVE  RouteHolds(NewInput(d, s))
<1> DEFINE e == [d EXCEPT !.latest = s, !.context = None,
                   !.route = IF @ # None /\ @.input # s THEN [@ EXCEPT !.ready = FALSE] ELSE @,
                   !.status = IF d.pending = <<>> THEN "observed" ELSE "pending-native-origin"]
           n == Commit(e, Note("user-input-observed", s))
<1>1. DOMAIN e = Fields /\ e.latest = s /\ e.context = None
        /\ e.route = IF d.route # None /\ d.route.input # s THEN [d.route EXCEPT !.ready = FALSE] ELSE d.route
  BY DEF RouteHolds, Fields
<1>2. RouteHolds(e)
  BY <1>1 DEF RouteHolds
<1>3. Quiet(e, n) /\ DOMAIN n = Fields
  BY <1>1, CommitIsQuiet
<1>4. RouteHolds(n)
  BY <1>2, <1>3, QuietKeeps
<1>5. Quiet(n, [n EXCEPT !.canonical = [input |-> s, sequence |-> Len(n.events)]])
  BY <1>3 DEF Quiet, Fields
<1>. QED
  BY <1>4, <1>5, QuietKeeps DEF NewInput

LEMMA LeftIsQuiet ==
  ASSUME NEW d, NEW found, DOMAIN d = Fields
  PROVE  Quiet(d, Left(d, found)) /\ DOMAIN Left(d, found) = Fields
  BY DEF Quiet, Left, Fields

LEMMA ContextHolds ==
  ASSUME NEW d, NEW s, RouteHolds(d)
  PROVE  RouteHolds(Context(d, s))
<1>1. DOMAIN Context(d, s) = Fields
  BY DEF Context, RouteHolds
<1>2. Context(d, s).route = IF d.route = None THEN None ELSE [d.route EXCEPT !.ready = FALSE]
  BY DEF Context, RouteHolds, Fields
<1>. QED
  BY <1>1, <1>2 DEF RouteHolds

----------------------------------------------------------------------------

LEMMA InitHolds == Init => RouteInv
  BY DEF Init, RouteInv

(* The steps of a reconcile work on a ledger that holds. *)
LEMMA ReconcileKeeps ==
  ASSUME RouteInv, Reconcile
  PROVE  RouteInv'
<1>1. CASE BeginReconcile
  BY <1>1 DEF BeginReconcile, RouteInv
<1>2. ASSUME NEW d, InReconcile, Work(d), RouteHolds(d)
      PROVE  RouteInv'
  <2>1. db' = db /\ txn' = [txn EXCEPT !.work = d] /\ DOMAIN txn = {"work", "rows", "file"}
    BY <1>2 DEF InReconcile, Work, RouteInv
  <2>2. DOMAIN txn' = {"work", "rows", "file"} /\ txn'.work = d
    BY <2>1
  <2>. QED
    BY <1>2, <2>1, <2>2 DEF RouteInv, RouteHolds
<1>3. ASSUME InReconcile
      PROVE  RouteHolds(txn.work) /\ RouteHolds(Left(txn.work, FirstFound))
  <2>1. RouteHolds(txn.work) /\ DOMAIN txn.work = Fields
    BY <1>3 DEF InReconcile, RouteInv, RouteHolds
  <2>. QED
    BY <2>1, LeftIsQuiet, QuietKeeps
<1>4. CASE ResolveHuman
  <2> DEFINE n == NewInput(Left(txn.work, FirstFound), First.sub)
  <2>1. InReconcile /\ Work(Commit(n, ResolvedEvent(First.sub, FirstFound)))
    BY <1>4 DEF ResolveHuman
  <2>2. RouteHolds(n)
    BY <2>1, <1>3, NewInputHolds
  <2>3. RouteHolds(Commit(n, ResolvedEvent(First.sub, FirstFound)))
    BY <2>2, CommitIsQuiet, QuietKeeps DEF RouteHolds
  <2>. QED
    BY <2>1, <2>3, <1>2
<1>5. CASE ResolveOther
  <2> DEFINE left == Left(txn.work, FirstFound)
             d == IF FirstFound.actor = "sdk" THEN Context(left, First.sub) ELSE left
             e == [d EXCEPT !.status = StatusAfter(d)]
  <2>1. InReconcile /\ Work(Commit(e, ResolvedEvent(First.sub, FirstFound)))
    BY <1>5 DEF ResolveOther
  <2>2. RouteHolds(d)
    BY <2>1, <1>3, ContextHolds
  <2>3. Quiet(d, e) /\ DOMAIN e = Fields
    BY <2>2 DEF Quiet, RouteHolds, Fields
  <2>4. RouteHolds(e)
    BY <2>2, <2>3, QuietKeeps
  <2>5. RouteHolds(Commit(e, ResolvedEvent(First.sub, FirstFound)))
    BY <2>3, <2>4, CommitIsQuiet, QuietKeeps
  <2>. QED
    BY <2>1, <2>5, <1>2
<1>6. CASE Supersede
  <2> DEFINE event == [Note("native-input-superseded", First.sub) EXCEPT
                         !.by = LaterFound, !.row = FirstFound.row, !.cause = FirstFound.cause]
  <2>1. InReconcile /\ Work(Commit(Left(txn.work, FirstFound), event))
    BY <1>6 DEF Supersede
  <2>2. RouteHolds(Commit(Left(txn.work, FirstFound), event))
    BY <2>1, <1>3, CommitIsQuiet, QuietKeeps DEF RouteHolds
  <2>. QED
    BY <2>1, <2>2, <1>2
<1>7. CASE CommitWaiting
  <2>1. RouteHolds(txn.work) /\ txn' = None
    BY <1>7 DEF CommitWaiting, RouteInv
  <2>2. RouteHolds(Waited(txn.work, First.sub, FirstFound.cause))
    <3> DEFINE d == [txn.work EXCEPT !.waiting = [sub |-> First.sub, cause |-> FirstFound.cause],
                                     !.status = "pending-native-origin"]
    <3>1. Quiet(txn.work, d) /\ DOMAIN d = Fields
      BY <2>1 DEF Quiet, RouteHolds, Fields
    <3>2. RouteHolds(d)
      BY <2>1, <3>1, QuietKeeps
    <3> DEFINE event == [Note("native-input-waiting", First.sub) EXCEPT !.cause = FirstFound.cause]
    <3>3. RouteHolds(Commit(d, event))
      <4> HIDE DEF d, event
      <4>. QED
        BY <3>1, <3>2, CommitIsQuiet, QuietKeeps
    <3>. QED
      BY <3>3 DEF Waited
  <2>3. db' = txn.work \/ db' = Waited(txn.work, First.sub, FirstFound.cause)
    BY <1>7 DEF CommitWaiting
  <2>. QED
    BY <2>1, <2>2, <2>3 DEF RouteInv, RouteHolds
<1>8. CASE CommitResolved
  BY <1>8 DEF CommitResolved, RouteInv, RouteHolds
<1>. QED
  BY <1>1, <1>4, <1>5, <1>6, <1>7, <1>8 DEF Reconcile

(* A step that leaves the transaction alone keeps the invariant if the     *)
(* ledger it leaves holds.                                                 *)
LEMMA DbStep ==
  ASSUME RouteInv, txn' = txn, db' = db \/ RouteHolds(db')
  PROVE  RouteInv'
  BY DEF RouteInv, RouteHolds

(* The commit of a ledger in which nothing of the route changed. *)
LEMMA QuietCommit ==
  ASSUME NEW d, NEW e, NEW event, RouteHolds(d), Quiet(d, e)
  PROVE  RouteHolds(Commit(e, event))
  BY QuietKeeps, CommitIsQuiet DEF RouteHolds

LEMMA HostKeeps ==
  ASSUME RouteInv, NEW s \in Sub, HostStep(s)
  PROVE  RouteInv'
<1>1. RouteHolds(Loaded)
  BY LoadedHolds DEF RouteInv
<1>2. CASE Stage(s)
  <2> DEFINE e == [Loaded EXCEPT !.pending = Append(@, [sub |-> s, boundary |-> hook[s].boundary]),
                                 !.status = "pending-native-origin"]
  <2>1. db' = Commit(e, Note("native-input-staged", s)) /\ txn' = txn
    BY <1>2 DEF Stage
  <2>2. Quiet(Loaded, e)
    BY <1>1 DEF Quiet, RouteHolds, Fields
  <2>. QED
    BY <1>1, <2>1, <2>2, QuietCommit, DbStep
<1>3. CASE Observe(s)
  BY <1>1, <1>3, NewInputHolds, DbStep DEF Observe
<1>4. CASE AppendRow(s) \/ Capture(s) \/ HookFails(s)
  BY <1>4, DbStep DEF AppendRow, Capture, HookFails
<1>. QED
  BY <1>2, <1>3, <1>4 DEF HostStep

LEMMA NoticeKeeps ==
  ASSUME RouteInv, NEW h \in Hook, Peek(h) \/ Claim(h)
  PROVE  RouteInv'
<1>1. CASE Peek(h)
  BY <1>1, DbStep DEF Peek
<1>2. CASE Claim(h)
  <2>1. txn' = txn /\ (db' = db \/ (Due(db) /\ db' = Notified(db)))
    BY <1>2 DEF Claim
  <2>2. ASSUME Due(db) PROVE RouteHolds(Notified(db))
    <3>1. RouteHolds(db)
      BY <2>2 DEF Due, RouteInv
    <3>2. Quiet(db, [db EXCEPT !.notified = Newest(Append(@, db.waiting.cause))])
      BY <3>1 DEF Quiet, RouteHolds, Fields
    <3>. QED
      BY <3>1, <3>2, QuietCommit DEF Notified
  <2>. QED
    BY <2>1, <2>2, DbStep
<1>. QED
  BY <1>1, <1>2

LEMMA AgentKeeps ==
  ASSUME RouteInv, NEW w \in Writer, AgentStep(w)
  PROVE  RouteInv'
<1>1. RouteHolds(Loaded)
  BY LoadedHolds DEF RouteInv
<1>2. CASE Read(w) \/ Refused(w)
  BY <1>2, DbStep DEF Read, Refused, Wrote
<1>3. CASE WriteDelta(w)
  <2>1. PICK revision \in {None, snap[w].revision} :
          db' = Commit([Loaded EXCEPT !.status = "observed"], AgentEvent("intent-updated", w, revision))
    BY <1>3 DEF WriteDelta
  <2>2. Quiet(Loaded, [Loaded EXCEPT !.status = "observed"])
    BY <1>1 DEF Quiet, RouteHolds, Fields
  <2>3. txn' = txn
    BY <1>3 DEF WriteDelta, Wrote
  <2>. QED
    BY <1>1, <2>1, <2>2, <2>3, QuietCommit, DbStep
<1>4. CASE WriteRoute(w)
  <2>1. PICK seq :
          db' = Commit([db EXCEPT !.route = [ready |-> TRUE, input |-> db.latest],
                                  !.canonical = [input |-> db.latest, sequence |-> seq]],
                       AgentEvent("response-route-recorded", w, None))
    BY <1>4 DEF WriteRoute
  <2> DEFINE e == [db EXCEPT !.route = [ready |-> TRUE, input |-> db.latest],
                             !.canonical = [input |-> db.latest, sequence |-> seq]]
  <2>2. RouteHolds(db) /\ db.context = None /\ txn' = txn
    BY <1>4 DEF WriteRoute, Wrote, RouteInv, Expected
  <2>3. DOMAIN e = Fields /\ e.route = [ready |-> TRUE, input |-> db.latest] /\ e.latest = db.latest
          /\ e.context = None
    BY <2>2 DEF RouteHolds, Fields
  <2>4. RouteHolds(e)
    BY <2>3 DEF RouteHolds
  <2>5. Quiet(e, e)
    BY DEF Quiet
  <2>. QED
    BY <2>1, <2>2, <2>4, <2>5, QuietCommit, DbStep
<1>5. CASE BindCriteria(w)
  <2>1. RouteHolds(db) /\ txn' = txn /\ Quiet(db, db)
          /\ db' = Commit(db, AgentEvent("acceptance-criteria-ownership-bound", w, snap[w].revision))
    BY <1>5 DEF BindCriteria, Wrote, RouteInv, Quiet
  <2>. QED
    BY <2>1, QuietCommit, DbStep
<1>. QED
  BY <1>2, <1>3, <1>4, <1>5 DEF AgentStep

LEMMA FailureKeeps ==
  ASSUME RouteInv, NEW error \in Errors, RecordFailure(error)
  PROVE  RouteInv'
<1>1. RouteHolds(Loaded)
  BY LoadedHolds DEF RouteInv
<1>2. Quiet(Loaded, [Loaded EXCEPT !.failure = error])
  BY <1>1 DEF Quiet, RouteHolds, Fields
<1>3. RouteHolds(Commit([Loaded EXCEPT !.failure = error], Note("native-intake-failed", error)))
  BY <1>1, <1>2, QuietCommit
<1>. QED
  BY <1>1, <1>3, DbStep DEF RecordFailure

LEMMA NextRoute ==
  ASSUME RouteInv, [Next]_vars
  PROVE  RouteInv'
<1>1. CASE \E s \in Sub : HostStep(s)
  BY <1>1, HostKeeps
<1>2. CASE ReplaceTranscript
  BY <1>2, DbStep DEF ReplaceTranscript
<1>3. CASE Reconcile
  BY <1>3, ReconcileKeeps
<1>4. CASE Rollback
  BY <1>4 DEF Rollback, RouteInv, RouteHolds
<1>5. CASE \E error \in Errors : RecordFailure(error)
  BY <1>5, FailureKeeps
<1>6. CASE \E h \in Hook : Peek(h) \/ Claim(h)
  BY <1>6, NoticeKeeps
<1>7. CASE \E w \in Writer : AgentStep(w)
  BY <1>7, AgentKeeps
<1>8. CASE Migrate
  BY <1>8, LoadedHolds, DbStep DEF Migrate, RouteInv
<1>9. CASE Idle \/ UNCHANGED vars
  BY <1>9, DbStep DEF Idle, vars
<1>. QED
  BY <1>1, <1>2, <1>3, <1>4, <1>5, <1>6, <1>7, <1>8, <1>9 DEF Next, Step

(* Whatever is staged, resolved, superseded or rolled back, and whichever  *)
(* agents write, a ready route is the route of the user's latest input     *)
(* with no SDK turn after it: what record_response_route is refused for    *)
(* and reconcile and _commit_turn reopen.                                  *)
THEOREM LedgerRouteIsCurrent == Spec => []RouteIsCurrent
<1>1. RouteInv /\ [Next]_vars => RouteInv'
  BY NextRoute
<1>2. RouteInv => RouteIsCurrent
  BY DEF RouteInv, RouteHolds, RouteIsCurrent
<1>. QED
  BY InitHolds, <1>1, <1>2, PTL DEF Spec
----------------------------------------------------------------------------
(* Types *)

Row == [sub : Sub, actor : Actor, tagged : BOOLEAN]
File == [file : 0 .. 2, rows : Seq(Row)]
RowId == [file : 0 .. 2, at : Nat]
NoRow == [file |-> 0, at |-> 0]

(* What Locate returns for a staged input: the row is after the cursor. *)
Located(found, cursor, t) ==
  /\ found.located \in BOOLEAN /\ found.cause \in Cause /\ found.actor \in Actor \cup {None}
  /\ found.row \in RowId
  /\ ~found.located => found.actor = None /\ found.row = NoRow
  /\ found.located => /\ found.actor \in Actor
                      /\ found.row.file = t.file /\ t.file # 0
                      /\ found.row.at > cursor[t.file]

LEMMA LocateType ==
  ASSUME NEW o \in Staged, NEW cursor \in [0 .. 2 -> Nat], NEW t \in File
  PROVE  Located(Locate(o, cursor, t), cursor, t)
<1> DEFINE why(cause) == [located |-> FALSE, cause |-> cause, actor |-> None, row |-> [file |-> 0, at |-> 0]]
           i == CHOOSE i \in Matches(o, cursor, t) : TRUE
           here == [located |-> TRUE, cause |-> "unknown-actor", actor |-> t.rows[i].actor,
                    row |-> [file |-> t.file, at |-> i]]
<1>1. \A cause \in Cause : Located(why(cause), cursor, t)
  BY DEF Located, RowId, NoRow
<1>2. ASSUME Matches(o, cursor, t) # {}, o.boundary # None
      PROVE  i \in 1 .. Len(t.rows) /\ i > cursor[t.file]
  <2>1. i \in Matches(o, cursor, t)
    BY <1>2
  <2>2. o.boundary.offset \in Nat /\ cursor[t.file] \in Nat /\ Len(t.rows) \in Nat
    BY <1>2 DEF Staged, Boundary, File
  <2>3. Start(o, cursor, t.file) \in Nat /\ Start(o, cursor, t.file) >= cursor[t.file]
    BY <2>2 DEF Start
  <2>4. i \in Start(o, cursor, t.file) + 1 .. Len(t.rows)
    BY <2>1 DEF Matches
  <2>. QED
    BY <2>2, <2>3, <2>4
<1>3. ASSUME Matches(o, cursor, t) # {}, o.boundary # None, t.file # 0
      PROVE  Located(here, cursor, t)
  <2>1. t.rows[i] \in Row
    BY <1>2, <1>3 DEF File
  <2>2. t.rows[i].actor \in Actor /\ t.file \in 0 .. 2 /\ i \in Nat
    BY <1>2, <1>3, <2>1 DEF Row, File
  <2> HIDE DEF i
  <2>3. here.located = TRUE /\ here.cause = "unknown-actor" /\ here.actor = t.rows[i].actor
          /\ here.row = [file |-> t.file, at |-> i]
    OBVIOUS
  <2>4. here.row \in RowId /\ here.row.file = t.file /\ here.row.at = i
    BY <2>2, <2>3 DEF RowId
  <2> HIDE DEF here
  <2>. QED
    BY <1>2, <1>3, <2>2, <2>3, <2>4 DEF Located, Cause
<1>4. \/ \E cause \in Cause : Locate(o, cursor, t) = why(cause)
      \/ /\ Matches(o, cursor, t) # {} /\ o.boundary # None /\ t.file # 0
         /\ Locate(o, cursor, t) = here
  BY DEF Locate, Cause
<1>. QED
  BY <1>1, <1>3, <1>4

LEMMA PastGrows ==
  ASSUME NEW cursor \in [0 .. 2 -> Nat], NEW t \in File, NEW found, Located(found, cursor, t)
  PROVE  /\ Past(cursor, found) \in [0 .. 2 -> Nat]
         /\ \A f \in 0 .. 2 : Past(cursor, found)[f] >= cursor[f]
         /\ found.located => Past(cursor, found)[t.file] = found.row.at
<1>1. found.row.at \in Nat /\ t.file \in 0 .. 2 /\ (found.located => found.row.file = t.file)
  BY DEF Located, RowId, File
<1>2. CASE ~found.located
  BY <1>2 DEF Past
<1>3. CASE found.located
  <2>1. Past(cursor, found) = [cursor EXCEPT ![t.file] = found.row.at]
    BY <1>1, <1>3 DEF Past
  <2>2. found.row.at > cursor[t.file]
    BY <1>3 DEF Located
  <2>. QED
    BY <1>1, <2>1, <2>2
<1>. QED
  BY <1>2, <1>3

(* The commit of a session that has room for it is a session. *)
LEMMA CommitType ==
  ASSUME NEW d \in Session, NEW event \in Event, Room(d, 1)
  PROVE  Commit(d, event) \in Session
<1>1. d.revision + 1 \in 0 .. MaxRevision
  BY LedgerAssumption DEF Session, Room
<1>2. Append(d.events, event) \in Seq(Event)
  BY DEF Session
<1>. QED
  BY <1>1, <1>2 DEF Session, Commit

LEMMA NoteType ==
  ASSUME NEW event \in EventName, NEW about \in Input \cup Errors \cup {None}
  PROVE  Note(event, about) \in Event
  BY DEF Note, Event

LEMMA PortableType == Portable \in Session
<1>1. NewSession \in Session
  BY LedgerAssumption DEF NewSession, Session
<1>2. <<Note("user-input-observed", Old)>> \in Seq(Event)
  BY NoteType DEF EventName, Input
<1>3. JsonSession \in Session
  <2>1. 1 \in 0 .. MaxRevision /\ Old \in Input
    BY LedgerAssumption DEF Input
  <2>2. [ready |-> TRUE, input |-> Old] \in [ready : BOOLEAN, input : Input]
    BY <2>1
  <2>. QED
    BY <1>1, <1>2, <2>1, <2>2 DEF JsonSession, Session
<1>. QED
  BY <1>1, <1>3 DEF Portable

LEMMA LoadedType ==
  ASSUME db \in Session \cup {None}
  PROVE  Loaded \in Session
<1>1. CASE db # None
  BY <1>1 DEF Loaded
<1>2. CASE db = None
  <2>1. Len(Portable.events) \in Nat
    BY PortableType DEF Session
  <2>2. ASSUME Portable.route # None
        PROVE  [Portable.route EXCEPT !.ready = FALSE] \in [ready : BOOLEAN, input : Input]
    BY <2>2, PortableType DEF Session
  <2> DEFINE route == IF Portable.route = None THEN None ELSE [Portable.route EXCEPT !.ready = FALSE]
  <2>3. route \in [ready : BOOLEAN, input : Input] \cup {None}
    BY <2>2
  <2>4. Loaded = [Portable EXCEPT !.imported = Len(Portable.events), !.route = route]
    BY <1>2, PortableType DEF Loaded, Session
  <2> HIDE DEF route
  <2>. QED
    BY <2>1, <2>3, <2>4, PortableType DEF Session
<1>. QED
  BY <1>1, <1>2

----------------------------------------------------------------------------
(* The look ahead of _later_located_human.  LaterHuman folds over the      *)
(* queue; what the proofs need of it is how it begins (LaterEmpty) and how *)
(* it goes on with the next staged input (LaterStep).  The induction is    *)
(* the minimum principle of a well-founded relation, on a set of numbers.  *)

LEMMA SetInduction ==
  ASSUME NEW P, 0 \in P, \A n \in Nat : n \in P => n + 1 \in P
  PROVE  \A n \in Nat : n \in P
<1> DEFINE R == OpToRel(<, Nat)
           T == {n \in Nat : n \notin P}
<1>1. \A i, j \in Nat : <<i, j>> \in R <=> i < j
  BY DEF OpToRel
<1>2. SUFFICES ASSUME T # {} PROVE FALSE
  OBVIOUS
<1>3. IsWellFoundedOn(R, Nat)
  BY NatLessThanWellFounded
<1>4. PICK x \in T : \A y \in T : <<y, x>> \notin R
  <2> HIDE DEF R
  <2>. QED BY <1>2, <1>3, WFMin
<1>5. x \in Nat /\ x # 0
  BY <1>4
<1>6. x - 1 \in Nat /\ x - 1 < x /\ x = (x - 1) + 1
  BY <1>5
<1>7. x - 1 \notin T
  BY <1>1, <1>4, <1>5, <1>6
<1>. QED
  BY <1>4, <1>6, <1>7

(* A set of numbers up to n that is not empty has a greatest one. *)
LEMMA MaxExists ==
  \A n \in Nat : \A S \in SUBSET (1 .. n) : S # {} => Max(S) \in S /\ \A y \in S : Max(S) >= y
<1> DEFINE HasMax(S) == \E x \in S : \A y \in S : x >= y
           P == {n \in Nat : \A S \in SUBSET (1 .. n) : S # {} => HasMax(S)}
<1>1. 0 \in P
  <2>1. 1 .. 0 = {}
    OBVIOUS
  <2>. QED
    BY <2>1
<1>2. ASSUME NEW n \in Nat, n \in P PROVE n + 1 \in P
  <2> SUFFICES ASSUME NEW S \in SUBSET (1 .. n + 1), S # {} PROVE HasMax(S)
    OBVIOUS
  <2>1. CASE n + 1 \in S
    BY <2>1
  <2>2. CASE n + 1 \notin S
    <3>1. S \in SUBSET (1 .. n)
      BY <2>2
    <3>. QED
      BY <1>2, <3>1
  <2>. QED
    BY <2>1, <2>2
<1> HIDE DEF P
<1>3. \A n \in Nat : n \in P
  BY <1>1, <1>2, SetInduction
<1>. QED
  BY <1>3 DEF P, Max

(* One step of the look ahead. *)
Look(acc, o, t) ==
  LET found == Locate(o, acc.cursor, t)
  IN  IF acc.human # None THEN acc
      ELSE IF found.actor = "human" THEN [acc EXCEPT !.human = o.sub]
      ELSE [acc EXCEPT !.cursor = Past(@, found)]

LookFrom(cursor) == [cursor |-> cursor, human |-> None]

(* The recursion of FoldLeft has a solution. *)
FoldsTo(f, n, queue, cursor, t) ==
  f = [s \in SUBSET (1 .. n) |->
         IF s = {} THEN LookFrom(cursor) ELSE Look(f[s \ {Max(s)}], queue[Max(s)], t)]

LEMMA FoldExists ==
  ASSUME NEW queue, NEW cursor, NEW t
  PROVE  \A n \in Nat : \E f : FoldsTo(f, n, queue, cursor, t)
<1> DEFINE P == {n \in Nat : \E f : FoldsTo(f, n, queue, cursor, t)}
<1>1. 0 \in P
  <2> DEFINE f == [s \in {{}} |-> LookFrom(cursor)]
  <2>1. SUBSET (1 .. 0) = {{}}
    OBVIOUS
  <2>2. f = [s \in SUBSET (1 .. 0) |->
               IF s = {} THEN LookFrom(cursor) ELSE Look(f[s \ {Max(s)}], queue[Max(s)], t)]
    BY <2>1
  <2>. QED
    BY <2>2 DEF FoldsTo
<1>2. ASSUME NEW n \in Nat, n \in P PROVE n + 1 \in P
  <2>1. PICK f : FoldsTo(f, n, queue, cursor, t)
    BY <1>2
  <2> DEFINE step(s) == Look(f[s \ {n + 1}], queue[n + 1], t)
             g == [s \in SUBSET (1 .. n + 1) |-> IF n + 1 \in s THEN step(s) ELSE f[s]]
  <2>2. \A s \in SUBSET (1 .. n) : s \in SUBSET (1 .. n + 1) /\ n + 1 \notin s /\ g[s] = f[s]
    OBVIOUS
  <2>3. ASSUME NEW s \in SUBSET (1 .. n + 1)
        PROVE  g[s] = IF s = {} THEN LookFrom(cursor) ELSE Look(g[s \ {Max(s)}], queue[Max(s)], t)
    <3>1. CASE n + 1 \in s
      <4>0. n + 1 \in Nat /\ s # {}
        BY <3>1
      <4>1. Max(s) \in s /\ Max(s) >= n + 1
        BY <3>1, <4>0, MaxExists
      <4>2. Max(s) = n + 1
        <5>1. Max(s) \in 1 .. n + 1
          BY <4>1
        <5>. QED
          BY <4>1, <5>1
      <4>3. s \ {n + 1} \in SUBSET (1 .. n)
        OBVIOUS
      <4>4. g[s] = step(s) /\ g[s \ {n + 1}] = f[s \ {n + 1}]
        BY <3>1, <4>3, <2>2
      <4> HIDE DEF g
      <4>. QED
        BY <3>1, <4>2, <4>4
    <3>2. CASE n + 1 \notin s /\ s # {}
      <4>1. s \in SUBSET (1 .. n)
        BY <3>2
      <4>2. s \ {Max(s)} \in SUBSET (1 .. n)
        BY <4>1
      <4>3. f[s] = Look(f[s \ {Max(s)}], queue[Max(s)], t)
        BY <2>1, <4>1, <3>2 DEF FoldsTo
      <4>4. g[s] = f[s] /\ g[s \ {Max(s)}] = f[s \ {Max(s)}]
        BY <2>2, <4>1, <4>2
      <4> HIDE DEF g
      <4>. QED
        BY <3>2, <4>3, <4>4
    <3>3. CASE s = {}
      BY <2>1, <2>2, <3>3 DEF FoldsTo
    <3>. QED
      BY <3>1, <3>2, <3>3
  <2>4. g = [s \in SUBSET (1 .. n + 1) |-> g[s]]
    OBVIOUS
  <2>5. FoldsTo(g, n + 1, queue, cursor, t)
    <3> HIDE DEF g
    <3>. QED
      BY <2>3, <2>4 DEF FoldsTo
  <2> HIDE DEF g
  <2>. QED
    BY <2>5
<1> HIDE DEF P
<1>3. \A n \in Nat : n \in P
  BY <1>1, <1>2, SetInduction
<1>. QED
  BY <1>3 DEF P

(* The states that the look ahead goes through. *)
Looks(f, queue, cursor, t) ==
  /\ f[0] = LookFrom(cursor)
  /\ \A k \in 1 .. Len(queue) : f[k] = Look(f[k - 1], queue[k], t)
  /\ LaterHuman(queue, cursor, t) = f[Len(queue)].human

LEMMA LooksExist ==
  ASSUME NEW queue \in Seq(Staged), NEW cursor, NEW t
  PROVE  \E f : Looks(f, queue, cursor, t)
<1> DEFINE n == Len(queue)
           fold == CHOOSE f : FoldsTo(f, n, queue, cursor, t)
           f == [k \in 0 .. n |-> fold[1 .. k]]
<1>1. n \in Nat /\ DOMAIN queue = 1 .. n
  OBVIOUS
<1>2. FoldsTo(fold, n, queue, cursor, t)
  BY <1>1, FoldExists
<1>3. LaterHuman(queue, cursor, t) = fold[1 .. n].human
  BY <1>1 DEF LaterHuman, FoldLeft, MapThenFoldSet, FoldsTo, Look, LookFrom
<1> HIDE DEF n, fold
<1>4. \A k \in 0 .. n : 1 .. k \in SUBSET (1 .. n) /\ f[k] = fold[1 .. k]
  BY <1>1
<1>5. f[0] = LookFrom(cursor)
  <2>1. 1 .. 0 = {} /\ {} \in SUBSET (1 .. n)
    OBVIOUS
  <2>2. fold[{}] = LookFrom(cursor)
    BY <1>2, <2>1 DEF FoldsTo
  <2>. QED
    BY <1>1, <1>4, <2>1, <2>2
<1>6. ASSUME NEW k \in 1 .. n PROVE f[k] = Look(f[k - 1], queue[k], t)
  <2>1. k \in 1 .. k /\ (1 .. k) \ {k} = 1 .. k - 1 /\ k - 1 \in 0 .. n /\ k \in 0 .. n /\ k \in Nat
    BY <1>1
  <2>2. Max(1 .. k) \in 1 .. k /\ Max(1 .. k) >= k
    BY <2>1, MaxExists
  <2>3. Max(1 .. k) = k
    BY <2>1, <2>2
  <2>4. fold[1 .. k] = Look(fold[(1 .. k) \ {Max(1 .. k)}], queue[Max(1 .. k)], t)
    <3>1. 1 .. k # {} /\ 1 .. k \in SUBSET (1 .. n)
      BY <2>1, <1>4
    <3>. QED
      BY <1>2, <3>1 DEF FoldsTo
  <2>. QED
    BY <1>4, <2>1, <2>3, <2>4
<1>7. LaterHuman(queue, cursor, t) = f[n].human
  BY <1>1, <1>3, <1>4
<1> HIDE DEF f
<1>. QED
  BY <1>5, <1>6, <1>7 DEF Looks, n

(* What the look ahead keeps: it finds a submission or nothing, and once   *)
(* it has found one it goes no further.                                    *)
LEMMA LooksType ==
  ASSUME NEW queue \in Seq(Staged), NEW cursor \in [0 .. 2 -> Nat], NEW t \in File,
         NEW f, Looks(f, queue, cursor, t)
  PROVE  \A k \in 0 .. Len(queue) : f[k] \in [cursor : [0 .. 2 -> Nat], human : Sub \cup {None}]
<1> DEFINE Acc == [cursor : [0 .. 2 -> Nat], human : Sub \cup {None}]
           n == Len(queue)
           P == {k \in Nat : k <= n => f[k] \in Acc}
<1>1. 0 \in P
  BY DEF Looks, LookFrom
<1>2. ASSUME NEW acc \in Acc, NEW o \in Staged
      PROVE  Look(acc, o, t) \in Acc
  <2> DEFINE found == Locate(o, acc.cursor, t)
  <2>1. Located(found, acc.cursor, t)
    BY LocateType
  <2> HIDE DEF found
  <2>2. Past(acc.cursor, found) \in [0 .. 2 -> Nat]
    BY <2>1, PastGrows
  <2>3. [acc EXCEPT !.human = o.sub] \in Acc
    BY DEF Staged
  <2>4. [acc EXCEPT !.cursor = Past(@, found)] \in Acc
    BY <2>2
  <2>. QED
    BY <2>3, <2>4 DEF Look, found
<1>3. ASSUME NEW k \in Nat, k \in P PROVE k + 1 \in P
  <2>1. CASE k + 1 <= n
    <3>1. k + 1 \in 1 .. n /\ (k + 1) - 1 = k /\ k <= n
      BY <2>1
    <3>2. f[k + 1] = Look(f[k], queue[k + 1], t)
      BY <3>1 DEF Looks
    <3>3. queue[k + 1] \in Staged /\ f[k] \in Acc
      BY <1>3, <3>1
    <3>4. f[k + 1] \in Acc
      BY <1>2, <3>2, <3>3
    <3>. QED
      BY <3>4
  <2>2. CASE ~ k + 1 <= n
    BY <2>2
  <2>. QED
    BY <2>1, <2>2
<1> HIDE DEF P
<1>4. \A k \in Nat : k \in P
  BY <1>1, <1>3, SetInduction
<1>. QED
  BY <1>4 DEF P

LEMMA LooksStop ==
  ASSUME NEW queue \in Seq(Staged), NEW cursor, NEW t, NEW f, Looks(f, queue, cursor, t),
         NEW i \in 0 .. Len(queue), f[i].human # None
  PROVE  f[Len(queue)].human = f[i].human
<1> DEFINE n == Len(queue)
           P == {k \in Nat : i + k <= n => f[i + k] = f[i]}
<1>1. 0 \in P
  OBVIOUS
<1>2. ASSUME NEW k \in Nat, k \in P PROVE k + 1 \in P
  <2>1. CASE i + (k + 1) <= n
    <3>1. i + (k + 1) \in 1 .. n /\ (i + (k + 1)) - 1 = i + k /\ i + k <= n
      BY <2>1
    <3>2. f[i + (k + 1)] = Look(f[i + k], queue[i + (k + 1)], t)
      BY <3>1 DEF Looks
    <3>3. f[i + k] = f[i]
      BY <1>2, <3>1
    <3>4. f[i + (k + 1)] = f[i]
      BY <3>2, <3>3 DEF Look
    <3>. QED
      BY <3>4
  <2>2. CASE ~ i + (k + 1) <= n
    BY <2>2
  <2>. QED
    BY <2>1, <2>2
<1> HIDE DEF P
<1>3. \A k \in Nat : k \in P
  BY <1>1, <1>2, SetInduction
<1>4. n - i \in Nat /\ i + (n - i) = n /\ n \in Nat
  OBVIOUS
<1>5. f[i + (n - i)] = f[i]
  <2>1. n - i \in P
    BY <1>3, <1>4
  <2>2. i + (n - i) <= n
    BY <1>4
  <2> HIDE DEF n
  <2>. QED
    BY <2>1, <2>2 DEF P
<1>. QED
  BY <1>4, <1>5

LEMMA LaterType ==
  ASSUME NEW queue \in Seq(Staged), NEW cursor \in [0 .. 2 -> Nat], NEW t \in File
  PROVE  LaterHuman(queue, cursor, t) \in Sub \cup {None}
<1>1. PICK f : Looks(f, queue, cursor, t)
  BY LooksExist
<1>2. Len(queue) \in 0 .. Len(queue)
  OBVIOUS
<1>3. f[Len(queue)] \in [cursor : [0 .. 2 -> Nat], human : Sub \cup {None}]
  BY <1>1, <1>2, LooksType
<1>. QED
  BY <1>1, <1>3 DEF Looks

LEMMA LaterEmpty ==
  ASSUME NEW cursor, NEW t
  PROVE  LaterHuman(<<>>, cursor, t) = None
<1>1. <<>> \in Seq(Staged) /\ Len(<<>>) = 0
  OBVIOUS
<1>2. PICK f : Looks(f, <<>>, cursor, t)
  BY <1>1, LooksExist
<1>. QED
  BY <1>1, <1>2 DEF Looks, LookFrom

(* Either the next input is the one, or the search goes on past its row.   *)
LEMMA LaterStep ==
  ASSUME NEW queue \in Seq(Staged), queue # <<>>, NEW cursor \in [0 .. 2 -> Nat], NEW t \in File,
         NEW found, found = Locate(queue[1], cursor, t)
  PROVE  LaterHuman(queue, cursor, t) =
           IF found.actor = "human" THEN queue[1].sub
           ELSE LaterHuman(Tail(queue), Past(cursor, found), t)
<1> DEFINE n == Len(queue)
           rest == Tail(queue)
           past == Past(cursor, found)
<1>1. n \in Nat \ {0} /\ rest \in Seq(Staged) /\ Len(rest) = n - 1 /\ queue[1] \in Staged
        /\ \A k \in 1 .. n - 1 : rest[k] = queue[k + 1]
  OBVIOUS
<1>2. PICK f : Looks(f, queue, cursor, t)
  BY LooksExist
<1>3. f[0] = LookFrom(cursor) /\ f[1] = Look(f[0], queue[1], t)
  <2>1. 1 \in 1 .. Len(queue) /\ 1 - 1 = 0
    BY <1>1
  <2>. QED
    BY <1>2, <2>1 DEF Looks
<1>4. CASE found.actor = "human"
  <2>1. f[1].human = queue[1].sub
    BY <1>3, <1>4 DEF Look, LookFrom
  <2>2. queue[1].sub # None /\ 1 \in 0 .. Len(queue)
    BY <1>1, LedgerAssumption DEF Staged
  <2>3. f[Len(queue)].human = queue[1].sub
    BY <1>2, <2>1, <2>2, LooksStop
  <2>. QED
    BY <1>2, <1>4, <2>3 DEF Looks
<1>5. CASE found.actor # "human"
  <2>1. PICK g : Looks(g, rest, past, t)
    BY <1>1, LooksExist
  <2>2. f[1] = LookFrom(past)
    BY <1>3, <1>5 DEF Look, LookFrom
  <2> DEFINE P == {k \in Nat : k <= n - 1 => g[k] = f[k + 1]}
  <2>3. 0 \in P
    BY <2>1, <2>2 DEF Looks
  <2>4. ASSUME NEW k \in Nat, k \in P PROVE k + 1 \in P
    <3>1. CASE k + 1 <= n - 1
      <4>1. k + 1 \in 1 .. n - 1 /\ k + 2 \in 1 .. n /\ k <= n - 1 /\ (k + 1) - 1 = k /\ (k + 2) - 1 = k + 1
              /\ (k + 1) + 1 = k + 2
        BY <1>1, <3>1
      <4>2. g[k + 1] = Look(g[k], rest[k + 1], t)
        BY <1>1, <2>1, <4>1 DEF Looks
      <4>3. f[k + 2] = Look(f[k + 1], queue[k + 2], t)
        BY <1>2, <4>1 DEF Looks
      <4>4. rest[k + 1] = queue[k + 2] /\ g[k] = f[k + 1]
        BY <1>1, <2>4, <4>1
      <4>5. g[k + 1] = f[(k + 1) + 1]
        BY <4>1, <4>2, <4>3, <4>4
      <4>. QED
        BY <4>5
    <3>2. CASE ~ k + 1 <= n - 1
      BY <3>2
    <3>. QED
      BY <3>1, <3>2
  <2> HIDE DEF P
  <2>5. \A k \in Nat : k \in P
    BY <2>3, <2>4, SetInduction
  <2>6. n - 1 \in Nat /\ (n - 1) + 1 = n
    BY <1>1
  <2>7. g[n - 1] = f[n]
    BY <2>5, <2>6 DEF P
  <2>. QED
    BY <1>1, <1>2, <1>5, <2>1, <2>7 DEF Looks
<1>. QED
  BY <1>4, <1>5

----------------------------------------------------------------------------
(* What the operations do to a session *)

(* n differs from d in no other fields than names. *)
Keeps(n, d, names) == \A f \in Fields \ names : n[f] = d[f]

Logs(n, d, event) == n.revision = d.revision + 1 /\ n.events = Append(d.events, event)

LEMMA CommitEffect ==
  ASSUME NEW d \in Session, NEW event \in Event, Room(d, 1)
  PROVE  /\ Commit(d, event) \in Session
         /\ Keeps(Commit(d, event), d, {"revision", "events"})
         /\ Logs(Commit(d, event), d, event)
<1>1. Keeps(Commit(d, event), d, {"revision", "events"})
  BY DEF Session, Commit, Keeps, Fields
<1>2. Logs(Commit(d, event), d, event)
  BY DEF Session, Commit, Logs
<1>. QED
  BY <1>1, <1>2, CommitType

LEMMA KeepsRoom ==
  ASSUME NEW d, NEW e, NEW k, e.revision = d.revision, Room(d, k)
  PROVE  Room(e, k)
  BY DEF Room

LEMMA StageEffect ==
  ASSUME NEW d \in Session, NEW s \in Sub, NEW boundary \in Boundary, Room(d, 1),
         NEW n, n = Commit([d EXCEPT !.pending = Append(@, [sub |-> s, boundary |-> boundary]),
                                     !.status = "pending-native-origin"],
                           Note("native-input-staged", s))
  PROVE  /\ n \in Session /\ Logs(n, d, Note("native-input-staged", s))
         /\ Keeps(n, d, {"revision", "events", "pending", "status"})
         /\ n.pending = Append(d.pending, [sub |-> s, boundary |-> boundary])
         /\ n.status = "pending-native-origin"
<1> DEFINE o == [sub |-> s, boundary |-> boundary]
           e == [d EXCEPT !.pending = Append(@, o), !.status = "pending-native-origin"]
<1>1. Append(d.pending, o) \in Seq(Staged)
  BY DEF Session, Staged
<1>2. e \in Session /\ e.pending = Append(d.pending, o) /\ e.status = "pending-native-origin"
        /\ Keeps(e, d, {"pending", "status"})
  <2> HIDE DEF o
  <2>1. e \in Session /\ e.pending = Append(d.pending, o) /\ e.status = "pending-native-origin"
    BY <1>1 DEF Session
  <2>2. Keeps(e, d, {"pending", "status"})
    BY DEF Session, Keeps, Fields
  <2>. QED
    BY <2>1, <2>2
<1>3. e.revision = d.revision /\ e.events = d.events
  BY <1>2 DEF Keeps, Fields
<1>4. Note("native-input-staged", s) \in Event
  BY NoteType DEF EventName, Input
<1> HIDE DEF e
<1>5. /\ n \in Session /\ Keeps(n, e, {"revision", "events"}) /\ Logs(n, e, Note("native-input-staged", s))
  <2>1. Room(e, 1)
    BY <1>3, KeepsRoom
  <2>. QED
    BY <1>2, <1>4, <2>1, CommitEffect DEF e
<1>. QED
  BY <1>2, <1>3, <1>5 DEF Logs, Keeps, Fields

LEMMA NewInputEffect ==
  ASSUME NEW d \in Session, NEW s \in Sub, Room(d, 1), NEW n, n = NewInput(d, s)
  PROVE  /\ n \in Session /\ Logs(n, d, Note("user-input-observed", s))
         /\ Keeps(n, d, {"revision", "events", "latest", "context", "route", "status", "canonical"})
         /\ n.latest = s /\ n.context = None
         /\ n.route = IF d.route # None /\ d.route.input # s THEN [d.route EXCEPT !.ready = FALSE] ELSE d.route
         /\ n.status = IF d.pending = <<>> THEN "observed" ELSE "pending-native-origin"
<1> DEFINE route == IF d.route # None /\ d.route.input # s THEN [d.route EXCEPT !.ready = FALSE] ELSE d.route
           status == IF d.pending = <<>> THEN "observed" ELSE "pending-native-origin"
           e == [d EXCEPT !.latest = s, !.context = None, !.route = route, !.status = status]
           m == Commit(e, Note("user-input-observed", s))
           seq == Len(m.events)
<1>1. route \in [ready : BOOLEAN, input : Input] \cup {None}
  BY DEF Session
<1>2. /\ e \in Session /\ e.latest = s /\ e.context = None /\ e.route = route /\ e.status = status
      /\ Keeps(e, d, {"latest", "context", "route", "status"})
  <2>1. s \in Input
    BY DEF Input
  <2>2. status \in {"observed", "pending-native-origin"}
    OBVIOUS
  <2> HIDE DEF route, status
  <2>3. e \in Session /\ e.latest = s /\ e.context = None /\ e.route = route /\ e.status = status
    BY <1>1, <2>1, <2>2 DEF Session
  <2>4. Keeps(e, d, {"latest", "context", "route", "status"})
    BY DEF Session, Keeps, Fields
  <2>. QED
    BY <2>3, <2>4
<1>3. e.revision = d.revision /\ e.events = d.events
  BY <1>2 DEF Keeps, Fields
<1>4. n = [m EXCEPT !.canonical = [input |-> s, sequence |-> seq]]
  <2>1. e = [d EXCEPT !.latest = s, !.context = None,
                      !.route = IF @ # None /\ @.input # s THEN [@ EXCEPT !.ready = FALSE] ELSE @,
                      !.status = status]
    BY DEF Session
  <2>. QED
    BY <2>1 DEF NewInput
<1>5. Note("user-input-observed", s) \in Event
  BY NoteType DEF EventName, Input
<1> HIDE DEF e
<1>6. m \in Session /\ Keeps(m, e, {"revision", "events"}) /\ Logs(m, e, Note("user-input-observed", s))
  <2>1. Room(e, 1)
    BY <1>3, KeepsRoom
  <2>. QED
    BY <1>2, <1>5, <2>1, CommitEffect
<1>7. [input |-> s, sequence |-> seq] \in [input : Input, sequence : Nat]
  <2>1. m.events \in Seq(Event)
    BY <1>6 DEF Session
  <2>. QED
    BY <2>1 DEF Input
<1> HIDE DEF m, seq, route, status
<1>8. n \in Session /\ Keeps(n, m, {"canonical"})
  <2>1. n \in Session
    BY <1>4, <1>6, <1>7 DEF Session
  <2>2. Keeps(n, m, {"canonical"})
    BY <1>4, <1>6 DEF Session, Keeps, Fields
  <2>. QED
    BY <2>1, <2>2
<1>9. /\ n.latest = s /\ n.context = None /\ n.route = route /\ n.status = status
      /\ Logs(n, d, Note("user-input-observed", s))
  BY <1>2, <1>3, <1>6, <1>8 DEF Keeps, Fields, Logs
<1>10. Keeps(n, d, {"revision", "events", "latest", "context", "route", "status", "canonical"})
  BY <1>2, <1>6, <1>8 DEF Keeps, Fields
<1>. QED
  BY <1>8, <1>9, <1>10 DEF route, status

LEMMA LeftEffect ==
  ASSUME NEW d \in Session, d.pending # <<>>, NEW t \in File, NEW found, Located(found, d.cursor, t),
         NEW n, n = Left(d, found)
  PROVE  /\ n \in Session /\ Keeps(n, d, {"pending", "cursor", "waiting"})
         /\ n.pending = Tail(d.pending) /\ n.cursor = Past(d.cursor, found)
<1>1. Tail(d.pending) \in Seq(Staged) /\ Past(d.cursor, found) \in [0 .. 2 -> Nat]
  BY PastGrows DEF Session
<1> DEFINE waiting == IF d.waiting # None /\ d.waiting.sub = d.pending[1].sub THEN None ELSE d.waiting
<1>2. waiting \in [sub : Sub, cause : Cause] \cup {None}
  BY DEF Session
<1>3. n = [d EXCEPT !.pending = Tail(@), !.cursor = Past(@, found), !.waiting = waiting]
  BY DEF Left, Session
<1> HIDE DEF waiting
<1>4. n \in Session /\ n.pending = Tail(d.pending) /\ n.cursor = Past(d.cursor, found)
  BY <1>1, <1>2, <1>3 DEF Session
<1>5. Keeps(n, d, {"pending", "cursor", "waiting"})
  BY <1>3 DEF Session, Keeps, Fields
<1>. QED
  BY <1>4, <1>5

LEMMA ContextEffect ==
  ASSUME NEW d \in Session, NEW s \in Sub, NEW n, n = Context(d, s)
  PROVE  /\ n \in Session /\ Keeps(n, d, {"context", "intakes", "route"})
         /\ n.context = s
         /\ n.route = IF d.route = None THEN None ELSE [d.route EXCEPT !.ready = FALSE]
<1> DEFINE route == IF d.route = None THEN None ELSE [d.route EXCEPT !.ready = FALSE]
<1>1. route \in [ready : BOOLEAN, input : Input] \cup {None}
  BY DEF Session
<1>2. n = [d EXCEPT !.context = s, !.intakes = @ \cup {s}, !.route = route]
  BY DEF Context, Session
<1> HIDE DEF route
<1>3. d.intakes \cup {s} \in SUBSET Sub
  BY DEF Session
<1> DEFINE intakes == d.intakes \cup {s}
<1> HIDE DEF intakes
<1>4. n = [d EXCEPT !.context = s, !.intakes = intakes, !.route = route] /\ intakes \in SUBSET Sub
  BY <1>2, <1>3 DEF Session, intakes
<1>5. n \in Session /\ n.context = s /\ n.route = route
  BY <1>1, <1>4 DEF Session
<1>6. Keeps(n, d, {"context", "intakes", "route"})
  BY <1>2 DEF Session, Keeps, Fields
<1>. QED
  BY <1>5, <1>6 DEF route

(* The operations that change one or two fields and commit. *)
LEMMA FieldEffect ==
  ASSUME NEW d \in Session, NEW e \in Session, NEW names, Keeps(e, d, names),
         "revision" \notin names, "events" \notin names,
         NEW event \in Event, Room(d, 1)
  PROVE  /\ Commit(e, event) \in Session
         /\ Keeps(Commit(e, event), e, {"revision", "events"})
         /\ Keeps(Commit(e, event), d, names \cup {"revision", "events"})
         /\ Logs(Commit(e, event), d, event)
<1>1. e.revision = d.revision /\ e.events = d.events
  BY DEF Keeps, Fields
<1>2. Room(e, 1)
  BY <1>1, KeepsRoom
<1> DEFINE n == Commit(e, event)
<1>3. n \in Session /\ Keeps(n, e, {"revision", "events"}) /\ Logs(n, e, event)
  BY <1>2, CommitEffect
<1> HIDE DEF n
<1>4. Keeps(n, d, names \cup {"revision", "events"}) /\ Logs(n, d, event)
  BY <1>1, <1>3 DEF Keeps, Logs
<1>. QED
  BY <1>3, <1>4 DEF n

----------------------------------------------------------------------------
(* What the steps of a reconcile do to its transaction *)

Transcript == [file |-> txn.file, rows |-> txn.rows]

LEMMA ReconcileFacts ==
  ASSUME TypeOK, txn # None, txn.work.pending # <<>>
  PROVE  /\ txn \in [work : Session, rows : Seq(Row), file : 0 .. 2]
         /\ txn.work \in Session /\ Transcript \in File
         /\ First \in Staged /\ First.sub \in Sub
         /\ txn.work.cursor \in [0 .. 2 -> Nat] /\ txn.work.pending \in Seq(Staged)
         /\ Tail(txn.work.pending) \in Seq(Staged)
         /\ FirstFound = Locate(First, txn.work.cursor, Transcript)
         /\ Located(FirstFound, txn.work.cursor, Transcript)
         /\ LaterFound = LaterHuman(Tail(txn.work.pending), Past(txn.work.cursor, FirstFound), Transcript)
<1>1. txn \in [work : Session, rows : Seq(Row), file : 0 .. 2]
  BY DEF TypeOK, Row
<1>2. txn.work \in Session /\ Transcript \in File
  BY <1>1 DEF Transcript, File
<1>3. txn.work.pending \in Seq(Staged) /\ txn.work.cursor \in [0 .. 2 -> Nat]
  BY <1>2 DEF Session
<1>4. First \in Staged /\ Tail(txn.work.pending) \in Seq(Staged)
  BY <1>3 DEF First
<1>5. First.sub \in Sub
  BY <1>4 DEF Staged
<1>6. FirstFound = Locate(First, txn.work.cursor, Transcript)
  BY DEF FirstFound, Transcript
<1>7. Located(FirstFound, txn.work.cursor, Transcript)
  BY <1>2, <1>3, <1>4, <1>6, LocateType
<1>8. LaterFound = LaterHuman(Tail(txn.work.pending), Past(txn.work.cursor, FirstFound), Transcript)
  BY DEF LaterFound, Transcript
<1>. QED
  BY <1>1, <1>2, <1>3, <1>4, <1>5, <1>6, <1>7, <1>8

LEMMA RowType ==
  ASSUME NEW found, NEW cursor, NEW t, Located(found, cursor, t)
  PROVE  found.row \in [file : Nat, at : Nat]
  BY DEF Located, RowId

LEMMA ResolvedEventType ==
  ASSUME NEW s \in Sub, NEW found, NEW cursor, NEW t, Located(found, cursor, t)
  PROVE  /\ ResolvedEvent(s, found) \in Event
         /\ ResolvedEvent(s, found).event = "native-input-resolved"
         /\ ResolvedEvent(s, found).row = found.row /\ ResolvedEvent(s, found).base = None
<1>1. Note("native-input-resolved", s) \in Event
  BY NoteType DEF EventName, Input
<1>2. found.actor \in Actor \cup {None} /\ found.row \in [file : Nat, at : Nat]
  BY RowType DEF Located
<1> DEFINE note == Note("native-input-resolved", s)
           event == [note EXCEPT !.actor = found.actor, !.row = found.row]
<1>3. note.event = "native-input-resolved" /\ note.base = None
  BY DEF Note
<1> HIDE DEF note
<1>4. event \in Event
  BY <1>1, <1>2 DEF Event, note
<1>5. event.event = "native-input-resolved" /\ event.row = found.row /\ event.base = None
  BY <1>1, <1>3 DEF Event, note
<1>. QED
  BY <1>4, <1>5 DEF ResolvedEvent, note

(* The transaction works on n; nothing else changes. *)
WorksOn(n) == txn' \in [work : Session, rows : Seq(Row), file : 0 .. 2] /\ txn'.work = n
                /\ txn'.rows = txn.rows /\ txn'.file = txn.file

LEMMA WorkEffect ==
  ASSUME txn \in [work : Session, rows : Seq(Row), file : 0 .. 2], NEW n \in Session, Work(n)
  PROVE  WorksOn(n)
  BY DEF Work, WorksOn

Resolved(n, d) ==
  /\ n \in Session
  /\ n.pending = Tail(d.pending) /\ n.cursor = Past(d.cursor, FirstFound)

HumanEffect(n, d) ==
  /\ Resolved(n, d)
  /\ Keeps(n, d, {"pending", "cursor", "waiting", "revision", "events", "latest", "context", "route",
                  "status", "canonical"})
  /\ n.revision = (d.revision + 1) + 1
  /\ n.events = Append(Append(d.events, Note("user-input-observed", First.sub)),
                       ResolvedEvent(First.sub, FirstFound))
  /\ n.latest = First.sub /\ n.context = None
  /\ n.route = IF d.route # None /\ d.route.input # First.sub THEN [d.route EXCEPT !.ready = FALSE] ELSE d.route
  /\ n.status = IF n.pending = <<>> THEN "observed" ELSE "pending-native-origin"

OtherEffect(n, d) ==
  /\ Resolved(n, d)
  /\ Keeps(n, d, {"pending", "cursor", "waiting", "revision", "events", "context", "intakes", "route", "status"})
  /\ Logs(n, d, ResolvedEvent(First.sub, FirstFound))
  /\ \/ n.context = d.context /\ n.route = d.route
     \/ /\ n.context = First.sub
        /\ n.route = IF d.route = None THEN None ELSE [d.route EXCEPT !.ready = FALSE]
  /\ n.status = StatusAfter(n)

SupersededEvent ==
  [Note("native-input-superseded", First.sub) EXCEPT !.by = LaterFound, !.row = FirstFound.row,
                                                     !.cause = FirstFound.cause]

SupersedeEffect(n, d) ==
  /\ Resolved(n, d)
  /\ Keeps(n, d, {"pending", "cursor", "waiting", "revision", "events"})
  /\ Logs(n, d, SupersededEvent)

LEMMA HumanWorks ==
  ASSUME TypeOK, ResolveHuman
  PROVE  WorksOn(txn'.work) /\ HumanEffect(txn'.work, txn.work)
<1> DEFINE d == txn.work
           left == Left(d, FirstFound)
           s == First.sub
           m == NewInput(left, s)
           n == Commit(m, ResolvedEvent(s, FirstFound))
<1>1. txn # None /\ d.pending # <<>> /\ Room(d, 2) /\ Work(n)
  BY DEF ResolveHuman, InReconcile
<1>2. /\ txn \in [work : Session, rows : Seq(Row), file : 0 .. 2]
      /\ d \in Session /\ Transcript \in File /\ s \in Sub
      /\ Located(FirstFound, d.cursor, Transcript)
  BY <1>1, ReconcileFacts
<1>3. /\ left \in Session /\ Keeps(left, d, {"pending", "cursor", "waiting"})
      /\ left.pending = Tail(d.pending) /\ left.cursor = Past(d.cursor, FirstFound)
  BY <1>1, <1>2, LeftEffect
<1>4. left.revision = d.revision /\ left.events = d.events /\ left.route = d.route
  BY <1>3 DEF Keeps, Fields
<1>5. Room(left, 1) /\ d.revision \in Nat
  <2>1. d.revision \in Nat /\ MaxRevision \in Nat
    BY <1>2, LedgerAssumption DEF Session
  <2>. QED
    BY <1>1, <1>4, <2>1 DEF Room
<1> HIDE DEF left, d, s
<1>6. /\ m \in Session /\ Logs(m, left, Note("user-input-observed", s))
      /\ Keeps(m, left, {"revision", "events", "latest", "context", "route", "status", "canonical"})
      /\ m.latest = s /\ m.context = None
      /\ m.route = IF left.route # None /\ left.route.input # s THEN [left.route EXCEPT !.ready = FALSE]
                   ELSE left.route
      /\ m.status = IF left.pending = <<>> THEN "observed" ELSE "pending-native-origin"
  <2>1. m = NewInput(left, s) /\ left \in Session /\ s \in Sub
    BY <1>2, <1>3
  <2> HIDE DEF m
  <2>. QED
    BY <1>5, <2>1, NewInputEffect
<1> HIDE DEF m
<1>7. Room(m, 1)
  <2>1. m.revision = d.revision + 1
    BY <1>4, <1>6 DEF Logs
  <2>. QED
    BY <1>1, <1>5, <2>1, LedgerAssumption DEF Room
<1>8. ResolvedEvent(s, FirstFound) \in Event
  BY <1>2, ResolvedEventType
<1>9. n \in Session /\ Keeps(n, m, {"revision", "events"}) /\ Logs(n, m, ResolvedEvent(s, FirstFound))
  BY <1>6, <1>7, <1>8, CommitEffect
<1>10. WorksOn(n)
  BY <1>1, <1>2, <1>9, WorkEffect
<1>11. n = txn'.work
  BY <1>10 DEF WorksOn
<1> HIDE DEF n
<1>12. /\ n.pending = Tail(d.pending) /\ n.cursor = Past(d.cursor, FirstFound)
       /\ n.latest = s /\ n.context = None /\ n.status = m.status /\ n.route = m.route
       /\ m.pending = n.pending /\ left.pending = m.pending
  BY <1>3, <1>6, <1>9 DEF Keeps, Fields
<1>13. Keeps(n, d, {"pending", "cursor", "waiting", "revision", "events", "latest", "context", "route",
                    "status", "canonical"})
  BY <1>3, <1>6, <1>9 DEF Keeps, Fields
<1>14. n.revision = (d.revision + 1) + 1
       /\ n.events = Append(Append(d.events, Note("user-input-observed", s)), ResolvedEvent(s, FirstFound))
  BY <1>4, <1>6, <1>9 DEF Logs
<1>15. HumanEffect(n, d)
  BY <1>4, <1>6, <1>9, <1>12, <1>13, <1>14 DEF HumanEffect, Resolved, s
<1>. QED
  BY <1>10, <1>11, <1>15 DEF d

LEMMA OtherWorks ==
  ASSUME TypeOK, ResolveOther
  PROVE  WorksOn(txn'.work) /\ OtherEffect(txn'.work, txn.work)
<1> DEFINE d == txn.work
           left == Left(d, FirstFound)
           s == First.sub
           c == IF FirstFound.actor = "sdk" THEN Context(left, s) ELSE left
           e == [c EXCEPT !.status = StatusAfter(c)]
           n == Commit(e, ResolvedEvent(s, FirstFound))
<1>1. txn # None /\ d.pending # <<>> /\ Room(d, 1) /\ Work(n)
  BY DEF ResolveOther, InReconcile
<1>2. /\ txn \in [work : Session, rows : Seq(Row), file : 0 .. 2]
      /\ d \in Session /\ Transcript \in File /\ s \in Sub
      /\ Located(FirstFound, d.cursor, Transcript)
  BY <1>1, ReconcileFacts
<1>3. /\ left \in Session /\ Keeps(left, d, {"pending", "cursor", "waiting"})
      /\ left.pending = Tail(d.pending) /\ left.cursor = Past(d.cursor, FirstFound)
  BY <1>1, <1>2, LeftEffect
<1> HIDE DEF left, d, s
<1>4. /\ c \in Session /\ Keeps(c, left, {"context", "intakes", "route"})
      /\ \/ c.context = left.context /\ c.route = left.route
         \/ /\ c.context = s
            /\ c.route = IF left.route = None THEN None ELSE [left.route EXCEPT !.ready = FALSE]
  <2>1. CASE FirstFound.actor = "sdk"
    BY <1>2, <1>3, <2>1, ContextEffect
  <2>2. CASE FirstFound.actor # "sdk"
    BY <1>3, <2>2 DEF Keeps
  <2>. QED
    BY <2>1, <2>2
<1> HIDE DEF c
<1>5. StatusAfter(c) \in {"pending", "pending-native-origin", "observed", "context-only"}
  BY DEF StatusAfter
<1>6. e \in Session /\ Keeps(e, c, {"status"}) /\ e.status = StatusAfter(c)
  <2>1. e \in Session /\ e.status = StatusAfter(c)
    BY <1>4, <1>5 DEF Session
  <2>2. Keeps(e, c, {"status"})
    BY <1>4 DEF Session, Keeps, Fields
  <2>. QED
    BY <2>1, <2>2
<1> HIDE DEF e
<1>7. Keeps(e, d, {"pending", "cursor", "waiting", "context", "intakes", "route", "status"})
  BY <1>3, <1>4, <1>6 DEF Keeps, Fields
<1>8. ResolvedEvent(s, FirstFound) \in Event
  BY <1>2, ResolvedEventType
<1>9. /\ n \in Session /\ Keeps(n, e, {"revision", "events"}) /\ Logs(n, d, ResolvedEvent(s, FirstFound))
  BY <1>1, <1>2, <1>6, <1>7, <1>8, FieldEffect
<1>10. WorksOn(n)
  BY <1>1, <1>2, <1>9, WorkEffect
<1>11. n = txn'.work
  BY <1>10 DEF WorksOn
<1> HIDE DEF n
<1>12. /\ n.pending = Tail(d.pending) /\ n.cursor = Past(d.cursor, FirstFound)
       /\ n.context = c.context /\ n.route = c.route /\ n.status = StatusAfter(c)
       /\ left.context = d.context /\ left.route = d.route
       /\ n.pending = c.pending /\ n.latest = c.latest
  BY <1>3, <1>4, <1>6, <1>9 DEF Keeps, Fields
<1>13. n.status = StatusAfter(n)
  BY <1>12 DEF StatusAfter
<1>14. Keeps(n, d, {"pending", "cursor", "waiting", "revision", "events", "context", "intakes", "route", "status"})
  BY <1>7, <1>9 DEF Keeps, Fields
<1>15. OtherEffect(n, d)
  BY <1>4, <1>9, <1>12, <1>13, <1>14 DEF OtherEffect, Resolved, s
<1>. QED
  BY <1>10, <1>11, <1>15 DEF d

LEMMA SupersededEventType ==
  ASSUME TypeOK, Supersede
  PROVE  /\ SupersededEvent \in Event
         /\ SupersededEvent.event = "native-input-superseded" /\ SupersededEvent.by = LaterFound
         /\ SupersededEvent.row = FirstFound.row /\ SupersededEvent.base = None
<1>1. txn # None /\ txn.work.pending # <<>>
  BY DEF Supersede, InReconcile
<1>2. Located(FirstFound, txn.work.cursor, Transcript) /\ First.sub \in Sub
  BY <1>1, ReconcileFacts
<1>3. LaterFound \in Sub \cup {None}
  <2>1. Past(txn.work.cursor, FirstFound) \in [0 .. 2 -> Nat]
    BY <1>1, <1>2, ReconcileFacts, PastGrows
  <2>. QED
    BY <1>1, <2>1, ReconcileFacts, LaterType
<1>4. FirstFound.row \in [file : Nat, at : Nat] /\ FirstFound.cause \in Cause
  BY <1>2, RowType DEF Located
<1> DEFINE note == Note("native-input-superseded", First.sub)
<1>5. note \in Event /\ note.event = "native-input-superseded" /\ note.base = None
  <2>1. note \in Event
    BY <1>2, NoteType DEF EventName, Input
  <2>. QED
    BY <2>1 DEF Note
<1> HIDE DEF note
<1> DEFINE event == [note EXCEPT !.by = LaterFound, !.row = FirstFound.row, !.cause = FirstFound.cause]
<1>6. event \in Event
  BY <1>3, <1>4, <1>5 DEF Event
<1>7. /\ event.event = "native-input-superseded" /\ event.by = LaterFound
      /\ event.row = FirstFound.row /\ event.base = None
  BY <1>5 DEF Event
<1>. QED
  BY <1>6, <1>7 DEF SupersededEvent, note

LEMMA SupersedeWorks ==
  ASSUME TypeOK, Supersede
  PROVE  WorksOn(txn'.work) /\ SupersedeEffect(txn'.work, txn.work)
<1> DEFINE d == txn.work
           left == Left(d, FirstFound)
           n == Commit(left, SupersededEvent)
<1>1. txn # None /\ d.pending # <<>> /\ Room(d, 1) /\ Work(n)
  BY DEF Supersede, InReconcile, SupersededEvent
<1>2. /\ txn \in [work : Session, rows : Seq(Row), file : 0 .. 2]
      /\ d \in Session /\ Transcript \in File
      /\ Located(FirstFound, d.cursor, Transcript)
  BY <1>1, ReconcileFacts
<1>3. /\ left \in Session /\ Keeps(left, d, {"pending", "cursor", "waiting"})
      /\ left.pending = Tail(d.pending) /\ left.cursor = Past(d.cursor, FirstFound)
  BY <1>1, <1>2, LeftEffect
<1>4. SupersededEvent \in Event
  BY SupersededEventType
<1> HIDE DEF left, d
<1>5. /\ n \in Session /\ Keeps(n, left, {"revision", "events"}) /\ Logs(n, d, SupersededEvent)
      /\ Keeps(n, d, {"pending", "cursor", "waiting"} \cup {"revision", "events"})
  BY <1>1, <1>2, <1>3, <1>4, FieldEffect
<1>6. WorksOn(n)
  BY <1>1, <1>2, <1>5, WorkEffect
<1>7. n = txn'.work
  BY <1>6 DEF WorksOn
<1> HIDE DEF n
<1>8. n.pending = Tail(d.pending) /\ n.cursor = Past(d.cursor, FirstFound)
  BY <1>3, <1>5 DEF Keeps, Fields
<1>9. Keeps(n, d, {"pending", "cursor", "waiting", "revision", "events"})
  BY <1>5 DEF Keeps
<1>10. SupersedeEffect(n, d)
  BY <1>5, <1>8, <1>9 DEF SupersedeEffect, Resolved
<1>. QED
  BY <1>6, <1>7, <1>10 DEF d

----------------------------------------------------------------------------
(* What the other steps do to the committed session *)

(* One commit: an event that is no row of the transcript. *)
Writes(n, d, names, event) ==
  /\ n \in Session /\ Keeps(n, d, names \cup {"revision", "events"}) /\ Logs(n, d, event)
  /\ event \in Event /\ event.row = NoRow

StageWrites(s) ==
  /\ Writes(db', Loaded, {"pending", "status"}, Note("native-input-staged", s))
  /\ db'.pending = Append(Loaded.pending, [sub |-> s, boundary |-> hook[s].boundary])
  /\ db'.status = "pending-native-origin"

ObserveWrites(s) ==
  /\ Writes(db', Loaded, {"latest", "context", "route", "status", "canonical"}, Note("user-input-observed", s))
  /\ db'.latest = s /\ db'.context = None
  /\ db'.route = IF Loaded.route # None /\ Loaded.route.input # s THEN [Loaded.route EXCEPT !.ready = FALSE]
                 ELSE Loaded.route
  /\ db'.status = IF Loaded.pending = <<>> THEN "observed" ELSE "pending-native-origin"

WaitingEvent == [Note("native-input-waiting", First.sub) EXCEPT !.cause = FirstFound.cause]

WaitWrites ==
  /\ Writes(db', txn.work, {"waiting", "status"}, WaitingEvent)
  /\ db'.waiting = [sub |-> First.sub, cause |-> FirstFound.cause]
  /\ db'.status = "pending-native-origin"

FailureWrites(error) == Writes(db', Loaded, {"failure"}, Note("native-intake-failed", error))

NoticeEvent(d) == [Note("native-input-notice", d.waiting.sub) EXCEPT !.cause = d.waiting.cause]

NoticeWrites ==
  /\ Writes(db', db, {"notified"}, NoticeEvent(db))
  /\ db'.notified = Newest(Append(db.notified, db.waiting.cause))

DeltaWrites(w, revision) ==
  /\ Writes(db', Loaded, {"status"}, AgentEvent("intent-updated", w, revision))
  /\ db'.status = "observed"

RouteWrites(w) ==
  /\ Writes(db', db, {"route", "canonical"}, AgentEvent("response-route-recorded", w, None))
  /\ db'.route = [ready |-> TRUE, input |-> db.latest]

CriteriaWrites(w) == Writes(db', db, {}, AgentEvent("acceptance-criteria-ownership-bound", w, snap[w].revision))

LEMMA NoteFields ==
  ASSUME NEW event, NEW about
  PROVE  /\ Note(event, about).event = event /\ Note(event, about).about = about
         /\ Note(event, about).row = NoRow /\ Note(event, about).base = None
         /\ Note(event, about).by = None /\ Note(event, about).cause = None
  BY DEF Note, NoRow

LEMMA StageStep ==
  ASSUME TypeOK, NEW s \in Sub, Stage(s)
  PROVE  StageWrites(s)
<1>1. Loaded \in Session
  BY LoadedType DEF TypeOK
<1>2. hook[s].boundary \in Boundary /\ Room(Loaded, 1)
  BY DEF TypeOK, Stage
<1>3. /\ db' \in Session /\ Logs(db', Loaded, Note("native-input-staged", s))
      /\ Keeps(db', Loaded, {"revision", "events", "pending", "status"})
      /\ db'.pending = Append(Loaded.pending, [sub |-> s, boundary |-> hook[s].boundary])
      /\ db'.status = "pending-native-origin"
  BY <1>1, <1>2, StageEffect DEF Stage
<1>4. Note("native-input-staged", s) \in Event
  BY NoteType DEF EventName, Input
<1>. QED
  BY <1>3, <1>4, NoteFields DEF StageWrites, Writes, Keeps

LEMMA ObserveStep ==
  ASSUME TypeOK, NEW s \in Sub, Observe(s)
  PROVE  ObserveWrites(s)
<1>1. Loaded \in Session /\ Room(Loaded, 1) /\ db' = NewInput(Loaded, s)
  BY LoadedType DEF TypeOK, Observe
<1>2. /\ db' \in Session /\ Logs(db', Loaded, Note("user-input-observed", s))
      /\ Keeps(db', Loaded, {"revision", "events", "latest", "context", "route", "status", "canonical"})
      /\ db'.latest = s /\ db'.context = None
      /\ db'.route = IF Loaded.route # None /\ Loaded.route.input # s THEN [Loaded.route EXCEPT !.ready = FALSE]
                     ELSE Loaded.route
      /\ db'.status = IF Loaded.pending = <<>> THEN "observed" ELSE "pending-native-origin"
  BY <1>1, NewInputEffect
<1>3. Note("user-input-observed", s) \in Event
  BY NoteType DEF EventName, Input
<1>. QED
  BY <1>2, <1>3, NoteFields DEF ObserveWrites, Writes, Keeps

LEMMA WaitStep ==
  ASSUME TypeOK, CommitWaiting
  PROVE  db' = txn.work \/ WaitWrites
<1>1. txn # None /\ txn.work.pending # <<>>
  BY DEF CommitWaiting
<1>2. txn.work \in Session /\ First.sub \in Sub /\ Located(FirstFound, txn.work.cursor, Transcript)
  BY <1>1, ReconcileFacts
<1>3. FirstFound.cause \in Cause
  BY <1>2 DEF Located
<1> DEFINE waiting == [sub |-> First.sub, cause |-> FirstFound.cause]
           e == [txn.work EXCEPT !.waiting = waiting, !.status = "pending-native-origin"]
<1>4. waiting \in [sub : Sub, cause : Cause]
  BY <1>2, <1>3
<1> HIDE DEF waiting
<1>5. /\ e \in Session /\ Keeps(e, txn.work, {"waiting", "status"})
      /\ e.waiting = waiting /\ e.status = "pending-native-origin"
  <2>1. e \in Session /\ e.waiting = waiting /\ e.status = "pending-native-origin"
    BY <1>2, <1>4 DEF Session
  <2>2. Keeps(e, txn.work, {"waiting", "status"})
    BY <1>2 DEF Session, Keeps, Fields
  <2>. QED
    BY <2>1, <2>2
<1>6. db' = txn.work \/ (Room(txn.work, 1) /\ db' = Commit(e, WaitingEvent))
  BY DEF CommitWaiting, Waited, WaitingEvent, waiting
<1>7. WaitingEvent \in Event /\ WaitingEvent.row = NoRow
  <2> DEFINE note == Note("native-input-waiting", First.sub)
  <2>1. note \in Event /\ note.row = NoRow
    BY <1>2, NoteType, NoteFields DEF EventName, Input
  <2> HIDE DEF note
  <2>2. [note EXCEPT !.cause = FirstFound.cause] \in Event
    BY <1>3, <2>1 DEF Event
  <2>3. [note EXCEPT !.cause = FirstFound.cause].row = NoRow
    BY <2>1 DEF Event
  <2>. QED
    BY <2>2, <2>3 DEF WaitingEvent, note
<1> HIDE DEF e
<1>8. CASE Room(txn.work, 1) /\ db' = Commit(e, WaitingEvent)
  <2>1. /\ db' \in Session /\ Keeps(db', e, {"revision", "events"})
        /\ Keeps(db', txn.work, {"waiting", "status"} \cup {"revision", "events"})
        /\ Logs(db', txn.work, WaitingEvent)
    BY <1>2, <1>5, <1>7, <1>8, FieldEffect
  <2>2. db'.waiting = waiting /\ db'.status = "pending-native-origin"
    BY <1>5, <2>1 DEF Keeps, Fields
  <2>. QED
    BY <1>7, <2>1, <2>2 DEF WaitWrites, Writes, waiting
<1>. QED
  BY <1>6, <1>8

LEMMA FailureStep ==
  ASSUME TypeOK, NEW error \in Errors, RecordFailure(error)
  PROVE  db' = db \/ db' = Loaded \/ FailureWrites(error)
<1>1. Loaded \in Session
  BY LoadedType DEF TypeOK
<1> DEFINE e == [Loaded EXCEPT !.failure = error]
<1>2. e \in Session /\ Keeps(e, Loaded, {"failure"})
  <2>1. e \in Session
    BY <1>1 DEF Session
  <2>2. Keeps(e, Loaded, {"failure"})
    BY <1>1 DEF Session, Keeps, Fields
  <2>. QED
    BY <2>1, <2>2
<1>3. Note("native-intake-failed", error) \in Event
  BY NoteType DEF EventName
<1>4. db' = db \/ db' = Loaded \/ (Room(Loaded, 1) /\ db' = Commit(e, Note("native-intake-failed", error)))
  BY DEF RecordFailure
<1> HIDE DEF e
<1>5. CASE Room(Loaded, 1) /\ db' = Commit(e, Note("native-intake-failed", error))
  <2>1. /\ db' \in Session /\ Keeps(db', Loaded, {"failure"} \cup {"revision", "events"})
        /\ Logs(db', Loaded, Note("native-intake-failed", error))
    BY <1>1, <1>2, <1>3, <1>5, FieldEffect
  <2>. QED
    BY <1>3, <2>1, NoteFields DEF FailureWrites, Writes
<1>. QED
  BY <1>4, <1>5

LEMMA ClaimStep ==
  ASSUME TypeOK, NEW h \in Hook, Claim(h)
  PROVE  db' = db \/ (Due(db) /\ NoticeWrites)
<1>1. SUFFICES ASSUME Due(db), Room(db, 1), db' = Notified(db)
               PROVE  NoticeWrites
  BY DEF Claim
<1>2. db \in Session /\ db.waiting \in [sub : Sub, cause : Cause] /\ db.notified \in Seq(Cause)
  BY <1>1 DEF Due, TypeOK, Session
<1> DEFINE added == Append(db.notified, db.waiting.cause)
           e == [db EXCEPT !.notified = Newest(added)]
<1>3. Newest(added) \in Seq(Cause)
  <2>1. added \in Seq(Cause)
    BY <1>2
  <2> HIDE DEF added
  <2>2. PICK n \in Nat : n = Len(added)
    BY <2>1
  <2>3. \A i \in 1 .. n : added[i] \in Cause
    BY <2>1, <2>2
  <2>4. NoticeLimit \in Nat /\ NoticeLimit # 0
    BY LedgerAssumption, NoticeAssumption
  <2>5. CASE n > NoticeLimit
    <3>1. Newest(added) = SubSeq(added, n - NoticeLimit + 1, n)
      BY <2>2, <2>5 DEF Newest
    <3>2. n - NoticeLimit + 1 \in Int /\ n \in Int /\ n - NoticeLimit + 1 >= 1
      BY <2>4, <2>5
    <3>. QED
      BY <2>3, <3>1, <3>2, SubSeqProperties
  <2>6. CASE ~ n > NoticeLimit
    <3>1. Newest(added) = SubSeq(added, 1, n)
      BY <2>2, <2>6 DEF Newest
    <3>. QED
      BY <2>3, <3>1, SubSeqProperties
  <2>. QED
    BY <2>5, <2>6
<1>4. db' = Commit(e, NoticeEvent(db))
  BY <1>1 DEF Notified, NoticeEvent
<1> HIDE DEF added
<1>5. e \in Session /\ Keeps(e, db, {"notified"}) /\ e.notified = Newest(added)
  <2>1. e \in Session /\ e.notified = Newest(added)
    BY <1>2, <1>3 DEF Session
  <2>2. Keeps(e, db, {"notified"})
    BY <1>2 DEF Session, Keeps, Fields
  <2>. QED
    BY <2>1, <2>2
<1>6. NoticeEvent(db) \in Event /\ NoticeEvent(db).row = NoRow
  <2> DEFINE note == Note("native-input-notice", db.waiting.sub)
  <2>1. note \in Event /\ note.row = NoRow
    BY <1>2, NoteType, NoteFields DEF EventName, Input
  <2> HIDE DEF note
  <2>2. [note EXCEPT !.cause = db.waiting.cause] \in Event
    BY <1>2, <2>1 DEF Event
  <2>3. [note EXCEPT !.cause = db.waiting.cause].row = NoRow
    BY <2>1 DEF Event
  <2>. QED
    BY <2>2, <2>3 DEF NoticeEvent, note
<1> HIDE DEF e
<1>7. /\ db' \in Session /\ Keeps(db', e, {"revision", "events"})
      /\ Keeps(db', db, {"notified"} \cup {"revision", "events"}) /\ Logs(db', db, NoticeEvent(db))
  BY <1>1, <1>2, <1>4, <1>5, <1>6, FieldEffect
<1>8. db'.notified = Newest(added)
  BY <1>5, <1>7 DEF Keeps, Fields
<1>. QED
  BY <1>6, <1>7, <1>8 DEF NoticeWrites, Writes, added

LEMMA AgentEventType ==
  ASSUME TypeOK, NEW event \in EventName, NEW w \in Writer, NEW base \in Nat \cup {None}
  PROVE  /\ AgentEvent(event, w, base) \in Event /\ AgentEvent(event, w, base).row = NoRow
         /\ AgentEvent(event, w, base).base = base /\ AgentEvent(event, w, base).event = event
<1>1. snap[w].input \in Input \cup {None}
  BY DEF TypeOK
<1> DEFINE note == Note(event, snap[w].input)
<1>2. note \in Event /\ note.row = NoRow /\ note.event = event
  BY <1>1, NoteType, NoteFields
<1> HIDE DEF note
<1>3. [note EXCEPT !.base = base] \in Event
  BY <1>2 DEF Event
<1>4. /\ [note EXCEPT !.base = base].row = NoRow /\ [note EXCEPT !.base = base].base = base
      /\ [note EXCEPT !.base = base].event = event
  BY <1>2 DEF Event
<1>. QED
  BY <1>3, <1>4 DEF AgentEvent, note

LEMMA DeltaStep ==
  ASSUME TypeOK, NEW w \in Writer, WriteDelta(w)
  PROVE  \E revision \in Nat \cup {None} :
           Expected(Loaded, snap[w].input, revision, FALSE) /\ DeltaWrites(w, revision)
<1>1. PICK revision \in {None, snap[w].revision} :
        /\ Expected(Loaded, snap[w].input, revision, FALSE) /\ Room(Loaded, 1)
        /\ db' = Commit([Loaded EXCEPT !.status = "observed"], AgentEvent("intent-updated", w, revision))
  BY DEF WriteDelta
<1>2. revision \in Nat \cup {None} /\ Loaded \in Session
  BY LoadedType DEF TypeOK
<1> DEFINE e == [Loaded EXCEPT !.status = "observed"]
           event == AgentEvent("intent-updated", w, revision)
<1>3. e \in Session /\ Keeps(e, Loaded, {"status"}) /\ e.status = "observed"
  <2>1. e \in Session /\ e.status = "observed"
    BY <1>2 DEF Session
  <2>2. Keeps(e, Loaded, {"status"})
    BY <1>2 DEF Session, Keeps, Fields
  <2>. QED
    BY <2>1, <2>2
<1>4. event \in Event /\ event.row = NoRow
  BY <1>2, AgentEventType DEF EventName
<1> HIDE DEF e, event
<1>5. db' = Commit(e, event) /\ Room(Loaded, 1)
  BY <1>1 DEF e, event
<1>6. /\ db' \in Session /\ Keeps(db', e, {"revision", "events"})
      /\ Keeps(db', Loaded, {"status"} \cup {"revision", "events"}) /\ Logs(db', Loaded, event)
  BY <1>2, <1>3, <1>4, <1>5, FieldEffect
<1>7. db'.status = "observed"
  BY <1>3, <1>6 DEF Keeps, Fields
<1>8. DeltaWrites(w, revision)
  BY <1>4, <1>6, <1>7 DEF DeltaWrites, Writes, event
<1>. QED
  BY <1>1, <1>2, <1>8

LEMMA RouteStep ==
  ASSUME TypeOK, NEW w \in Writer, WriteRoute(w)
  PROVE  Expected(db, snap[w].input, None, FALSE) /\ snap[w].input # None /\ RouteWrites(w)
<1>1. /\ Expected(db, snap[w].input, None, FALSE) /\ Room(db, 1) /\ CanonicalBound(db)
      /\ db # None /\ snap[w].input # None
  BY DEF WriteRoute
<1>2. db \in Session /\ snap[w].input \in Input \cup {None} /\ db.events \in Seq(Event)
  BY <1>1 DEF TypeOK, Session
<1>3. db.latest \in Input
  BY <1>1, <1>2 DEF Expected
<1> DEFINE seq == CHOOSE n \in DOMAIN db.events : Observed(db, n, db.latest)
           route == [ready |-> TRUE, input |-> db.latest]
           canonical == [input |-> db.latest, sequence |-> seq]
           e == [db EXCEPT !.route = route, !.canonical = canonical]
           event == AgentEvent("response-route-recorded", w, None)
<1>4. seq \in Nat
  <2>1. \E n \in DOMAIN db.events : Observed(db, n, db.latest)
    BY <1>1 DEF CanonicalBound, Observed
  <2>2. seq \in DOMAIN db.events
    BY <2>1
  <2>. QED
    BY <1>2, <2>2
<1> HIDE DEF seq
<1>5. route \in [ready : BOOLEAN, input : Input] /\ canonical \in [input : Input, sequence : Nat]
  BY <1>3, <1>4
<1> HIDE DEF route, canonical
<1>6. e \in Session /\ Keeps(e, db, {"route", "canonical"}) /\ e.route = route
  <2>1. e \in Session /\ e.route = route
    BY <1>2, <1>5 DEF Session
  <2>2. Keeps(e, db, {"route", "canonical"})
    BY <1>2 DEF Session, Keeps, Fields
  <2>. QED
    BY <2>1, <2>2
<1>7. event \in Event /\ event.row = NoRow
  <2>1. None \in Nat \cup {None} /\ "response-route-recorded" \in EventName
    BY DEF EventName
  <2>. QED
    BY <2>1, AgentEventType
<1>8. db' = Commit(e, event)
  BY DEF WriteRoute, seq, route, canonical
<1> HIDE DEF e, event
<1>9. /\ db' \in Session /\ Keeps(db', e, {"revision", "events"})
      /\ Keeps(db', db, {"route", "canonical"} \cup {"revision", "events"}) /\ Logs(db', db, event)
  BY <1>1, <1>2, <1>6, <1>7, <1>8, FieldEffect
<1>10. db'.route = route
  BY <1>6, <1>9 DEF Keeps, Fields
<1>. QED
  BY <1>1, <1>7, <1>9, <1>10 DEF RouteWrites, Writes, event, route

LEMMA CriteriaStep ==
  ASSUME TypeOK, NEW w \in Writer, BindCriteria(w)
  PROVE  Expected(db, snap[w].input, snap[w].revision, FALSE) /\ CriteriaWrites(w)
<1>1. /\ Expected(db, snap[w].input, snap[w].revision, FALSE) /\ Room(db, 1) /\ db # None
      /\ db' = Commit(db, AgentEvent("acceptance-criteria-ownership-bound", w, snap[w].revision))
  BY DEF BindCriteria
<1>2. db \in Session /\ snap[w].revision \in Nat
  BY <1>1 DEF TypeOK
<1> DEFINE event == AgentEvent("acceptance-criteria-ownership-bound", w, snap[w].revision)
<1>3. event \in Event /\ event.row = NoRow
  BY <1>2, AgentEventType DEF EventName
<1> HIDE DEF event
<1>4. db' \in Session /\ Keeps(db', db, {"revision", "events"}) /\ Logs(db', db, event)
  BY <1>1, <1>2, <1>3, CommitEffect DEF event
<1>. QED
  BY <1>1, <1>3, <1>4 DEF CriteriaWrites, Writes, Keeps, event

----------------------------------------------------------------------------
(* Type correctness *)

Committed == db' \in Session \cup {None}
OthersTyped ==
  /\ txn' \in [work : Session, rows : Seq(Row), file : 0 .. 2] \cup {None}
  /\ text' = text
  /\ transcript' \in File
  /\ appended' \subseteq Sub
  /\ hook' \in [Sub -> [at : {"new", "captured", "done"}, boundary : Boundary]]
  /\ snap' \in [Writer -> [at : {"new", "read", "done"}, input : Input \cup {None}, revision : Nat]]
  /\ peeked' \subseteq Hook
  /\ raised' \subseteq Errors

LEMMA TypeOfParts ==
  ASSUME TypeOK, host' = host, Committed, OthersTyped
  PROVE  TypeOK'
  BY DEF TypeOK, Committed, OthersTyped, File, Row

LEMMA InitType == Init => TypeOK
<1> SUFFICES ASSUME Init PROVE TypeOK
  OBVIOUS
<1>1. <<>> \in Seq(Row) /\ 0 \in 0 .. 2
  OBVIOUS
<1>2. transcript \in [file : 0 .. 2, rows : Seq(Row)]
  BY <1>1 DEF Init
<1>3. hook \in [Sub -> [at : {"new", "captured", "done"}, boundary : Boundary]]
  BY DEF Init, Boundary
<1>4. snap \in [Writer -> [at : {"new", "read", "done"}, input : Input \cup {None}, revision : Nat]]
  BY DEF Init
<1>. QED
  BY <1>2, <1>3, <1>4 DEF Init, TypeOK, Row

LEMMA HostTyped ==
  ASSUME TypeOK, NEW s \in Sub, HostStep(s)
  PROVE  Committed /\ OthersTyped
<1>1. /\ txn \in [work : Session, rows : Seq(Row), file : 0 .. 2] \cup {None} /\ transcript \in File
      /\ appended \subseteq Sub /\ db \in Session \cup {None}
      /\ hook \in [Sub -> [at : {"new", "captured", "done"}, boundary : Boundary]]
      /\ snap \in [Writer -> [at : {"new", "read", "done"}, input : Input \cup {None}, revision : Nat]]
      /\ peeked \subseteq Hook /\ raised \subseteq Errors
  BY DEF TypeOK, Row, File
<1>2. CASE AppendRow(s)
  <2>1. PICK actor \in Origins, tagged \in Tags :
          transcript' = [file |-> IF transcript.file = 0 THEN 1 ELSE transcript.file,
                         rows |-> Append(transcript.rows, [sub |-> s, actor |-> actor, tagged |-> tagged])]
    BY <1>2 DEF AppendRow
  <2>2. actor \in Actor /\ tagged \in BOOLEAN
    <3>1. host \in HostKind
      BY LedgerAssumption DEF TypeOK
    <3>. QED
      BY <3>1 DEF HostKind, Origins, Tags
  <2>3. [sub |-> s, actor |-> actor, tagged |-> tagged] \in Row
    BY <2>2 DEF Row
  <2>4. transcript.file \in 0 .. 2 /\ transcript.rows \in Seq(Row)
    BY <1>1 DEF File
  <2>5. Append(transcript.rows, [sub |-> s, actor |-> actor, tagged |-> tagged]) \in Seq(Row)
    BY <2>3, <2>4
  <2>6. (IF transcript.file = 0 THEN 1 ELSE transcript.file) \in 0 .. 2
    BY <2>4
  <2>7. transcript' \in File
    BY <2>1, <2>5, <2>6 DEF File
  <2>. QED
    BY <1>1, <1>2, <2>7 DEF AppendRow, Committed, OthersTyped
<1>3. CASE Capture(s)
  <2>1. PICK boundary \in {[file |-> transcript.file, offset |-> Len(transcript.rows)], None} :
          hook' = [hook EXCEPT ![s] = [at |-> "captured", boundary |-> boundary]]
    BY <1>3 DEF Capture
  <2>2. transcript.file \in Nat /\ Len(transcript.rows) \in Nat
    BY <1>1 DEF File
  <2>3. boundary \in Boundary
    BY <2>2 DEF Boundary
  <2>4. hook' \in [Sub -> [at : {"new", "captured", "done"}, boundary : Boundary]]
    BY <1>1, <2>1, <2>3
  <2>. QED
    BY <1>1, <1>3, <2>4 DEF Capture, Committed, OthersTyped
<1>4. ASSUME hook' = [hook EXCEPT ![s] = [at |-> "done", boundary |-> None]]
      PROVE  hook' \in [Sub -> [at : {"new", "captured", "done"}, boundary : Boundary]]
  BY <1>1, <1>4 DEF Boundary
<1>5. CASE Stage(s)
  <2>1. db' \in Session
    BY <1>5, StageStep DEF StageWrites, Writes
  <2>. QED
    BY <1>1, <1>4, <1>5, <2>1 DEF Stage, Committed, OthersTyped
<1>6. CASE Observe(s)
  <2>1. db' \in Session
    BY <1>6, ObserveStep DEF ObserveWrites, Writes
  <2>. QED
    BY <1>1, <1>4, <1>6, <2>1 DEF Observe, Committed, OthersTyped
<1>7. CASE HookFails(s)
  BY <1>1, <1>4, <1>7 DEF HookFails, Committed, OthersTyped
<1>. QED
  BY <1>2, <1>3, <1>5, <1>6, <1>7 DEF HostStep

LEMMA ReconcileTyped ==
  ASSUME TypeOK, Reconcile \/ Rollback
  PROVE  Committed /\ OthersTyped
<1>1. /\ txn \in [work : Session, rows : Seq(Row), file : 0 .. 2] \cup {None} /\ transcript \in File
      /\ appended \subseteq Sub /\ db \in Session \cup {None}
      /\ hook \in [Sub -> [at : {"new", "captured", "done"}, boundary : Boundary]]
      /\ snap \in [Writer -> [at : {"new", "read", "done"}, input : Input \cup {None}, revision : Nat]]
      /\ peeked \subseteq Hook /\ raised \subseteq Errors
  BY DEF TypeOK, Row, File
<1>2. CASE BeginReconcile
  <2>1. PICK file \in {transcript.file, 0} : txn' = [work |-> db, rows |-> transcript.rows, file |-> file]
    BY <1>2 DEF BeginReconcile
  <2>2. db \in Session /\ transcript.rows \in Seq(Row) /\ file \in 0 .. 2
    BY <1>1, <1>2 DEF BeginReconcile, File
  <2>3. txn' \in [work : Session, rows : Seq(Row), file : 0 .. 2]
    BY <2>1, <2>2
  <2>. QED
    BY <1>1, <1>2, <2>3 DEF BeginReconcile, Committed, OthersTyped
<1>3. CASE ResolveHuman \/ ResolveOther \/ Supersede
  <2>1. txn' \in [work : Session, rows : Seq(Row), file : 0 .. 2]
    BY <1>3, HumanWorks, OtherWorks, SupersedeWorks DEF WorksOn
  <2>2. InReconcile
    BY <1>3 DEF ResolveHuman, ResolveOther, Supersede
  <2>. QED
    BY <1>1, <2>1, <2>2 DEF InReconcile, Committed, OthersTyped
<1>4. CASE CommitWaiting
  <2>1. txn.work \in Session
    BY <1>1, <1>4 DEF CommitWaiting
  <2>2. db' \in Session
    BY <1>4, <2>1, WaitStep DEF WaitWrites, Writes
  <2>. QED
    BY <1>1, <1>4, <2>2 DEF CommitWaiting, Committed, OthersTyped
<1>5. CASE CommitResolved
  <2>1. db' \in Session
    BY <1>1, <1>5 DEF CommitResolved
  <2>. QED
    BY <1>1, <1>5, <2>1 DEF CommitResolved, Committed, OthersTyped
<1>6. CASE Rollback
  BY <1>1, <1>6 DEF Rollback, Committed, OthersTyped
<1>. QED
  BY <1>2, <1>3, <1>4, <1>5, <1>6 DEF Reconcile

LEMMA WriterTyped ==
  ASSUME TypeOK,
         \/ \E error \in Errors : RecordFailure(error)
         \/ \E h \in Hook : Peek(h) \/ Claim(h)
         \/ \E w \in Writer : AgentStep(w)
         \/ Migrate
  PROVE  Committed /\ OthersTyped
<1>1. /\ txn \in [work : Session, rows : Seq(Row), file : 0 .. 2] \cup {None} /\ transcript \in File
      /\ appended \subseteq Sub /\ db \in Session \cup {None}
      /\ hook \in [Sub -> [at : {"new", "captured", "done"}, boundary : Boundary]]
      /\ snap \in [Writer -> [at : {"new", "read", "done"}, input : Input \cup {None}, revision : Nat]]
      /\ peeked \subseteq Hook /\ raised \subseteq Errors
  BY DEF TypeOK, Row, File
<1>2. Loaded \in Session
  BY <1>1, LoadedType
<1>3. ASSUME NEW error \in Errors, RecordFailure(error) PROVE Committed /\ OthersTyped
  <2>1. db' \in Session \cup {None}
    BY <1>1, <1>2, <1>3, FailureStep DEF FailureWrites, Writes
  <2>. QED
    BY <1>1, <1>3, <2>1 DEF RecordFailure, Committed, OthersTyped
<1>4. ASSUME NEW h \in Hook, Peek(h) PROVE Committed /\ OthersTyped
  BY <1>1, <1>4 DEF Peek, Committed, OthersTyped
<1>5. ASSUME NEW h \in Hook, Claim(h) PROVE Committed /\ OthersTyped
  <2>1. db' \in Session \cup {None}
    BY <1>1, <1>5, ClaimStep DEF NoticeWrites, Writes
  <2>. QED
    BY <1>1, <1>5, <2>1 DEF Claim, Committed, OthersTyped
<1>6. ASSUME NEW w \in Writer, Read(w) PROVE Committed /\ OthersTyped
  <2>1. View \in Session
    BY <1>1, PortableType DEF View
  <2>2. View.latest \in Input \cup {None} /\ View.revision \in Nat
    BY <2>1 DEF Session, Input
  <2>3. snap' \in [Writer -> [at : {"new", "read", "done"}, input : Input \cup {None}, revision : Nat]]
    BY <1>1, <1>6, <2>2 DEF Read
  <2>. QED
    BY <1>1, <1>6, <2>3 DEF Read, Committed, OthersTyped
<1>7. ASSUME NEW w \in Writer, Wrote(w), db' \in Session \cup {None} PROVE Committed /\ OthersTyped
  <2>1. snap' \in [Writer -> [at : {"new", "read", "done"}, input : Input \cup {None}, revision : Nat]]
    BY <1>1, <1>7 DEF Wrote
  <2>. QED
    BY <1>1, <1>7, <2>1 DEF Wrote, Committed, OthersTyped
<1>8. ASSUME NEW w \in Writer, WriteDelta(w) \/ WriteRoute(w) \/ BindCriteria(w) \/ Refused(w)
      PROVE  Committed /\ OthersTyped
  <2>1. Wrote(w)
    BY <1>8 DEF WriteDelta, WriteRoute, BindCriteria, Refused
  <2>2. CASE WriteDelta(w)
    BY <1>7, <2>1, <2>2, DeltaStep DEF DeltaWrites, Writes
  <2>3. CASE WriteRoute(w)
    BY <1>7, <2>1, <2>3, RouteStep DEF RouteWrites, Writes
  <2>4. CASE BindCriteria(w)
    BY <1>7, <2>1, <2>4, CriteriaStep DEF CriteriaWrites, Writes
  <2>5. CASE Refused(w)
    BY <1>1, <1>7, <2>1, <2>5 DEF Refused
  <2>. QED
    BY <1>8, <2>2, <2>3, <2>4, <2>5
<1>9. ASSUME Migrate PROVE Committed /\ OthersTyped
  BY <1>1, <1>2, <1>9 DEF Migrate, Committed, OthersTyped
<1>. QED
  BY <1>3, <1>4, <1>5, <1>6, <1>8, <1>9 DEF AgentStep

LEMMA NextType ==
  ASSUME TypeOK, [Next]_vars
  PROVE  TypeOK'
<1>1. CASE Step /\ host' = host
  <2>1. CASE \E s \in Sub : HostStep(s)
    BY <1>1, <2>1, HostTyped, TypeOfParts
  <2>2. CASE ReplaceTranscript
    <3>1. <<>> \in Seq(Row) /\ 2 \in 0 .. 2
      OBVIOUS
    <3>2. transcript' \in File
      BY <2>2, <3>1 DEF ReplaceTranscript, File
    <3>3. Committed /\ OthersTyped
      BY <2>2, <3>2 DEF TypeOK, ReplaceTranscript, Committed, OthersTyped, Row
    <3>. QED
      BY <1>1, <3>3, TypeOfParts
  <2>3. CASE Reconcile \/ Rollback
    BY <1>1, <2>3, ReconcileTyped, TypeOfParts
  <2>4. CASE \/ \E error \in Errors : RecordFailure(error)
             \/ \E h \in Hook : Peek(h) \/ Claim(h)
             \/ \E w \in Writer : AgentStep(w)
             \/ Migrate
    BY <1>1, <2>4, WriterTyped, TypeOfParts
  <2>5. CASE Idle
    BY <2>5 DEF Idle, vars, TypeOK
  <2>. QED
    BY <1>1, <2>1, <2>2, <2>3, <2>4, <2>5 DEF Step
<1>2. CASE UNCHANGED vars
  BY <1>2 DEF vars, TypeOK
<1>. QED
  BY <1>1, <1>2 DEF Next

(* Type correctness of the ledger, its transaction and its callers: what   *)
(* is staged has a boundary, what is located is a row of the transcript,   *)
(* and the revision stays in its range.                                    *)
THEOREM LedgerTypeCorrect == Spec => []TypeOK
<1>1. TypeOK /\ [Next]_vars => TypeOK'
  BY NextType
<1>. QED
  BY InitType, <1>1, PTL DEF Spec

----------------------------------------------------------------------------
(* The audit log *)

(* The revision counts the events, and a write that named a revision is    *)
(* the next one.                                                           *)
Counted(events, revision) ==
  /\ revision = Len(events)
  /\ \A j \in DOMAIN events : events[j].base # None => events[j].base = j - 1

(* Rows are taken in their order, none beyond the cursor of its file.      *)
RowsTaken(events, cursor) ==
  /\ \A j \in DOMAIN events :
       IF events[j].row.at = 0 THEN events[j].row.file = 0
       ELSE events[j].row.file \in 1 .. 2 /\ events[j].row.at <= cursor[events[j].row.file]
  /\ \A i, j \in DOMAIN events :
       i < j /\ events[i].row.at # 0 /\ events[j].row.file = events[i].row.file
         => events[i].row.at < events[j].row.at

IsNotice(e) == e.event = "native-input-notice"

(* The causes in notified are the causes shown, each once in the log and   *)
(* once in the list.                                                       *)
NoticesShown(events, notified) ==
  /\ \A i, j \in DOMAIN notified : notified[i] = notified[j] => i = j
  /\ \A j \in DOMAIN events : IsNotice(events[j]) => \E i \in DOMAIN notified : notified[i] = events[j].cause
  /\ \A i, j \in DOMAIN events :
       IsNotice(events[i]) /\ IsNotice(events[j]) /\ events[i].cause = events[j].cause => i = j

(* The human input that superseded another is already observed, or it is   *)
(* the one that the look ahead finds now.                                  *)
SupersededBy(events, later) ==
  \A i \in DOMAIN events : events[i].event = "native-input-superseded" =>
    \/ \E k \in i + 1 .. Len(events) : events[k].event = "user-input-observed" /\ events[k].about = events[i].by
    \/ events[i].by # None /\ events[i].by = later

LogHolds(d) ==
  Counted(d.events, d.revision) /\ RowsTaken(d.events, d.cursor) /\ NoticesShown(d.events, d.notified)

LaterNow == LaterHuman(txn.work.pending, txn.work.cursor, Transcript)

LogInv ==
  /\ db # None => LogHolds(db) /\ SupersededBy(db.events, None)
  /\ txn # None => LogHolds(txn.work) /\ SupersededBy(txn.work.events, LaterNow)


LEMMA AppendFacts ==
  ASSUME NEW events \in Seq(Event), NEW event \in Event
  PROVE  /\ Len(events) \in Nat /\ DOMAIN events = 1 .. Len(events)
         /\ Len(Append(events, event)) = Len(events) + 1
         /\ DOMAIN Append(events, event) = 1 .. Len(events) + 1
         /\ Append(events, event) \in Seq(Event)
         /\ \A j \in 1 .. Len(events) : Append(events, event)[j] = events[j]
         /\ Append(events, event)[Len(events) + 1] = event
  OBVIOUS

LEMMA CountedAppend ==
  ASSUME NEW events \in Seq(Event), NEW event \in Event, NEW revision, Counted(events, revision),
         event.base # None => event.base = revision
  PROVE  Counted(Append(events, event), revision + 1)
<1> DEFINE after == Append(events, event)
<1>1. PICK n \in Nat : n = Len(events)
  BY AppendFacts
<1>2. /\ DOMAIN events = 1 .. n /\ DOMAIN after = 1 .. n + 1 /\ Len(after) = n + 1
      /\ \A j \in 1 .. n : after[j] = events[j]
      /\ after[n + 1] = event
  BY <1>1, AppendFacts
<1> HIDE DEF after
<1>3. revision = n
  BY <1>1 DEF Counted
<1>4. ASSUME NEW j \in 1 .. n + 1, after[j].base # None PROVE after[j].base = j - 1
  <2>1. CASE j = n + 1
    BY <1>2, <1>3, <1>4, <2>1
  <2>2. CASE j # n + 1
    <3>1. j \in 1 .. n
      BY <2>2
    <3>. QED
      BY <1>2, <1>4, <3>1 DEF Counted
  <2>. QED
    BY <2>1, <2>2
<1>5. Counted(after, revision + 1)
  BY <1>2, <1>3, <1>4 DEF Counted
<1>. QED
  BY <1>5 DEF after

(* The event names no row, or one between the cursors before and after it. *)
Takes(event, before, after) ==
  \/ event.row = NoRow
  \/ /\ event.row.file \in 1 .. 2
     /\ event.row.at > before[event.row.file] /\ event.row.at <= after[event.row.file]

LEMMA RowsAppend ==
  ASSUME NEW events \in Seq(Event), NEW event \in Event,
         NEW before \in [0 .. 2 -> Nat], NEW after \in [0 .. 2 -> Nat],
         \A f \in 0 .. 2 : after[f] >= before[f],
         RowsTaken(events, before), Takes(event, before, after)
  PROVE  RowsTaken(Append(events, event), after)
<1> DEFINE log == Append(events, event)
<1>1. PICK n \in Nat : n = Len(events)
  BY AppendFacts
<1>2. /\ DOMAIN events = 1 .. n /\ DOMAIN log = 1 .. n + 1
      /\ \A j \in 1 .. n : log[j] = events[j]
      /\ log[n + 1] = event
  BY <1>1, AppendFacts
<1>3. \A j \in 1 .. n + 1 : log[j].row.at \in Nat /\ log[j].row.file \in Nat
  <2>1. \A j \in 1 .. n : events[j] \in Event
    BY <1>2
  <2> HIDE DEF log
  <2>2. \A j \in 1 .. n + 1 : log[j] \in Event
    BY <1>2, <2>1
  <2>. QED
    BY <2>2 DEF Event
<1> HIDE DEF log
<1>4. ASSUME NEW j \in 1 .. n, events[j].row.at # 0
      PROVE  /\ events[j].row.file \in 1 .. 2 /\ events[j].row.at <= before[events[j].row.file]
             /\ events[j].row.at <= after[events[j].row.file]
  <2>1. events[j].row.file \in 1 .. 2 /\ events[j].row.at <= before[events[j].row.file]
    BY <1>2, <1>4 DEF RowsTaken
  <2>2. events[j].row.file \in 0 .. 2
    BY <2>1
  <2>3. /\ before[events[j].row.file] \in Nat /\ after[events[j].row.file] \in Nat
        /\ after[events[j].row.file] >= before[events[j].row.file] /\ events[j].row.at \in Nat
    BY <1>2, <1>3, <2>2
  <2>. QED
    BY <2>1, <2>3
<1>5. ASSUME NEW j \in 1 .. n + 1
      PROVE  IF log[j].row.at = 0 THEN log[j].row.file = 0
             ELSE log[j].row.file \in 1 .. 2 /\ log[j].row.at <= after[log[j].row.file]
  <2>1. CASE j = n + 1
    <3>1. log[j] = event
      BY <1>2, <2>1
    <3>2. CASE event.row = NoRow
      BY <3>1, <3>2 DEF NoRow
    <3>3. CASE event.row # NoRow
      <4>1. event.row.file \in 1 .. 2 /\ event.row.at > before[event.row.file] /\ event.row.at <= after[event.row.file]
        BY <3>3 DEF Takes
      <4>2. before[event.row.file] \in Nat /\ event.row.at \in Nat
        <5>1. event.row.file \in 0 .. 2
          BY <4>1
        <5>. QED
          BY <1>3, <3>1, <5>1
      <4>. QED
        BY <3>1, <4>1, <4>2
    <3>. QED
      BY <3>2, <3>3
  <2>2. CASE j # n + 1
    <3>1. j \in 1 .. n /\ log[j] = events[j]
      BY <1>2, <2>2
    <3>. QED
      BY <1>2, <1>4, <3>1 DEF RowsTaken
  <2>. QED
    BY <2>1, <2>2
<1>6. ASSUME NEW i \in 1 .. n + 1, NEW j \in 1 .. n + 1, i < j, log[i].row.at # 0,
             log[j].row.file = log[i].row.file
      PROVE  log[i].row.at < log[j].row.at
  <2>1. i \in 1 .. n /\ log[i] = events[i]
    BY <1>2, <1>6
  <2>2. CASE j = n + 1
    <3>1. log[j] = event /\ event.row.file \in 1 .. 2
      BY <1>2, <1>4, <1>6, <2>1, <2>2
    <3>2. event.row # NoRow
      BY <3>1 DEF NoRow
    <3>3. event.row.at > before[event.row.file] /\ events[i].row.at <= before[event.row.file]
      BY <1>4, <1>6, <2>1, <3>1, <3>2 DEF Takes
    <3>4. before[event.row.file] \in Nat /\ event.row.at \in Nat /\ events[i].row.at \in Nat
      <4>1. event.row.file \in 0 .. 2 /\ n + 1 \in 1 .. n + 1
        BY <3>1
      <4>. QED
        BY <1>2, <1>3, <2>1, <4>1
    <3>. QED
      BY <2>1, <3>1, <3>3, <3>4
  <2>3. CASE j # n + 1
    <3>1. j \in 1 .. n /\ log[j] = events[j]
      BY <1>2, <2>3
    <3>. QED
      BY <1>2, <1>6, <2>1, <3>1 DEF RowsTaken
  <2>. QED
    BY <2>2, <2>3
<1>7. RowsTaken(log, after)
  BY <1>2, <1>5, <1>6 DEF RowsTaken
<1>. QED
  BY <1>7 DEF log

LEMMA NoticesAppend ==
  ASSUME NEW events \in Seq(Event), NEW event \in Event, NEW notified, NoticesShown(events, notified),
         ~IsNotice(event)
  PROVE  NoticesShown(Append(events, event), notified)
<1> DEFINE log == Append(events, event)
<1>1. PICK n \in Nat : n = Len(events)
  BY AppendFacts
<1>2. /\ DOMAIN events = 1 .. n /\ DOMAIN log = 1 .. n + 1
      /\ \A j \in 1 .. n : log[j] = events[j]
      /\ log[n + 1] = event
  BY <1>1, AppendFacts
<1> HIDE DEF log
<1>3. \A j \in 1 .. n + 1 : IsNotice(log[j]) => j \in 1 .. n /\ log[j] = events[j]
  <2> TAKE j \in 1 .. n + 1
  <2>1. CASE j = n + 1
    BY <1>2, <2>1
  <2>2. CASE j # n + 1
    BY <1>2, <2>2
  <2>. QED
    BY <2>1, <2>2
<1>4. NoticesShown(log, notified)
  BY <1>2, <1>3 DEF NoticesShown
<1>. QED
  BY <1>4 DEF log

(* There are four causes: a list with another one has at most three.       *)
LEMMA NoticeAppend ==
  ASSUME NEW events \in Seq(Event), NEW event \in Event, NEW notified \in Seq(Cause),
         NoticesShown(events, notified), IsNotice(event), event.cause \in Cause,
         event.cause \notin ToSet(notified)
  PROVE  NoticesShown(Append(events, event), Newest(Append(notified, event.cause)))
<1> DEFINE log == Append(events, event)
           c == event.cause
           list == Append(notified, c)
<1>1. PICK n \in Nat : n = Len(events)
  BY AppendFacts
<1>2. /\ DOMAIN events = 1 .. n /\ DOMAIN log = 1 .. n + 1
      /\ \A j \in 1 .. n : log[j] = events[j]
      /\ log[n + 1] = event
  BY <1>1, AppendFacts
<1>3. PICK m \in Nat : m = Len(notified)
  OBVIOUS
<1>4. /\ DOMAIN notified = 1 .. m /\ DOMAIN list = 1 .. m + 1 /\ Len(list) = m + 1
      /\ \A j \in 1 .. m : list[j] = notified[j] /\ notified[j] \in Cause
      /\ list[m + 1] = c /\ list \in Seq(Cause)
  BY <1>3
<1>5. \A j \in 1 .. m : notified[j] # c
  BY <1>4 DEF ToSet
<1> HIDE DEF log, list, c
<1>6. m <= 3
  <2>1. SUFFICES ASSUME m >= 4 PROVE FALSE
    OBVIOUS
  <2>2. 1 \in 1 .. m /\ 2 \in 1 .. m /\ 3 \in 1 .. m /\ 4 \in 1 .. m
    BY <2>1
  <2>3. /\ notified[1] \in Cause /\ notified[2] \in Cause /\ notified[3] \in Cause /\ notified[4] \in Cause
        /\ c \in Cause
    BY <1>4, <2>2 DEF c
  <2>4. /\ notified[1] # notified[2] /\ notified[1] # notified[3] /\ notified[1] # notified[4]
        /\ notified[2] # notified[3] /\ notified[2] # notified[4] /\ notified[3] # notified[4]
    BY <1>4, <2>2 DEF NoticesShown
  <2>5. /\ notified[1] # c /\ notified[2] # c /\ notified[3] # c /\ notified[4] # c
    BY <1>5, <2>2
  <2>. QED
    BY <2>3, <2>4, <2>5 DEF Cause
<1>7. Newest(list) = list
  <2>1. ~ m + 1 > NoticeLimit
    BY <1>6, NoticeAssumption, LedgerAssumption
  <2>2. Newest(list) = SubSeq(list, 1, Len(list))
    BY <1>4, <2>1 DEF Newest
  <2>. QED
    BY <1>4, <2>2, SubSeqFull
<1>8. \A i, j \in 1 .. m + 1 : list[i] = list[j] => i = j
  <2> SUFFICES ASSUME NEW i \in 1 .. m + 1, NEW j \in 1 .. m + 1, list[i] = list[j] PROVE i = j
    OBVIOUS
  <2>1. i = m + 1 \/ i \in 1 .. m
    OBVIOUS
  <2>2. j = m + 1 \/ j \in 1 .. m
    OBVIOUS
  <2>. QED
    BY <1>4, <1>5, <2>1, <2>2 DEF NoticesShown
<1>9. \A j \in 1 .. n + 1 : IsNotice(log[j]) => \E i \in 1 .. m + 1 : list[i] = log[j].cause
  <2> SUFFICES ASSUME NEW j \in 1 .. n + 1, IsNotice(log[j]) PROVE \E i \in 1 .. m + 1 : list[i] = log[j].cause
    OBVIOUS
  <2>1. CASE j = n + 1
    <3>1. m + 1 \in 1 .. m + 1 /\ list[m + 1] = log[j].cause
      BY <1>2, <1>4, <2>1 DEF c
    <3>. QED
      BY <3>1
  <2>2. CASE j # n + 1
    <3>1. j \in 1 .. n /\ log[j] = events[j]
      BY <1>2, <2>2
    <3>2. PICK i \in 1 .. m : notified[i] = log[j].cause
      BY <1>2, <1>4, <3>1 DEF NoticesShown
    <3>3. i \in 1 .. m + 1 /\ list[i] = log[j].cause
      BY <1>4, <3>2
    <3>. QED
      BY <3>3
  <2>. QED
    BY <2>1, <2>2
<1>10. ASSUME NEW i \in 1 .. n + 1, NEW j \in 1 .. n + 1, IsNotice(log[i]), IsNotice(log[j]), log[i].cause = log[j].cause
       PROVE  i = j
  <2>1. ASSUME NEW k \in 1 .. n, IsNotice(events[k]) PROVE events[k].cause # c
    BY <1>2, <1>4, <1>5, <2>1 DEF NoticesShown
  <2>2. i = n + 1 \/ (i \in 1 .. n /\ log[i] = events[i])
    BY <1>2
  <2>3. j = n + 1 \/ (j \in 1 .. n /\ log[j] = events[j])
    BY <1>2
  <2>. QED
    BY <1>2, <1>10, <2>1, <2>2, <2>3 DEF NoticesShown, c
<1>11. NoticesShown(log, list)
  BY <1>2, <1>4, <1>8, <1>9, <1>10 DEF NoticesShown
<1>. QED
  BY <1>7, <1>11 DEF log, list, c

LEMMA SupersededAppend ==
  ASSUME NEW events \in Seq(Event), NEW event \in Event, NEW before, NEW after, SupersededBy(events, before),
         event.event = "native-input-superseded" => event.by # None /\ event.by = after,
         before = None \/ before = after \/ (event.event = "user-input-observed" /\ event.about = before)
  PROVE  SupersededBy(Append(events, event), after)
<1> DEFINE log == Append(events, event)
<1>1. PICK n \in Nat : n = Len(events)
  BY AppendFacts
<1>2. /\ DOMAIN events = 1 .. n /\ DOMAIN log = 1 .. n + 1 /\ Len(log) = n + 1
      /\ \A j \in 1 .. n : log[j] = events[j]
      /\ log[n + 1] = event
  BY <1>1, AppendFacts
<1> HIDE DEF log
<1>3. ASSUME NEW i \in 1 .. n + 1, log[i].event = "native-input-superseded"
      PROVE  \/ \E k \in i + 1 .. n + 1 : log[k].event = "user-input-observed" /\ log[k].about = log[i].by
             \/ log[i].by # None /\ log[i].by = after
  <2>1. CASE i = n + 1
    BY <1>2, <1>3, <2>1
  <2>2. CASE i # n + 1
    <3>1. i \in 1 .. n /\ log[i] = events[i]
      BY <1>2, <2>2
    <3>2. CASE \E k \in i + 1 .. n : events[k].event = "user-input-observed" /\ events[k].about = events[i].by
      <4>1. PICK k \in i + 1 .. n : events[k].event = "user-input-observed" /\ events[k].about = events[i].by
        BY <3>2
      <4>2. k \in 1 .. n /\ k \in i + 1 .. n + 1
        BY <3>1
      <4>. QED
        BY <1>2, <3>1, <4>1, <4>2
    <3>3. CASE events[i].by # None /\ events[i].by = before
      <4>1. CASE event.event = "user-input-observed" /\ event.about = before
        <5>1. n + 1 \in i + 1 .. n + 1
          BY <3>1
        <5>. QED
          BY <1>2, <3>1, <3>3, <4>1, <5>1
      <4>. QED
        BY <3>1, <3>3, <4>1
    <3>. QED
      BY <1>1, <1>2, <1>3, <3>1, <3>2, <3>3 DEF SupersededBy
  <2>. QED
    BY <2>1, <2>2
<1>4. SupersededBy(log, after)
  BY <1>2, <1>3 DEF SupersededBy
<1>. QED
  BY <1>4 DEF log


(* A session whose log holds and that has nothing open. *)
Settled(d) == LogHolds(d) /\ SupersededBy(d.events, None)

LEMMA LoadedSettled ==
  ASSUME TypeOK, db # None => Settled(db)
  PROVE  Settled(Loaded)
<1>1. CASE db # None
  BY <1>1 DEF Loaded
<1>2. CASE db = None
  <2>1. ASSUME NEW d \in Session,
               \/ d.events = <<>> /\ d.revision = 0
               \/ d.events = <<Note("user-input-observed", Old)>> /\ d.revision = 1,
               d.notified = <<>>
        PROVE  Settled(d)
    <3>1. CASE d.events = <<>> /\ d.revision = 0
      BY <2>1, <3>1 DEF Settled, LogHolds, Counted, RowsTaken, NoticesShown, SupersededBy
    <3>2. CASE d.events = <<Note("user-input-observed", Old)>> /\ d.revision = 1
      <4>1. DOMAIN d.events = {1} /\ Len(d.events) = 1 /\ d.events[1] = Note("user-input-observed", Old)
        BY <3>2
      <4>2. /\ d.events[1].event = "user-input-observed" /\ d.events[1].base = None
            /\ d.events[1].row.at = 0 /\ d.events[1].row.file = 0
        BY <4>1 DEF Note
      <4>3. Counted(d.events, d.revision) /\ RowsTaken(d.events, d.cursor)
        BY <3>2, <4>1, <4>2 DEF Counted, RowsTaken
      <4>4. NoticesShown(d.events, d.notified) /\ SupersededBy(d.events, None)
        BY <2>1, <4>1, <4>2 DEF NoticesShown, SupersededBy, IsNotice
      <4>. QED
        BY <4>3, <4>4 DEF Settled, LogHolds
    <3>. QED
      BY <2>1, <3>1, <3>2
  <2>2. /\ \/ Portable.events = <<>> /\ Portable.revision = 0
           \/ Portable.events = <<Note("user-input-observed", Old)>> /\ Portable.revision = 1
        /\ Portable.notified = <<>>
    BY DEF Portable, JsonSession, NewSession
  <2>3. Keeps(Loaded, Portable, {"imported", "route"})
    BY <1>2, PortableType DEF Loaded, Keeps, Session, Fields
  <2>4. Loaded \in Session
    BY LoadedType DEF TypeOK
  <2>5. Loaded.events = Portable.events /\ Loaded.revision = Portable.revision /\ Loaded.notified = Portable.notified
    BY <2>3 DEF Keeps, Fields
  <2>. QED
    BY <2>1, <2>2, <2>4, <2>5
<1>. QED
  BY <1>1, <1>2

(* A commit that is no notice and supersedes nothing. *)
LEMMA WritesSettled ==
  ASSUME NEW d \in Session, NEW n, NEW names, NEW event, Settled(d), Writes(n, d, names, event),
         "cursor" \notin names, "notified" \notin names, ~IsNotice(event),
         event.event # "native-input-superseded", event.base # None => event.base = d.revision
  PROVE  Settled(n)
<1>1. /\ n \in Session /\ event \in Event /\ d.events \in Seq(Event)
      /\ n.events = Append(d.events, event) /\ n.revision = d.revision + 1
      /\ n.cursor = d.cursor /\ n.notified = d.notified /\ d.cursor \in [0 .. 2 -> Nat]
  BY DEF Writes, Logs, Keeps, Fields, Session
<1>2. Counted(n.events, n.revision)
  BY <1>1, CountedAppend DEF Settled, LogHolds
<1>3. RowsTaken(n.events, n.cursor)
  <2>1. Takes(event, d.cursor, d.cursor)
    BY DEF Takes, Writes
  <2>2. \A f \in 0 .. 2 : d.cursor[f] >= d.cursor[f]
    BY <1>1
  <2>. QED
    BY <1>1, <2>1, <2>2, RowsAppend DEF Settled, LogHolds
<1>4. NoticesShown(n.events, n.notified)
  BY <1>1, NoticesAppend DEF Settled, LogHolds
<1>5. SupersededBy(n.events, None)
  BY <1>1, SupersededAppend DEF Settled
<1>. QED
  BY <1>2, <1>3, <1>4, <1>5 DEF Settled, LogHolds

LEMMA NoticeSettled ==
  ASSUME TypeOK, Settled(db), Due(db), NoticeWrites
  PROVE  Settled(db')
<1> DEFINE event == NoticeEvent(db)
<1>1. /\ db \in Session /\ db.waiting \in [sub : Sub, cause : Cause] /\ db.notified \in Seq(Cause)
      /\ db.events \in Seq(Event) /\ db.cursor \in [0 .. 2 -> Nat]
  BY DEF Due, TypeOK, Session
<1>2. /\ event \in Event /\ IsNotice(event) /\ event.cause = db.waiting.cause /\ event.base = None
      /\ event.row = NoRow
  <2> DEFINE note == Note("native-input-notice", db.waiting.sub)
  <2>1. note \in Event /\ note.base = None /\ note.event = "native-input-notice"
    BY <1>1, NoteType, NoteFields DEF EventName, Input
  <2> HIDE DEF note
  <2>2. LET e == [note EXCEPT !.cause = db.waiting.cause]
        IN  e.cause = db.waiting.cause /\ e.base = None /\ e.event = "native-input-notice"
    BY <2>1 DEF Event
  <2>. QED
    BY <2>2 DEF NoticeEvent, note, NoticeWrites, Writes, IsNotice
<1> HIDE DEF event
<1>3. /\ db'.events = Append(db.events, event) /\ db'.revision = db.revision + 1
      /\ db'.cursor = db.cursor /\ db'.notified = Newest(Append(db.notified, event.cause))
  BY <1>2 DEF NoticeWrites, Writes, Logs, Keeps, Fields, event
<1>4. Counted(db'.events, db'.revision)
  BY <1>1, <1>2, <1>3, CountedAppend DEF Settled, LogHolds
<1>5. RowsTaken(db'.events, db'.cursor)
  <2>1. Takes(event, db.cursor, db.cursor) /\ \A f \in 0 .. 2 : db.cursor[f] >= db.cursor[f]
    BY <1>1, <1>2 DEF Takes
  <2>. QED
    BY <1>1, <1>2, <1>3, <2>1, RowsAppend DEF Settled, LogHolds
<1>6. NoticesShown(db'.events, db'.notified)
  <2>1. event.cause \in Cause /\ event.cause \notin ToSet(db.notified)
    BY <1>1, <1>2 DEF Due
  <2>. QED
    BY <1>1, <1>2, <1>3, <2>1, NoticeAppend DEF Settled, LogHolds
<1>7. SupersededBy(db'.events, None)
  BY <1>1, <1>2, <1>3, SupersededAppend DEF Settled, IsNotice
<1>. QED
  BY <1>4, <1>5, <1>6, <1>7 DEF Settled, LogHolds

(* The look ahead of a loop step is the rest of the one before it. *)
LEMMA LaterNext ==
  ASSUME TypeOK, txn # None, txn.work.pending # <<>>
  PROVE  LaterNow = IF FirstFound.actor = "human" THEN First.sub ELSE LaterFound
<1>1. /\ txn.work.pending \in Seq(Staged) /\ txn.work.cursor \in [0 .. 2 -> Nat] /\ Transcript \in File
      /\ FirstFound = Locate(First, txn.work.cursor, Transcript)
      /\ LaterFound = LaterHuman(Tail(txn.work.pending), Past(txn.work.cursor, FirstFound), Transcript)
  BY ReconcileFacts
<1>. QED
  BY <1>1, LaterStep DEF LaterNow, First

(* The look ahead reads what the submissions say, and that never changes.  *)
LEMMA LaterPrimed ==
  ASSUME text' = text
  PROVE  LaterNow' = LaterHuman(txn'.work.pending, txn'.work.cursor, Transcript')
  BY DEF LaterNow, LaterHuman, FoldLeft, MapThenFoldSet, Locate, Matches

LEMMA LaterAfter ==
  ASSUME TypeOK, text' = text, txn # None, txn.work.pending # <<>>, WorksOn(txn'.work), Resolved(txn'.work, txn.work)
  PROVE  LaterNow' = LaterFound
<1>1. Transcript' = Transcript
  BY DEF WorksOn, Transcript
<1>2. LaterNow' = LaterHuman(txn'.work.pending, txn'.work.cursor, Transcript')
  BY LaterPrimed
<1>3. LaterFound = LaterHuman(Tail(txn.work.pending), Past(txn.work.cursor, FirstFound), Transcript)
  BY ReconcileFacts
<1>. QED
  BY <1>1, <1>2, <1>3 DEF Resolved

(* The row that an input takes is between the cursors. *)
LEMMA FirstTakes ==
  ASSUME TypeOK, txn # None, txn.work.pending # <<>>, NEW event, event.row = FirstFound.row
  PROVE  /\ Takes(event, txn.work.cursor, Past(txn.work.cursor, FirstFound))
         /\ Past(txn.work.cursor, FirstFound) \in [0 .. 2 -> Nat]
         /\ \A f \in 0 .. 2 : Past(txn.work.cursor, FirstFound)[f] >= txn.work.cursor[f]
<1>1. /\ txn.work.cursor \in [0 .. 2 -> Nat] /\ Transcript \in File
      /\ Located(FirstFound, txn.work.cursor, Transcript)
  BY ReconcileFacts
<1>2. /\ Past(txn.work.cursor, FirstFound) \in [0 .. 2 -> Nat]
      /\ \A f \in 0 .. 2 : Past(txn.work.cursor, FirstFound)[f] >= txn.work.cursor[f]
      /\ FirstFound.located => Past(txn.work.cursor, FirstFound)[Transcript.file] = FirstFound.row.at
  BY <1>1, PastGrows
<1>3. CASE ~FirstFound.located
  BY <1>1, <1>2, <1>3 DEF Located, Takes
<1>4. CASE FirstFound.located
  <2>1. FirstFound.row.file = Transcript.file /\ Transcript.file \in 1 .. 2
          /\ FirstFound.row.at > txn.work.cursor[Transcript.file] /\ FirstFound.row.at \in Nat
    BY <1>1, <1>4 DEF Located, RowId, File
  <2>. QED
    BY <1>2, <1>4, <2>1 DEF Takes
<1>. QED
  BY <1>2, <1>3, <1>4

LEMMA ReconcileLog ==
  ASSUME TypeOK, LogInv, Reconcile \/ Rollback
  PROVE  LogInv'
<1>1. CASE BeginReconcile
  <2>1. db # None /\ db' = db /\ txn' # None => txn'.work = db
    BY <1>1 DEF BeginReconcile
  <2>2. LogHolds(db) /\ SupersededBy(db.events, None) /\ db' = db /\ txn'.work = db
    BY <1>1 DEF BeginReconcile, LogInv
  <2>3. SupersededBy(db.events, LaterNow')
    BY <2>2 DEF SupersededBy
  <2>. QED
    BY <2>2, <2>3 DEF LogInv
<1>2. ASSUME InReconcile, LogHolds(txn'.work), SupersededBy(txn'.work.events, LaterNow')
      PROVE  LogInv'
  BY <1>2 DEF InReconcile, LogInv
<1>3. ASSUME InReconcile
      PROVE  /\ txn # None /\ txn.work.pending # <<>> /\ txn.work \in Session
             /\ LogHolds(txn.work) /\ SupersededBy(txn.work.events, LaterNow)
             /\ txn.work.events \in Seq(Event) /\ txn.work.cursor \in [0 .. 2 -> Nat]
             /\ First.sub \in Sub /\ Located(FirstFound, txn.work.cursor, Transcript)
  <2>1. txn # None /\ txn.work.pending # <<>>
    BY <1>3 DEF InReconcile
  <2>2. txn.work \in Session
    BY <2>1, ReconcileFacts
  <2>. QED
    BY <2>1, <2>2, ReconcileFacts DEF LogInv, Session
<1>4. CASE ResolveHuman
  <2> DEFINE d == txn.work
             n == txn'.work
             seen == Note("user-input-observed", First.sub)
             event == ResolvedEvent(First.sub, FirstFound)
             past == Past(d.cursor, FirstFound)
  <2>1. InReconcile /\ WorksOn(n) /\ HumanEffect(n, d) /\ FirstFound.actor = "human"
    BY <1>4, HumanWorks DEF ResolveHuman
  <2>2. /\ event \in Event /\ event.event = "native-input-resolved" /\ event.row = FirstFound.row
        /\ event.base = None
    BY <1>3, <2>1, ResolvedEventType
  <2>3. /\ seen \in Event /\ seen.event = "user-input-observed" /\ seen.about = First.sub /\ seen.row = NoRow
        /\ seen.base = None
    BY <1>3, <2>1, NoteType, NoteFields DEF EventName, Input
  <2>4. /\ n.revision = (d.revision + 1) + 1 /\ n.events = Append(Append(d.events, seen), event)
        /\ n.cursor = past /\ n.notified = d.notified /\ Resolved(n, d)
    BY <2>1 DEF HumanEffect, Resolved, Keeps, Fields
  <2>5. Takes(event, d.cursor, past) /\ past \in [0 .. 2 -> Nat] /\ \A f \in 0 .. 2 : past[f] >= d.cursor[f]
    BY <1>3, <2>1, <2>2, FirstTakes
  <2>6. LaterNow = First.sub /\ LaterNow' = LaterFound
    <3>1. text' = text
      BY <2>1 DEF InReconcile
    <3>. QED
      BY <1>3, <2>1, <2>4, <3>1, LaterNext, LaterAfter
  <2> HIDE DEF d, n, seen, event, past
  <2>7. LogHolds(d) /\ SupersededBy(d.events, LaterNow) /\ d.events \in Seq(Event) /\ d.cursor \in [0 .. 2 -> Nat]
    BY <1>3, <2>1 DEF d
  <2>8. Append(d.events, seen) \in Seq(Event)
    BY <2>3, <2>7
  <2>9. Counted(n.events, n.revision)
    <3>1. Counted(Append(d.events, seen), d.revision + 1)
      BY <2>3, <2>7, CountedAppend DEF LogHolds
    <3>. QED
      BY <2>2, <2>4, <2>8, <3>1, CountedAppend
  <2>10. RowsTaken(n.events, n.cursor)
    <3>1. Takes(seen, d.cursor, d.cursor) /\ \A f \in 0 .. 2 : d.cursor[f] >= d.cursor[f]
      BY <2>3, <2>7 DEF Takes
    <3>2. RowsTaken(Append(d.events, seen), d.cursor)
      BY <2>3, <2>7, <3>1, RowsAppend DEF LogHolds
    <3>. QED
      BY <2>2, <2>4, <2>5, <2>7, <2>8, <3>2, RowsAppend
  <2>11. NoticesShown(n.events, n.notified)
    <3>1. NoticesShown(Append(d.events, seen), d.notified)
      BY <2>3, <2>7, NoticesAppend DEF LogHolds, IsNotice
    <3>. QED
      BY <2>2, <2>4, <2>8, <3>1, NoticesAppend DEF IsNotice
  <2>12. SupersededBy(n.events, LaterNow')
    <3>1. SupersededBy(Append(d.events, seen), LaterNow')
      BY <2>3, <2>6, <2>7, SupersededAppend
    <3>. QED
      BY <2>2, <2>4, <2>8, <3>1, SupersededAppend
  <2>. QED
    BY <1>2, <2>1, <2>9, <2>10, <2>11, <2>12 DEF LogHolds, n
<1>5. ASSUME NEW event \in Event, InReconcile, WorksOn(txn'.work), Resolved(txn'.work, txn.work),
             Logs(txn'.work, txn.work, event), txn'.work.notified = txn.work.notified,
             event.row = FirstFound.row, event.base = None, ~IsNotice(event),
             event.event = "native-input-superseded" => event.by # None /\ event.by = LaterFound,
             FirstFound.actor # "human"
      PROVE  LogInv'
  <2> DEFINE d == txn.work
             n == txn'.work
             past == Past(d.cursor, FirstFound)
  <2>1. LogHolds(d) /\ SupersededBy(d.events, LaterNow) /\ d.events \in Seq(Event) /\ d.cursor \in [0 .. 2 -> Nat]
    BY <1>3, <1>5
  <2>2. n.events = Append(d.events, event) /\ n.revision = d.revision + 1 /\ n.cursor = past /\ n.notified = d.notified
    BY <1>5 DEF Logs, Resolved
  <2>3. Takes(event, d.cursor, past) /\ past \in [0 .. 2 -> Nat] /\ \A f \in 0 .. 2 : past[f] >= d.cursor[f]
    BY <1>3, <1>5, FirstTakes
  <2>4. LaterNow = LaterFound /\ LaterNow' = LaterFound
    <3>1. text' = text
      BY <1>5 DEF InReconcile
    <3>. QED
      BY <1>3, <1>5, <3>1, LaterNext, LaterAfter
  <2> HIDE DEF d, n, past
  <2>5. Counted(n.events, n.revision)
    BY <1>5, <2>1, <2>2, CountedAppend DEF LogHolds
  <2>6. RowsTaken(n.events, n.cursor)
    BY <1>5, <2>1, <2>2, <2>3, RowsAppend DEF LogHolds
  <2>7. NoticesShown(n.events, n.notified)
    BY <1>5, <2>1, <2>2, NoticesAppend DEF LogHolds
  <2>8. SupersededBy(n.events, LaterNow')
    BY <1>5, <2>1, <2>2, <2>4, SupersededAppend
  <2>. QED
    BY <1>2, <1>5, <2>5, <2>6, <2>7, <2>8 DEF LogHolds, n
<1>6. CASE ResolveOther
  <2> DEFINE event == ResolvedEvent(First.sub, FirstFound)
  <2>1. /\ InReconcile /\ WorksOn(txn'.work) /\ OtherEffect(txn'.work, txn.work)
        /\ FirstFound.actor # "human"
    BY <1>6, OtherWorks DEF ResolveOther
  <2>2. /\ event \in Event /\ event.event = "native-input-resolved" /\ event.row = FirstFound.row
        /\ event.base = None
    BY <1>3, <2>1, ResolvedEventType
  <2>3. /\ Resolved(txn'.work, txn.work) /\ Logs(txn'.work, txn.work, event)
        /\ txn'.work.notified = txn.work.notified
    BY <2>1 DEF OtherEffect, Keeps, Fields
  <2> HIDE DEF event
  <2>. QED
    BY <1>5, <2>1, <2>2, <2>3 DEF IsNotice
<1>7. CASE Supersede
  <2> DEFINE event == SupersededEvent
  <2>1. /\ InReconcile /\ WorksOn(txn'.work) /\ SupersedeEffect(txn'.work, txn.work)
        /\ ~FirstKnown /\ LaterFound # None
    BY <1>7, SupersedeWorks DEF Supersede
  <2>2. /\ event \in Event /\ event.event = "native-input-superseded" /\ event.by = LaterFound
        /\ event.row = FirstFound.row /\ event.base = None
    BY <1>7, SupersededEventType
  <2>3. /\ Resolved(txn'.work, txn.work) /\ Logs(txn'.work, txn.work, event)
        /\ txn'.work.notified = txn.work.notified
    BY <2>1 DEF SupersedeEffect, Keeps, Fields
  <2>4. FirstFound.actor # "human"
    <3>1. FirstFound.located \/ FirstFound.actor = None
      BY <1>3, <2>1 DEF Located
    <3>. QED
      BY <2>1, <3>1, NoneAssumption DEF FirstKnown, Actor
  <2> HIDE DEF event
  <2>. QED
    BY <1>5, <2>1, <2>2, <2>3, <2>4 DEF IsNotice
<1>8. CASE CommitWaiting
  <2>1. txn # None /\ txn.work.pending # <<>> /\ ~FirstKnown /\ LaterFound = None /\ txn' = None
    BY <1>8 DEF CommitWaiting
  <2>2. txn.work \in Session /\ Located(FirstFound, txn.work.cursor, Transcript) /\ First.sub \in Sub
    BY <2>1, ReconcileFacts
  <2>3. FirstFound.actor # "human"
    <3>1. FirstFound.located \/ FirstFound.actor = None
      BY <2>2 DEF Located
    <3>. QED
      BY <2>1, <3>1, NoneAssumption DEF FirstKnown, Actor
  <2>4. LaterNow = None
    BY <2>1, <2>3, LaterNext
  <2>5. Settled(txn.work)
    BY <2>1, <2>4 DEF LogInv, Settled
  <2>6. Settled(db')
    <3>1. CASE db' = txn.work
      BY <2>5, <3>1
    <3>2. CASE WaitWrites
      <4>1. WaitingEvent.event = "native-input-waiting" /\ WaitingEvent.base = None
        <5> DEFINE note == Note("native-input-waiting", First.sub)
        <5>1. note \in Event /\ note.event = "native-input-waiting" /\ note.base = None
          BY <2>2, NoteType, NoteFields DEF EventName, Input
        <5> HIDE DEF note
        <5>2. LET e == [note EXCEPT !.cause = FirstFound.cause]
              IN  e.event = "native-input-waiting" /\ e.base = None
          BY <5>1 DEF Event
        <5>. QED
          BY <5>2 DEF WaitingEvent, note
      <4>. QED
        BY <2>2, <2>5, <3>2, <4>1, WritesSettled DEF WaitWrites, IsNotice
    <3>. QED
      BY <1>8, <3>1, <3>2, WaitStep
  <2>. QED
    BY <2>1, <2>6 DEF LogInv, Settled
<1>9. CASE CommitResolved
  <2>1. txn # None /\ txn.work.pending = <<>> /\ db' = txn.work /\ txn' = None
    BY <1>9 DEF CommitResolved
  <2>2. LaterNow = None
    BY <2>1, LaterEmpty DEF LaterNow
  <2>. QED
    BY <2>1, <2>2 DEF LogInv
<1>10. CASE Rollback
  BY <1>10 DEF Rollback, LogInv
<1>. QED
  BY <1>1, <1>4, <1>6, <1>7, <1>8, <1>9, <1>10 DEF Reconcile

(* Outside a reconcile only the committed session changes. *)
LEMMA CommittedLog ==
  ASSUME LogInv, txn' = txn, text' = text, db' = db \/ Settled(db')
  PROVE  LogInv'
<1>1. Transcript' = Transcript
  BY DEF Transcript
<1>2. LaterNow' = LaterNow
  BY <1>1, LaterPrimed DEF LaterNow
<1>. QED
  BY <1>2 DEF LogInv, Settled

LEMMA NextLog ==
  ASSUME TypeOK, LogInv, [Next]_vars
  PROVE  LogInv'
<1>1. Settled(Loaded) /\ Loaded \in Session
  BY LoadedSettled, LoadedType DEF LogInv, Settled, TypeOK
<1>2. ASSUME NEW s \in Sub, HostStep(s) PROVE LogInv'
  <2>1. CASE Stage(s)
    <3> DEFINE event == Note("native-input-staged", s)
    <3>0. event.event = "native-input-staged" /\ event.base = None
      BY NoteFields
    <3> HIDE DEF event
    <3>a. Writes(db', Loaded, {"pending", "status"}, event)
      BY <2>1, StageStep DEF StageWrites, event
    <3>1. Settled(db')
      BY <1>1, <3>0, <3>a, WritesSettled DEF IsNotice
    <3>. QED
      BY <2>1, <3>1, CommittedLog DEF Stage
  <2>2. CASE Observe(s)
    <3>1. Settled(db')
      BY <1>1, <2>2, ObserveStep, WritesSettled, NoteFields DEF ObserveWrites, IsNotice
    <3>. QED
      BY <2>2, <3>1, CommittedLog DEF Observe
  <2>3. CASE AppendRow(s) \/ Capture(s) \/ HookFails(s)
    BY <2>3, CommittedLog DEF AppendRow, Capture, HookFails
  <2>. QED
    BY <1>2, <2>1, <2>2, <2>3 DEF HostStep
<1>3. ASSUME NEW error \in Errors, RecordFailure(error) PROVE LogInv'
  <2>1. db' = db \/ Settled(db')
    BY <1>1, <1>3, FailureStep, WritesSettled, NoteFields DEF FailureWrites, IsNotice
  <2>. QED
    BY <1>3, <2>1, CommittedLog DEF RecordFailure
<1>4. ASSUME NEW h \in Hook, Peek(h) \/ Claim(h) PROVE LogInv'
  <2>1. CASE Peek(h)
    BY <2>1, CommittedLog DEF Peek
  <2>2. CASE Claim(h)
    <3>1. db' = db \/ Settled(db')
      BY <2>2, ClaimStep, NoticeSettled DEF LogInv, Settled, Due
    <3>. QED
      BY <2>2, <3>1, CommittedLog DEF Claim
  <2>. QED
    BY <1>4, <2>1, <2>2
<1>5. ASSUME NEW w \in Writer, AgentStep(w) PROVE LogInv'
  <2>1. CASE Read(w) \/ Refused(w)
    BY <2>1, CommittedLog DEF Read, Refused, Wrote
  <2>2. CASE WriteDelta(w)
    <3>1. PICK revision \in Nat \cup {None} :
            Expected(Loaded, snap[w].input, revision, FALSE) /\ DeltaWrites(w, revision)
      BY <2>2, DeltaStep
    <3> DEFINE event == AgentEvent("intent-updated", w, revision)
    <3>2. event.base = revision /\ event.event = "intent-updated"
      BY AgentEventType DEF EventName
    <3> HIDE DEF event
    <3>3. Settled(db')
      BY <1>1, <3>1, <3>2, WritesSettled DEF DeltaWrites, Expected, IsNotice, event
    <3>. QED
      BY <2>2, <3>3, CommittedLog DEF WriteDelta, Wrote
  <2>3. CASE WriteRoute(w)
    <3> DEFINE event == AgentEvent("response-route-recorded", w, None)
    <3>1. event.base = None /\ event.event = "response-route-recorded"
      <4>1. None \in Nat \cup {None} /\ "response-route-recorded" \in EventName
        BY DEF EventName
      <4>. QED
        BY <4>1, AgentEventType
    <3> HIDE DEF event
    <3>2. Settled(db) /\ db \in Session
      BY <2>3 DEF WriteRoute, LogInv, Settled, TypeOK
    <3>3. Settled(db')
      BY <2>3, <3>1, <3>2, RouteStep, WritesSettled DEF RouteWrites, IsNotice, event
    <3>. QED
      BY <2>3, <3>3, CommittedLog DEF WriteRoute, Wrote
  <2>4. CASE BindCriteria(w)
    <3> DEFINE event == AgentEvent("acceptance-criteria-ownership-bound", w, snap[w].revision)
    <3>1. event.base = snap[w].revision /\ event.event = "acceptance-criteria-ownership-bound"
      <4>1. snap[w].revision \in Nat \cup {None} /\ "acceptance-criteria-ownership-bound" \in EventName
        BY DEF EventName, TypeOK
      <4>. QED
        BY <4>1, AgentEventType
    <3> HIDE DEF event
    <3>2. Settled(db) /\ db \in Session
      BY <2>4 DEF BindCriteria, LogInv, Settled, TypeOK
    <3>3. CriteriaWrites(w) /\ Expected(db, snap[w].input, snap[w].revision, FALSE)
      BY <2>4, CriteriaStep
    <3>4. event.base # None => event.base = db.revision
      BY <3>1, <3>3 DEF Expected
    <3>5. Settled(db')
      BY <3>1, <3>2, <3>3, <3>4, WritesSettled DEF CriteriaWrites, IsNotice, event
    <3>. QED
      BY <2>4, <3>5, CommittedLog DEF BindCriteria, Wrote
  <2>. QED
    BY <1>5, <2>1, <2>2, <2>3, <2>4 DEF AgentStep
<1>6. CASE Migrate
  BY <1>1, <1>6, CommittedLog DEF Migrate
<1>7. CASE ReplaceTranscript \/ Idle \/ UNCHANGED vars
  BY <1>7, CommittedLog DEF ReplaceTranscript, Idle, vars
<1>. QED
  BY <1>2, <1>3, <1>4, <1>5, <1>6, <1>7, ReconcileLog DEF Next, Step

LEMMA LogAlways == Spec => [](TypeOK /\ LogInv)
<1>1. Init => LogInv
  BY DEF Init, LogInv
<1>2. TypeOK /\ LogInv /\ [Next]_vars => (TypeOK /\ LogInv)'
  BY NextType, NextLog
<1>. QED
  BY InitType, <1>1, <1>2, PTL DEF Spec

(* An agent that names the revision it read writes the next one, whatever  *)
(* hooks, reconciles and other agents committed meanwhile: _check_expected *)
(* in the transaction that writes.                                         *)
THEOREM NoUpdateIsLost == Spec => []NoLostUpdate
<1>1. TypeOK /\ LogInv => NoLostUpdate
  BY DEF LogInv, LogHolds, Counted, NoLostUpdate, Audit
<1>. QED
  BY LogAlways, <1>1, PTL

(* However often a reconcile is rolled back and run again, and whichever   *)
(* inputs say the same, a row of the transcript settles one staged input   *)
(* at most and the inputs take their rows in order.                        *)
THEOREM RowsSettleOnce == Spec => []RowsOnce
<1>1. TypeOK /\ LogInv => RowsOnce
  BY DEF LogInv, LogHolds, RowsTaken, RowsOnce, Audit
<1>. QED
  BY LogAlways, <1>1, PTL

(* What _later_located_human looked ahead to, the loop that looked resolves*)
(* in the same transaction: the input that superseded another becomes the  *)
(* user's latest.                                                          *)
THEOREM SupersededHasHuman == Spec => []SupersededByHuman
<1>1. TypeOK /\ LogInv => SupersededByHuman
  BY DEF LogInv, SupersededBy, SupersededByHuman, Audit, Is
<1>. QED
  BY LogAlways, <1>1, PTL

(* claim_native_input_notice checks again under the write lock: hooks that *)
(* peeked at once show one notice per cause, for any number of hooks.      *)
THEOREM NoticeIsShownOnce == Spec => []NoticeOnce
<1>1. TypeOK /\ LogInv => NoticeOnce
  BY DEF LogInv, LogHolds, NoticesShown, NoticeOnce, Audit, Is, IsNotice
<1>. QED
  BY LogAlways, <1>1, PTL

----------------------------------------------------------------------------
(* The register of the user's latest input *)

(* The inputs that were observed as the user's. *)
Users(d) ==
  {e.about : e \in {d.events[n] : n \in {k \in DOMAIN d.events : Observed(d, k, d.events[k].about)}}}

Ready(d) == IF d.route # None /\ d.route.ready THEN d.route.input ELSE None

Open(d) == d.status \notin {"pending-native-origin", "context-only"}

(* The latest input was observed, an input is staged once and not both     *)
(* staged and observed, and the status says whether the ledger is open.    *)
IntakeHolds(d) ==
  /\ Users(d) \subseteq Input
  /\ d.latest # None => d.latest \in Users(d)
  /\ \A i, j \in DOMAIN d.pending : d.pending[i].sub = d.pending[j].sub => i = j
  /\ \A i \in DOMAIN d.pending : d.pending[i].sub \notin Users(d)
  /\ Open(d) <=> d.pending = <<>> /\ d.context = None

(* A submission whose hook has yet to run is in no session. *)
Fresh(d, hooks) ==
  \A s \in Sub : hooks[s].at # "done" => s \notin Users(d) /\ \A i \in DOMAIN d.pending : d.pending[i].sub # s

(* What a reconcile has made of the committed session so far: it adopted   *)
(* new inputs, or at most withdrew the route.                              *)
MadeFrom(n, d) ==
  /\ ~Open(d)
  /\ Users(d) \subseteq Users(n)
  /\ \/ n.latest = d.latest /\ Users(n) = Users(d) /\ Ready(n) \in {Ready(d), None}
     \/ n.latest \in Input \ Users(d) /\ Ready(n) = None

IntakeInv ==
  /\ db # None => IntakeHolds(db) /\ Fresh(db, hook)
  /\ txn # None => db # None /\ IntakeHolds(txn.work) /\ Fresh(txn.work, hook) /\ MadeFrom(txn.work, db)


LEMMA UsersDef ==
  ASSUME NEW d, NEW x
  PROVE  x \in Users(d) <=>
           \E k \in DOMAIN d.events : d.events[k].event = "user-input-observed" /\ d.events[k].about = x
  BY DEF Users, Observed

LEMMA UsersKept ==
  ASSUME NEW d, NEW n, n.events = d.events
  PROVE  Users(n) = Users(d)
<1>1. \A x : x \in Users(n) <=> x \in Users(d)
  BY UsersDef
<1>. QED
  BY <1>1 DEF Users

LEMMA UsersAppend ==
  ASSUME NEW d, d.events \in Seq(Event), NEW event \in Event, NEW n, n.events = Append(d.events, event)
  PROVE  Users(n) = Users(d) \cup (IF event.event = "user-input-observed" THEN {event.about} ELSE {})
<1>1. d.events \in Seq(Event)
  OBVIOUS
<1>2. PICK m \in Nat : m = Len(d.events)
  BY <1>1
<1>3. /\ DOMAIN d.events = 1 .. m /\ DOMAIN n.events = 1 .. m + 1
      /\ \A j \in 1 .. m : n.events[j] = d.events[j]
      /\ n.events[m + 1] = event
  BY <1>1, <1>2, AppendFacts
<1>4. ASSUME NEW x, x \in Users(d) PROVE x \in Users(n)
  <2>1. PICK k \in 1 .. m : d.events[k].event = "user-input-observed" /\ d.events[k].about = x
    BY <1>3, <1>4, UsersDef
  <2>2. k \in 1 .. m + 1
    OBVIOUS
  <2>. QED
    BY <1>3, <2>1, <2>2, UsersDef
<1>5. ASSUME event.event = "user-input-observed" PROVE event.about \in Users(n)
  <2>1. m + 1 \in 1 .. m + 1
    OBVIOUS
  <2>. QED
    BY <1>3, <1>5, <2>1, UsersDef
<1>6. ASSUME NEW x, x \in Users(n), x \notin Users(d) PROVE event.event = "user-input-observed" /\ x = event.about
  <2>1. PICK k \in 1 .. m + 1 : n.events[k].event = "user-input-observed" /\ n.events[k].about = x
    BY <1>3, <1>6, UsersDef
  <2>2. k = m + 1
    <3>1. SUFFICES ASSUME k \in 1 .. m PROVE FALSE
      OBVIOUS
    <3>. QED
      BY <1>3, <1>6, <2>1, <3>1, UsersDef
  <2>. QED
    BY <1>3, <2>1, <2>2
<1>. QED
  BY <1>4, <1>5, <1>6

LEMMA ReadyIsLatest ==
  ASSUME NEW d, RouteHolds(d)
  PROVE  Ready(d) \in {None, d.latest} /\ (Ready(d) # None => d.context = None)
  BY DEF RouteHolds, Ready

(* What the authority of a session depends on is the same. *)
Alike(n, d) ==
  Users(n) = Users(d) /\ n.latest = d.latest /\ n.pending = d.pending /\ (Open(n) <=> Open(d))
    /\ n.context = d.context

LEMMA AlikeHolds ==
  ASSUME NEW d, NEW n, NEW hooks, NEW later, IntakeHolds(d), Fresh(d, hooks), Alike(n, d),
         \A s \in Sub : later[s].at # "done" => hooks[s].at # "done"
  PROVE  IntakeHolds(n) /\ Fresh(n, later)
  BY DEF IntakeHolds, Fresh, Alike

LEMMA WritesAlike ==
  ASSUME NEW d \in Session, NEW n, NEW names, NEW event, Writes(n, d, names, event),
         names \cap {"latest", "pending", "context"} = {}, Open(n) <=> Open(d),
         event.event # "user-input-observed"
  PROVE  Alike(n, d)
<1>1. n.events = Append(d.events, event) /\ event \in Event /\ d.events \in Seq(Event)
  BY DEF Writes, Logs, Session
<1>2. Users(n) = Users(d)
  BY <1>1, UsersAppend
<1>3. n.latest = d.latest /\ n.pending = d.pending /\ n.context = d.context
  BY DEF Writes, Keeps, Fields
<1>. QED
  BY <1>2, <1>3 DEF Alike

LEMMA StatusKept ==
  ASSUME NEW d, NEW n, n.status = d.status
  PROVE  Open(n) <=> Open(d)
  BY DEF Open

LEMMA PortableIntake ==
  /\ Users(Portable) \subseteq {Old} /\ Portable.pending = <<>> /\ Portable.context = None
  /\ Portable.latest # None => Portable.latest \in Users(Portable)
  /\ Open(Portable) /\ Portable.latest \in {Old, None}
<1>1. CASE "imported" \notin Faults
  <2>1. Portable = NewSession
    BY <1>1 DEF Portable
  <2>2. Portable.events = <<>> /\ Portable.latest = None /\ Portable.pending = <<>> /\ Portable.context = None
          /\ Portable.status = "pending"
    BY <2>1 DEF NewSession
  <2>3. Users(Portable) = {}
    BY <2>2, UsersDef
  <2>. QED
    BY <2>2, <2>3 DEF Open
<1>2. CASE "imported" \in Faults
  <2>1. Portable = JsonSession
    BY <1>2 DEF Portable
  <2>2. /\ Portable.events = <<Note("user-input-observed", Old)>> /\ Portable.latest = Old
        /\ Portable.pending = <<>> /\ Portable.context = None /\ Portable.status = "observed"
    BY <2>1 DEF JsonSession, NewSession
  <2>3. DOMAIN Portable.events = {1} /\ Portable.events[1].event = "user-input-observed"
          /\ Portable.events[1].about = Old
    BY <2>2, NoteFields
  <2>4. Users(Portable) = {Old}
    <3>1. \A x : x \in Users(Portable) <=> x = Old
      BY <2>3, UsersDef
    <3>. QED
      BY <3>1
  <2>. QED
    BY <2>2, <2>4 DEF Open
<1>. QED
  BY <1>1, <1>2

LEMMA LoadedFields ==
  db = None => Keeps(Loaded, Portable, {"imported", "route"}) /\ Ready(Loaded) = None
<1> SUFFICES ASSUME db = None PROVE Keeps(Loaded, Portable, {"imported", "route"}) /\ Ready(Loaded) = None
  OBVIOUS
<1>1. Keeps(Loaded, Portable, {"imported", "route"})
  BY PortableType DEF Loaded, Keeps, Session, Fields
<1>2. Loaded.route = IF Portable.route = None THEN None ELSE [Portable.route EXCEPT !.ready = FALSE]
  BY PortableType DEF Loaded, Session
<1>3. Portable.route # None => Portable.route \in [ready : BOOLEAN, input : Input]
  BY PortableType DEF Session
<1>4. Ready(Loaded) = None
  BY <1>2, <1>3 DEF Ready
<1>. QED
  BY <1>1, <1>4

LEMMA LoadedIntake ==
  ASSUME TypeOK, db # None => IntakeHolds(db) /\ Fresh(db, hook)
  PROVE  IntakeHolds(Loaded) /\ Fresh(Loaded, hook)
<1>1. CASE db # None
  BY <1>1 DEF Loaded
<1>2. CASE db = None
  <2>1. Keeps(Loaded, Portable, {"imported", "route"})
    BY <1>2, LoadedFields
  <2>2. /\ Loaded.events = Portable.events /\ Loaded.latest = Portable.latest /\ Loaded.status = Portable.status
        /\ Loaded.pending = Portable.pending /\ Loaded.context = Portable.context
    BY <2>1 DEF Keeps, Fields
  <2>3. Users(Loaded) = Users(Portable) /\ (Open(Loaded) <=> Open(Portable))
    BY <2>2, UsersKept, StatusKept
  <2>4. Old \in Input /\ Old \notin Sub
    BY LedgerAssumption DEF Input
  <2>5. DOMAIN Loaded.pending = {}
    BY <2>2, PortableIntake
  <2>. QED
    BY <2>2, <2>3, <2>4, <2>5, PortableIntake DEF IntakeHolds, Fresh
<1>. QED
  BY <1>1, <1>2

(* A submission is staged: it was in no session. *)
LEMMA StageIntake ==
  ASSUME TypeOK, NEW s \in Sub, Stage(s), IntakeHolds(Loaded), Fresh(Loaded, hook)
  PROVE  /\ IntakeHolds(db') /\ Fresh(db', hook') /\ ~Open(db')
         /\ Users(db') = Users(Loaded) /\ db'.latest = Loaded.latest /\ Ready(db') = Ready(Loaded)
<1> DEFINE d == Loaded
           n == db'
           o == [sub |-> s, boundary |-> hook[s].boundary]
<1>1. StageWrites(s)
  BY StageStep
<1>2. d \in Session /\ d.pending \in Seq(Staged) /\ d.events \in Seq(Event)
  BY LoadedType DEF TypeOK, Session
<1>3. o \in Staged /\ o.sub = s
  BY DEF TypeOK, Staged
<1>4. hook[s].at # "done" /\ hook' = [hook EXCEPT ![s] = [at |-> "done", boundary |-> None]]
  BY DEF Stage
<1>5. \A r \in Sub : hook'[r].at # "done" => hook[r].at # "done" /\ r # s
  BY <1>4 DEF TypeOK
<1>6. n.latest = d.latest /\ n.route = d.route /\ n.pending = Append(d.pending, o) /\ ~Open(n)
        /\ n.context = d.context
  BY <1>1 DEF StageWrites, Writes, Keeps, Fields, Open
<1>7. Users(n) = Users(d)
  <2> DEFINE event == Note("native-input-staged", s)
  <2>1. event \in Event /\ n.events = Append(d.events, event)
    BY <1>1 DEF StageWrites, Writes, Logs
  <2>2. event.event = "native-input-staged"
    BY NoteFields
  <2> HIDE DEF event, d, n
  <2>. QED
    BY <1>2, <2>1, <2>2, UsersAppend
<1> HIDE DEF d, n, o
<1>8. PICK m \in Nat : m = Len(d.pending)
  BY <1>2
<1>9. /\ DOMAIN d.pending = 1 .. m /\ DOMAIN n.pending = 1 .. m + 1 /\ n.pending # <<>>
      /\ \A j \in 1 .. m : n.pending[j] = d.pending[j]
      /\ n.pending[m + 1] = o
  <2>1. n.pending = Append(d.pending, o)
    BY <1>6
  <2>. QED
    BY <1>2, <1>3, <1>8, <2>1, AppendProperties
<1>10. IntakeHolds(d) /\ Fresh(d, hook)
  BY DEF d
<1>11. s \notin Users(d) /\ \A i \in 1 .. m : d.pending[i].sub # s
  BY <1>4, <1>9, <1>10 DEF Fresh
<1>12. \A i \in 1 .. m + 1 : (i = m + 1 /\ n.pending[i].sub = s) \/ (i \in 1 .. m /\ n.pending[i] = d.pending[i])
  BY <1>3, <1>9
<1>13. \A i, j \in 1 .. m + 1 : n.pending[i].sub = n.pending[j].sub => i = j
  BY <1>9, <1>10, <1>11, <1>12 DEF IntakeHolds
<1>14. \A i \in 1 .. m + 1 : n.pending[i].sub \notin Users(n)
  BY <1>7, <1>9, <1>10, <1>11, <1>12 DEF IntakeHolds
<1>15. IntakeHolds(n)
  BY <1>6, <1>7, <1>9, <1>10, <1>13, <1>14 DEF IntakeHolds
<1>16. Fresh(n, hook')
  BY <1>5, <1>7, <1>9, <1>10, <1>12 DEF Fresh
<1>. QED
  BY <1>6, <1>7, <1>15, <1>16 DEF n, d, Ready

LEMMA RouteOfAnother ==
  ASSUME NEW d \in Session, RouteHolds(d), NEW s, s # d.latest, NEW n,
         n.route = IF d.route # None /\ d.route.input # s THEN [d.route EXCEPT !.ready = FALSE] ELSE d.route
  PROVE  Ready(n) = None
<1>1. d.route # None => d.route \in [ready : BOOLEAN, input : Input]
  BY DEF Session
<1>2. CASE d.route = None
  BY <1>2 DEF Ready
<1>3. CASE d.route # None /\ d.route.input # s
  BY <1>1, <1>3 DEF Ready
<1>4. CASE d.route # None /\ d.route.input = s
  BY <1>1, <1>4 DEF Ready, RouteHolds
<1>. QED
  BY <1>2, <1>3, <1>4

(* The Codex hook records an input that was in no session. *)
LEMMA ObserveIntake ==
  ASSUME TypeOK, NEW s \in Sub, Observe(s), IntakeHolds(Loaded), Fresh(Loaded, hook), RouteHolds(Loaded)
  PROVE  /\ IntakeHolds(db') /\ Fresh(db', hook')
         /\ Users(db') = Users(Loaded) \cup {s} /\ db'.latest = s /\ Ready(db') = None /\ s \notin Users(Loaded)
<1> DEFINE d == Loaded
           n == db'
<1>1. ObserveWrites(s)
  BY ObserveStep
<1>2. d \in Session /\ d.pending = <<>> /\ s # None /\ s \in Input /\ d.events \in Seq(Event)
  BY LoadedType, LedgerAssumption DEF TypeOK, Observe, Expected, Input, Session
<1>3. hook[s].at # "done" /\ hook' = [hook EXCEPT ![s] = [at |-> "done", boundary |-> None]]
  BY DEF Observe
<1>4. \A r \in Sub : hook'[r].at # "done" => hook[r].at # "done" /\ r # s
  BY <1>3 DEF TypeOK
<1>5. s \notin Users(d)
  BY <1>3 DEF Fresh
<1>6. n.latest = s /\ n.context = None /\ n.pending = <<>> /\ Open(n)
        /\ n.route = IF d.route # None /\ d.route.input # s THEN [d.route EXCEPT !.ready = FALSE] ELSE d.route
  BY <1>1, <1>2 DEF ObserveWrites, Writes, Keeps, Fields, Open
<1>7. Users(n) = Users(d) \cup {s}
  <2>1. Note("user-input-observed", s) \in Event /\ n.events = Append(d.events, Note("user-input-observed", s))
    BY <1>1 DEF ObserveWrites, Writes, Logs
  <2>. QED
    BY <1>2, <2>1, UsersAppend, NoteFields
<1>8. Ready(n) = None
  <2>1. s # d.latest
    BY <1>2, <1>5 DEF IntakeHolds
  <2> HIDE DEF d, n
  <2>. QED
    BY <1>2, <1>6, <2>1, RouteOfAnother DEF d
<1> HIDE DEF n
<1>9. IntakeHolds(n)
  BY <1>2, <1>6, <1>7 DEF IntakeHolds
<1>10. Fresh(n, hook')
  BY <1>4, <1>6, <1>7 DEF Fresh
<1>. QED
  BY <1>5, <1>6, <1>7, <1>8, <1>9, <1>10 DEF n


LEMMA TailFacts ==
  ASSUME NEW q \in Seq(Staged), q # <<>>, \A i, j \in DOMAIN q : q[i].sub = q[j].sub => i = j
  PROVE  /\ \A i, j \in DOMAIN Tail(q) : Tail(q)[i].sub = Tail(q)[j].sub => i = j
         /\ \A i \in DOMAIN Tail(q) : Tail(q)[i].sub # q[1].sub /\ \E k \in DOMAIN q : Tail(q)[i] = q[k]
         /\ 1 \in DOMAIN q
<1>1. PICK m \in Nat : m = Len(q)
  OBVIOUS
<1>2. /\ DOMAIN q = 1 .. m /\ m # 0 /\ DOMAIN Tail(q) = 1 .. m - 1
      /\ \A i \in 1 .. m - 1 : Tail(q)[i] = q[i + 1]
  BY <1>1
<1>3. \A i \in 1 .. m - 1 : i + 1 \in 1 .. m /\ i + 1 # 1
  BY <1>1
<1>4. \A i, j \in 1 .. m - 1 : i + 1 = j + 1 => i = j
  OBVIOUS
<1>5. 1 \in 1 .. m
  BY <1>2
<1> DEFINE tail == Tail(q)
<1> HIDE DEF tail
<1>6. \A i \in 1 .. m - 1 : tail[i] = q[i + 1]
  BY <1>2 DEF tail
<1>7. \A i \in 1 .. m - 1 : tail[i].sub # q[1].sub /\ \E k \in 1 .. m : tail[i] = q[k]
  BY <1>2, <1>3, <1>5, <1>6
<1>8. \A i, j \in 1 .. m - 1 : tail[i].sub = tail[j].sub => i = j
  BY <1>2, <1>3, <1>4, <1>6
<1>. QED
  BY <1>2, <1>5, <1>7, <1>8 DEF tail

(* The first input leaves the queue, as the user's or not.                 *)
LEMMA ResolvedIntake ==
  ASSUME NEW d \in Session, d.pending # <<>>, IntakeHolds(d), Fresh(d, hook),
         NEW n, n.pending = Tail(d.pending),
         \/ Users(n) = Users(d) /\ n.latest = d.latest
         \/ Users(n) = Users(d) \cup {d.pending[1].sub} /\ n.latest = d.pending[1].sub,
         Open(n) <=> n.pending = <<>> /\ n.context = None
  PROVE  IntakeHolds(n) /\ Fresh(n, hook)
<1>1. d.pending \in Seq(Staged) /\ \A i \in DOMAIN d.pending : d.pending[i].sub \in Sub
  <2>1. d.pending \in Seq(Staged)
    BY DEF Session
  <2>2. \A i \in DOMAIN d.pending : d.pending[i] \in Staged
    BY <2>1
  <2>. QED
    BY <2>1, <2>2 DEF Staged
<1>2. /\ \A i, j \in DOMAIN n.pending : n.pending[i].sub = n.pending[j].sub => i = j
      /\ \A i \in DOMAIN n.pending : n.pending[i].sub # d.pending[1].sub
                                       /\ \E k \in DOMAIN d.pending : n.pending[i] = d.pending[k]
      /\ 1 \in DOMAIN d.pending
  BY <1>1, TailFacts DEF IntakeHolds
<1>3. \A i \in DOMAIN n.pending : n.pending[i].sub \notin Users(n)
  BY <1>2 DEF IntakeHolds
<1>4. Users(n) \subseteq Input /\ (n.latest # None => n.latest \in Users(n))
  BY <1>1, <1>2 DEF IntakeHolds, Input
<1>5. Fresh(n, hook)
  BY <1>2 DEF Fresh
<1>. QED
  BY <1>2, <1>3, <1>4, <1>5 DEF IntakeHolds

LEMMA MadeFromSelf ==
  ASSUME NEW d, ~Open(d)
  PROVE  MadeFrom(d, d)
  BY DEF MadeFrom

LEMMA ReconcileIntake ==
  ASSUME TypeOK, RouteInv, IntakeInv, BeginReconcile \/ ResolveHuman \/ ResolveOther \/ Supersede
  PROVE  IntakeInv' /\ db' = db
<1>1. CASE BeginReconcile
  <2>1. /\ db # None /\ db.pending # <<>> /\ IntakeHolds(db) /\ Fresh(db, hook)
        /\ db' = db /\ hook' = hook /\ txn'.work = db
    BY <1>1 DEF BeginReconcile, IntakeInv
  <2>2. MadeFrom(db, db)
    BY <2>1, MadeFromSelf DEF IntakeHolds
  <2>. QED
    BY <2>1, <2>2 DEF IntakeInv
<1>2. ASSUME InReconcile
      PROVE  /\ txn # None /\ txn.work.pending # <<>> /\ txn.work \in Session /\ RouteHolds(txn.work)
             /\ IntakeHolds(txn.work) /\ Fresh(txn.work, hook) /\ MadeFrom(txn.work, db)
             /\ First.sub \in Sub /\ Located(FirstFound, txn.work.cursor, Transcript)
             /\ txn.work.events \in Seq(Event) /\ db # None /\ db' = db /\ hook' = hook
             /\ First.sub \notin Users(txn.work)
  <2>1. txn # None /\ txn.work.pending # <<>>
    BY <1>2 DEF InReconcile
  <2>2. txn.work \in Session /\ txn.work.pending \in Seq(Staged)
    BY <2>1, ReconcileFacts
  <2>3. 1 \in DOMAIN txn.work.pending
    BY <2>1, <2>2
  <2>4. First.sub \notin Users(txn.work)
    BY <2>1, <2>3 DEF IntakeInv, IntakeHolds, First
  <2>. QED
    BY <1>2, <2>1, <2>2, <2>4, ReconcileFacts DEF InReconcile, IntakeInv, RouteInv, Session
<1>3. ASSUME InReconcile, IntakeHolds(txn'.work), Fresh(txn'.work, hook), MadeFrom(txn'.work, db)
      PROVE  IntakeInv' /\ db' = db
  BY <1>2, <1>3 DEF IntakeInv
<1>4. CASE ResolveHuman
  <2> DEFINE d == txn.work
             n == txn'.work
             s == First.sub
             seen == Note("user-input-observed", s)
             event == ResolvedEvent(s, FirstFound)
  <2>1. InReconcile /\ HumanEffect(n, d)
    BY <1>4, HumanWorks DEF ResolveHuman
  <2>2. event \in Event /\ event.event = "native-input-resolved"
    BY <1>2, <2>1, ResolvedEventType
  <2>3. seen \in Event /\ seen.event = "user-input-observed" /\ seen.about = s
    BY <1>2, <2>1, NoteType, NoteFields DEF EventName, Input
  <2>4. /\ n.events = Append(Append(d.events, seen), event) /\ n.pending = Tail(d.pending)
        /\ n.latest = s /\ n.context = None /\ s = d.pending[1].sub
        /\ n.route = IF d.route # None /\ d.route.input # s THEN [d.route EXCEPT !.ready = FALSE] ELSE d.route
        /\ Open(n) <=> n.pending = <<>> /\ n.context = None
    BY <2>1 DEF HumanEffect, Resolved, Open, First
  <2>5. /\ d.pending # <<>> /\ d \in Session /\ RouteHolds(d) /\ IntakeHolds(d) /\ Fresh(d, hook)
        /\ MadeFrom(d, db) /\ s \in Sub /\ d.events \in Seq(Event) /\ s \notin Users(d)
    BY <1>2, <2>1
  <2> HIDE DEF d, n, s, seen, event
  <2>6. Users(n) = Users(d) \cup {s}
    <3> DEFINE m == [events |-> Append(d.events, seen)]
    <3>1. m.events = Append(d.events, seen) /\ m.events \in Seq(Event)
      BY <2>3, <2>5
    <3> HIDE DEF m
    <3>2. Users(m) = Users(d) \cup {s}
      BY <2>3, <2>5, <3>1, UsersAppend
    <3>3. Users(n) = Users(m)
      BY <2>2, <2>4, <3>1, UsersAppend
    <3>. QED
      BY <3>2, <3>3
  <2>7. IntakeHolds(n) /\ Fresh(n, hook)
    BY <2>4, <2>5, <2>6, ResolvedIntake
  <2>8. Ready(n) = None
    <3>1. s # d.latest
      BY <2>5, LedgerAssumption DEF IntakeHolds
    <3>2. n.route = IF d.route # None /\ d.route.input # s THEN [d.route EXCEPT !.ready = FALSE] ELSE d.route
      BY <2>4
    <3>3. d \in Session /\ RouteHolds(d)
      BY <2>5
    <3>. QED
      BY <3>1, <3>2, <3>3, RouteOfAnother
  <2>9. MadeFrom(n, db)
    BY <2>4, <2>5, <2>6, <2>8 DEF MadeFrom, Input
  <2>. QED
    BY <1>3, <2>1, <2>7, <2>9 DEF n
<1>5. ASSUME InReconcile, Resolved(txn'.work, txn.work), NEW event \in Event, Logs(txn'.work, txn.work, event),
             event.event # "user-input-observed", txn'.work.latest = txn.work.latest,
             Ready(txn'.work) \in {Ready(txn.work), None},
             Open(txn'.work) <=> txn'.work.pending = <<>> /\ txn'.work.context = None
      PROVE  IntakeInv' /\ db' = db
  <2> DEFINE d == txn.work
             n == txn'.work
  <2>1. /\ d.pending # <<>> /\ d \in Session /\ IntakeHolds(d) /\ Fresh(d, hook)
        /\ MadeFrom(d, db) /\ d.events \in Seq(Event)
    BY <1>2, <1>5
  <2>2. n.events = Append(d.events, event) /\ n.pending = Tail(d.pending) /\ n.latest = d.latest
    BY <1>5 DEF Logs, Resolved
  <2> HIDE DEF d, n
  <2>3. Users(n) = Users(d)
    <3>1. d.events \in Seq(Event) /\ n.events = Append(d.events, event) /\ event \in Event
      BY <1>5, <2>1, <2>2
    <3>2. event.event # "user-input-observed"
      BY <1>5
    <3>. QED
      BY <3>1, <3>2, UsersAppend
  <2>4. IntakeHolds(n) /\ Fresh(n, hook)
    BY <1>5, <2>1, <2>2, <2>3, ResolvedIntake DEF n
  <2>5. MadeFrom(n, db)
    BY <1>5, <2>1, <2>2, <2>3 DEF MadeFrom, n, d
  <2>. QED
    BY <1>3, <1>5, <2>4, <2>5 DEF n
<1>6. CASE ResolveOther
  <2> DEFINE event == ResolvedEvent(First.sub, FirstFound)
  <2>1. InReconcile /\ OtherEffect(txn'.work, txn.work)
    BY <1>6, OtherWorks DEF ResolveOther
  <2>2. event \in Event /\ event.event = "native-input-resolved"
    BY <1>2, <2>1, ResolvedEventType
  <2> HIDE DEF event
  <2>3. /\ Resolved(txn'.work, txn.work) /\ Logs(txn'.work, txn.work, event)
        /\ txn'.work.latest = txn.work.latest
    BY <2>1 DEF OtherEffect, Keeps, Fields, event
  <2>4. Ready(txn'.work) \in {Ready(txn.work), None}
    <3>1. txn.work.route # None => txn.work.route \in [ready : BOOLEAN, input : Input]
      BY <1>2, <2>1 DEF Session
    <3>. QED
      BY <2>1, <3>1 DEF OtherEffect, Ready
  <2>5. Open(txn'.work) <=> txn'.work.pending = <<>> /\ txn'.work.context = None
    BY <2>1 DEF OtherEffect, StatusAfter, Open
  <2>. QED
    BY <1>5, <2>1, <2>2, <2>3, <2>4, <2>5
<1>7. CASE Supersede
  <2> DEFINE event == SupersededEvent
  <2>1. InReconcile /\ SupersedeEffect(txn'.work, txn.work) /\ LaterFound # None
    BY <1>7, SupersedeWorks DEF Supersede
  <2>2. event \in Event /\ event.event = "native-input-superseded"
    BY <1>7, SupersededEventType
  <2> HIDE DEF event
  <2>3. /\ Resolved(txn'.work, txn.work) /\ Logs(txn'.work, txn.work, event)
        /\ txn'.work.latest = txn.work.latest /\ txn'.work.route = txn.work.route
        /\ txn'.work.status = txn.work.status
    BY <2>1 DEF SupersedeEffect, Keeps, Fields, event
  <2>4. txn'.work.pending # <<>>
    <3>1. LaterFound = LaterHuman(Tail(txn.work.pending), Past(txn.work.cursor, FirstFound), Transcript)
      BY <1>2, <2>1, ReconcileFacts
    <3>. QED
      BY <2>1, <2>3, <3>1, LaterEmpty DEF Resolved
  <2>5. Open(txn'.work) <=> txn'.work.pending = <<>> /\ txn'.work.context = None
    <3>1. ~Open(txn.work)
      BY <1>2, <2>1 DEF IntakeHolds
    <3>. QED
      BY <2>3, <2>4, <3>1, StatusKept
  <2>6. Ready(txn'.work) = Ready(txn.work)
    BY <2>3 DEF Ready
  <2>. QED
    BY <1>5, <2>1, <2>2, <2>3, <2>5, <2>6
<1>. QED
  BY <1>1, <1>4, <1>6, <1>7

----------------------------------------------------------------------------
(* Refinement of AbstractAuthority *)

SameInput(n, d) == n.latest = d.latest /\ Users(n) = Users(d)

(* The steps of the register, between two sessions. *)
Stays(d, n) == SameInput(n, d) /\ Ready(n) = Ready(d) /\ (Open(n) <=> Open(d))
Receives(d, n) == SameInput(n, d) /\ Ready(n) = Ready(d) /\ ~Open(n)
Adopts(d, n) ==
  /\ n.latest \in Input \ Users(d) /\ n.latest \in Users(n)
  /\ Users(d) \subseteq Users(n) /\ Users(n) \subseteq Input
  /\ Ready(n) = None
Dismisses(d, n) == SameInput(n, d) /\ ~Open(d) /\ Ready(n) \in {Ready(d), None}
Routes(d, n) == SameInput(n, d) /\ Open(d) /\ d.latest # None /\ Ready(n) = d.latest /\ (Open(n) <=> Open(d))

RegisterStep(d, n) == Stays(d, n) \/ Receives(d, n) \/ Adopts(d, n) \/ Dismisses(d, n) \/ Routes(d, n)

(* The committed session, as a caller that loads it for an update sees it, *)
(* takes a step of the register.                                           *)
TakesStep == db' \in Session /\ RegisterStep(Loaded, db')

LEMMA AlikeStays ==
  ASSUME NEW d, NEW n, Alike(n, d), n.route = d.route
  PROVE  Stays(d, n)
  BY DEF Alike, Stays, SameInput, Ready

(* A transaction commits what it made of the session. *)
LEMMA CommitStep ==
  ASSUME NEW d, NEW n, MadeFrom(n, d), IntakeHolds(n)
  PROVE  Dismisses(d, n) \/ Adopts(d, n)
<1>1. CASE n.latest = d.latest /\ Users(n) = Users(d) /\ Ready(n) \in {Ready(d), None}
  BY <1>1 DEF MadeFrom, Dismisses, SameInput
<1>2. CASE n.latest \in Input \ Users(d) /\ Ready(n) = None
  <2>1. n.latest # None
    BY <1>2, LedgerAssumption DEF Input
  <2>. QED
    BY <1>2, <2>1 DEF MadeFrom, Adopts, IntakeHolds
<1>. QED
  BY <1>1, <1>2 DEF MadeFrom

LEMMA UnhookedKeeps ==
  ASSUME IntakeInv, db' = db, txn' = txn, \A s \in Sub : hook'[s].at # "done" => hook[s].at # "done"
  PROVE  IntakeInv'
  BY DEF IntakeInv, Fresh

LEMMA WrittenKeeps ==
  ASSUME txn' = None, IntakeHolds(db'), Fresh(db', hook')
  PROVE  IntakeInv'
  BY DEF IntakeInv

(* A write that leaves what authority depends on. *)
LEMMA AlikeWrite ==
  ASSUME txn' = None, hook' = hook, NEW d, IntakeHolds(d), Fresh(d, hook), Alike(db', d)
  PROVE  IntakeInv'
<1>1. IntakeHolds(db') /\ Fresh(db', hook)
  BY AlikeHolds
<1>. QED
  BY <1>1, WrittenKeeps

LEMMA HostIntake ==
  ASSUME TypeOK, RouteInv, IntakeInv, NEW s \in Sub, HostStep(s)
  PROVE  IntakeInv' /\ (db' = db \/ TakesStep)
<1>1. IntakeHolds(Loaded) /\ Fresh(Loaded, hook)
  BY LoadedIntake DEF IntakeInv
<1>2. CASE AppendRow(s)
  BY <1>2, UnhookedKeeps DEF AppendRow
<1>3. CASE Capture(s)
  <2>1. PICK boundary : hook' = [hook EXCEPT ![s] = [at |-> "captured", boundary |-> boundary]]
    BY <1>3 DEF Capture
  <2>2. \A r \in Sub : hook'[r].at # "done" => hook[r].at # "done"
    BY <1>3, <2>1 DEF Capture, TypeOK
  <2>. QED
    BY <1>3, <2>2, UnhookedKeeps DEF Capture
<1>4. CASE HookFails(s)
  <2>1. \A r \in Sub : hook'[r].at # "done" => hook[r].at # "done"
    BY <1>4 DEF HookFails, TypeOK
  <2>. QED
    BY <1>4, <2>1, UnhookedKeeps DEF HookFails
<1>5. CASE Stage(s)
  <2>1. /\ IntakeHolds(db') /\ Fresh(db', hook') /\ ~Open(db')
        /\ Users(db') = Users(Loaded) /\ db'.latest = Loaded.latest /\ Ready(db') = Ready(Loaded)
    BY <1>1, <1>5, StageIntake
  <2>2. db' \in Session
    BY <1>5, StageStep DEF StageWrites, Writes
  <2>3. txn' = None
    BY <1>5 DEF Stage
  <2>4. Receives(Loaded, db')
    BY <2>1 DEF Receives, SameInput
  <2>. QED
    BY <2>1, <2>2, <2>3, <2>4, WrittenKeeps DEF TakesStep, RegisterStep
<1>6. CASE Observe(s)
  <2>1. RouteHolds(Loaded)
    BY LoadedHolds DEF RouteInv
  <2>2. /\ IntakeHolds(db') /\ Fresh(db', hook')
        /\ Users(db') = Users(Loaded) \cup {s} /\ db'.latest = s /\ Ready(db') = None /\ s \notin Users(Loaded)
    BY <1>1, <1>6, <2>1, ObserveIntake
  <2>3. db' \in Session
    BY <1>6, ObserveStep DEF ObserveWrites, Writes
  <2>4. txn' = None
    BY <1>6 DEF Observe
  <2>5. Users(db') \subseteq Input /\ s \in Input
    BY <2>2 DEF IntakeHolds, Input
  <2>6. Adopts(Loaded, db')
    BY <2>2, <2>5 DEF Adopts
  <2>. QED
    BY <2>2, <2>3, <2>4, <2>6, WrittenKeeps DEF TakesStep, RegisterStep
<1>. QED
  BY <1>2, <1>3, <1>4, <1>5, <1>6 DEF HostStep

LEMMA CommitIntake ==
  ASSUME TypeOK, IntakeInv, CommitWaiting \/ CommitResolved
  PROVE  IntakeInv' /\ TakesStep
<1> DEFINE n == txn.work
<1>1. txn # None /\ txn' = None /\ hook' = hook
  BY DEF CommitWaiting, CommitResolved
<1>2. /\ db # None /\ IntakeHolds(n) /\ Fresh(n, hook) /\ MadeFrom(n, db)
      /\ n \in Session
  BY <1>1 DEF IntakeInv, TypeOK
<1>3. Loaded = db
  BY <1>2 DEF Loaded
<1>4. CASE db' = n
  <2>1. Dismisses(db, db') \/ Adopts(db, db')
    BY <1>2, <1>4, CommitStep
  <2>. QED
    BY <1>1, <1>2, <1>3, <1>4, <2>1, WrittenKeeps DEF TakesStep, RegisterStep
<1>5. CASE CommitWaiting /\ WaitWrites
  <2>1. n.pending # <<>> /\ ~Open(n)
    BY <1>2, <1>5 DEF CommitWaiting, IntakeHolds
  <2>2. WaitingEvent.event # "user-input-observed"
    BY DEF WaitingEvent, Note
  <2>3. db'.status = "pending-native-origin" /\ Writes(db', n, {"waiting", "status"}, WaitingEvent)
    BY <1>5 DEF WaitWrites
  <2>4. ~Open(db') /\ db' \in Session
    BY <2>3 DEF Open, Writes
  <2>5. Alike(db', n)
    <3>1. {"waiting", "status"} \cap {"latest", "pending", "context"} = {}
      OBVIOUS
    <3>. QED
      BY <1>2, <2>1, <2>2, <2>3, <2>4, <3>1, WritesAlike
  <2>6. db'.route = n.route
    BY <2>3 DEF Writes, Keeps, Fields
  <2>7. Ready(db') = Ready(n) /\ Users(db') = Users(n) /\ db'.latest = n.latest
    BY <2>5, <2>6 DEF Ready, Alike
  <2>8. MadeFrom(db', db)
    BY <1>2, <2>7 DEF MadeFrom
  <2>9. IntakeHolds(db') /\ Fresh(db', hook)
    BY <1>2, <2>5, AlikeHolds
  <2>10. Dismisses(db, db') \/ Adopts(db, db')
    BY <2>8, <2>9, CommitStep
  <2>. QED
    BY <1>1, <1>3, <2>4, <2>9, <2>10, WrittenKeeps DEF TakesStep, RegisterStep
<1>. QED
  BY <1>4, <1>5, WaitStep DEF CommitResolved

LEMMA RollbackIntake ==
  ASSUME IntakeInv, Rollback
  PROVE  IntakeInv' /\ db' = db
  BY DEF IntakeInv, Rollback

(* The other writers. *)
LEMMA WriterIntake ==
  ASSUME TypeOK, RouteInv, IntakeInv,
         \/ \E error \in Errors : RecordFailure(error)
         \/ \E h \in Hook : Peek(h) \/ Claim(h)
         \/ \E w \in Writer : AgentStep(w)
         \/ Migrate
  PROVE  IntakeInv' /\ (db' = db \/ TakesStep)
<1>1. IntakeHolds(Loaded) /\ Fresh(Loaded, hook) /\ Loaded \in Session
  BY LoadedIntake, LoadedType DEF IntakeInv, TypeOK
<1>2. ASSUME db' = db, txn' = txn, hook' = hook PROVE IntakeInv'
  BY <1>2, UnhookedKeeps
<1>3. ASSUME txn' = None, hook' = hook, NEW names, NEW event, Writes(db', Loaded, names, event),
             names \cap {"latest", "pending", "context"} = {}, Open(db') <=> Open(Loaded),
             event.event # "user-input-observed"
      PROVE  IntakeInv' /\ db' \in Session /\ Alike(db', Loaded)
  <2>1. Alike(db', Loaded)
    BY <1>1, <1>3, WritesAlike
  <2>. QED
    BY <1>1, <1>3, <2>1, AlikeWrite DEF Writes
<1>4. ASSUME txn' = None, hook' = hook, NEW names, NEW event, Writes(db', Loaded, names, event),
             names \cap {"latest", "pending", "context", "status", "route"} = {},
             event.event # "user-input-observed"
      PROVE  IntakeInv' /\ TakesStep
  <2>1. db'.status = Loaded.status /\ db'.route = Loaded.route
    BY <1>4 DEF Writes, Keeps, Fields
  <2>2. names \cap {"latest", "pending", "context"} = {} /\ (Open(db') <=> Open(Loaded))
    BY <1>4, <2>1, StatusKept
  <2>3. IntakeInv' /\ db' \in Session /\ Alike(db', Loaded)
    BY <1>3, <1>4, <2>2
  <2>. QED
    BY <2>1, <2>3, AlikeStays DEF TakesStep, RegisterStep
<1>5. ASSUME txn' = None, hook' = hook, db' = Loaded PROVE IntakeInv' /\ TakesStep
  <2>1. Alike(db', Loaded)
    BY <1>5 DEF Alike
  <2>. QED
    BY <1>1, <1>5, <2>1, AlikeWrite, AlikeStays DEF TakesStep, RegisterStep
<1>6. ASSUME NEW error \in Errors, RecordFailure(error) PROVE IntakeInv' /\ (db' = db \/ TakesStep)
  <2>1. txn' = txn /\ txn' = None /\ hook' = hook
    BY <1>6 DEF RecordFailure
  <2>2. Note("native-intake-failed", error).event # "user-input-observed"
    BY NoteFields
  <2>3. CASE FailureWrites(error)
    <3>1. {"failure"} \cap {"latest", "pending", "context", "status", "route"} = {}
      OBVIOUS
    <3>. QED
      BY <1>4, <2>1, <2>2, <2>3, <3>1 DEF FailureWrites
  <2>. QED
    BY <1>2, <1>5, <1>6, <2>1, <2>3, FailureStep
<1>7. ASSUME NEW h \in Hook, Peek(h) PROVE IntakeInv' /\ db' = db
  BY <1>2, <1>7 DEF Peek
<1>8. ASSUME NEW h \in Hook, Claim(h) PROVE IntakeInv' /\ (db' = db \/ TakesStep)
  <2>1. txn' = txn /\ txn' = None /\ hook' = hook
    BY <1>8 DEF Claim
  <2>2. CASE Due(db) /\ NoticeWrites
    <3>1. Loaded = db
      BY <2>2 DEF Due, Loaded
    <3>2. NoticeEvent(db).event # "user-input-observed"
      BY DEF NoticeEvent, Note
    <3>3. {"notified"} \cap {"latest", "pending", "context", "status", "route"} = {}
      OBVIOUS
    <3>. QED
      BY <1>4, <2>1, <2>2, <3>1, <3>2, <3>3 DEF NoticeWrites
  <2>. QED
    BY <1>2, <1>8, <2>1, <2>2, ClaimStep
<1>9. ASSUME NEW w \in Writer, Wrote(w) PROVE txn' = txn /\ txn' = None /\ hook' = hook
  BY <1>9 DEF Wrote
<1>10. ASSUME NEW w \in Writer, Read(w) \/ Refused(w) PROVE IntakeInv' /\ db' = db
  BY <1>2, <1>9, <1>10 DEF Read, Refused
<1>11. ASSUME NEW w \in Writer, WriteDelta(w) PROVE IntakeInv' /\ TakesStep
  <2>1. Wrote(w)
    BY <1>11 DEF WriteDelta
  <2>2. PICK revision \in Nat \cup {None} :
          Expected(Loaded, snap[w].input, revision, FALSE) /\ DeltaWrites(w, revision)
    BY <1>11, DeltaStep
  <2>3. Open(Loaded)
    BY <1>1, <2>2 DEF Expected, IntakeHolds
  <2>4. Open(db')
    BY <2>2 DEF DeltaWrites, Open
  <2>5. AgentEvent("intent-updated", w, revision).event # "user-input-observed"
    BY <2>2, AgentEventType DEF EventName
  <2>6. {"status"} \cap {"latest", "pending", "context"} = {}
    OBVIOUS
  <2>7. Writes(db', Loaded, {"status"}, AgentEvent("intent-updated", w, revision))
    BY <2>2 DEF DeltaWrites
  <2>8. IntakeInv' /\ db' \in Session /\ Alike(db', Loaded)
    BY <1>3, <1>9, <2>1, <2>3, <2>4, <2>5, <2>6, <2>7
  <2>9. db'.route = Loaded.route
    BY <2>7 DEF Writes, Keeps, Fields
  <2>. QED
    BY <2>8, <2>9, AlikeStays DEF TakesStep, RegisterStep
<1>12. ASSUME NEW w \in Writer, WriteRoute(w) PROVE IntakeInv' /\ TakesStep
  <2>1. Wrote(w) /\ db # None
    BY <1>12 DEF WriteRoute
  <2>2. Loaded = db
    BY <2>1 DEF Loaded
  <2>3. Expected(db, snap[w].input, None, FALSE) /\ snap[w].input # None /\ RouteWrites(w)
    BY <1>12, RouteStep
  <2>4. Open(db) /\ db.latest # None
    BY <1>1, <2>2, <2>3 DEF Expected, IntakeHolds
  <2>5. AgentEvent("response-route-recorded", w, None).event # "user-input-observed"
    BY AgentEventType DEF EventName
  <2>6. {"route", "canonical"} \cap {"latest", "pending", "context"} = {}
    OBVIOUS
  <2>7. /\ Writes(db', db, {"route", "canonical"}, AgentEvent("response-route-recorded", w, None))
        /\ db'.route = [ready |-> TRUE, input |-> db.latest]
    BY <2>3 DEF RouteWrites
  <2>8. Open(db') <=> Open(db)
    <3>1. db'.status = db.status
      BY <2>7 DEF Writes, Keeps, Fields
    <3>. QED
      BY <3>1, StatusKept
  <2>9. IntakeInv' /\ db' \in Session /\ Alike(db', db)
    BY <1>3, <1>9, <2>1, <2>2, <2>5, <2>6, <2>7, <2>8
  <2>10. Ready(db') = db.latest
    <3>1. db'.route # None
      <4>1. db.latest \in Input
        BY <2>2, <2>4, <1>1 DEF Session
      <4>2. [ready |-> TRUE, input |-> db.latest] \in [ready : BOOLEAN, input : Input]
        BY <4>1
      <4>. QED
        BY <2>7, <4>2, NoneAssumption
    <3>. QED
      BY <2>7, <3>1 DEF Ready
  <2>11. Routes(db, db')
    BY <2>4, <2>8, <2>9, <2>10 DEF Routes, SameInput, Alike
  <2>. QED
    BY <2>2, <2>9, <2>11 DEF TakesStep, RegisterStep
<1>13. ASSUME NEW w \in Writer, BindCriteria(w) PROVE IntakeInv' /\ TakesStep
  <2>1. Wrote(w) /\ db # None
    BY <1>13 DEF BindCriteria
  <2>2. Loaded = db
    BY <2>1 DEF Loaded
  <2>3. CriteriaWrites(w)
    BY <1>13, CriteriaStep
  <2>4. AgentEvent("acceptance-criteria-ownership-bound", w, snap[w].revision).event # "user-input-observed"
    BY AgentEventType DEF EventName, TypeOK
  <2>. QED
    BY <1>4, <1>9, <2>1, <2>2, <2>3, <2>4 DEF CriteriaWrites
<1>14. CASE Migrate
  BY <1>5, <1>14 DEF Migrate
<1>. QED
  BY <1>6, <1>7, <1>8, <1>10, <1>11, <1>12, <1>13, <1>14 DEF AgentStep

LEMMA NextIntake ==
  ASSUME TypeOK, RouteInv, IntakeInv, [Next]_vars
  PROVE  IntakeInv' /\ host' = host /\ (db' = db \/ TakesStep)
<1>1. CASE Step /\ host' = host
  <2>1. CASE \E s \in Sub : HostStep(s)
    BY <1>1, <2>1, HostIntake
  <2>2. CASE ReplaceTranscript
    BY <1>1, <2>2, UnhookedKeeps DEF ReplaceTranscript
  <2>3. CASE Reconcile
    <3>1. CASE BeginReconcile \/ ResolveHuman \/ ResolveOther \/ Supersede
      BY <1>1, <3>1, ReconcileIntake
    <3>2. CASE CommitWaiting \/ CommitResolved
      BY <1>1, <3>2, CommitIntake
    <3>. QED
      BY <2>3, <3>1, <3>2 DEF Reconcile
  <2>4. CASE Rollback
    BY <1>1, <2>4, RollbackIntake
  <2>5. CASE \/ \E error \in Errors : RecordFailure(error)
             \/ \E h \in Hook : Peek(h) \/ Claim(h)
             \/ \E w \in Writer : AgentStep(w)
             \/ Migrate
    BY <1>1, <2>5, WriterIntake
  <2>6. CASE Idle
    BY <1>1, <2>6, UnhookedKeeps DEF Idle, vars
  <2>. QED
    BY <1>1, <2>1, <2>2, <2>3, <2>4, <2>5, <2>6 DEF Step
<1>2. CASE UNCHANGED vars
  BY <1>2, UnhookedKeeps DEF vars
<1>. QED
  BY <1>1, <1>2 DEF Next

LEMMA InitIntake == Init => IntakeInv
  BY DEF Init, IntakeInv

(* A reader sees the session as its next writer will load it: what an      *)
(* import strips was never shown.                                          *)
ReadyShown == IF db # None /\ db.route # None /\ db.route.ready THEN db.route.input ELSE None
PastShown ==
  {e.about : e \in {View.events[n] : n \in {k \in DOMAIN View.events : Observed(View, k, View.events[k].about)}}}

LEMMA ViewIsLoaded ==
  ASSUME TypeOK
  PROVE  /\ View.latest = Loaded.latest /\ (View.status \notin {"pending-native-origin", "context-only"}) = Open(Loaded)
         /\ ReadyShown = Ready(Loaded) /\ PastShown = Users(Loaded)
<1>1. PastShown = Users(View)
  BY DEF PastShown, Users
<1>2. CASE db # None
  <2>1. View = db /\ Loaded = db
    BY <1>2 DEF View, Loaded
  <2>. QED
    BY <1>1, <1>2, <2>1 DEF ReadyShown, Ready, Open
<1>3. CASE db = None
  <2>1. Keeps(Loaded, Portable, {"imported", "route"}) /\ Ready(Loaded) = None
    BY <1>3, LoadedFields
  <2>2. /\ Loaded.events = Portable.events /\ Loaded.latest = Portable.latest
        /\ Loaded.status = Portable.status /\ View = Portable
    BY <1>3, <2>1 DEF Keeps, Fields, View
  <2>3. Users(Loaded) = Users(View)
    BY <2>2, UsersKept
  <2>. QED
    BY <1>1, <1>3, <2>1, <2>2, <2>3 DEF ReadyShown, Open
<1>. QED
  BY <1>2, <1>3

LEMMA AuthorityInit == Init => Authority!Init
<1> SUFFICES ASSUME Init PROVE Authority!Init
  OBVIOUS
<1>1. db = None /\ View = Portable /\ ReadyShown = None
  BY DEF Init, View, ReadyShown
<1>2. PastShown = Users(Portable)
  BY <1>1 DEF PastShown, Users
<1>3. View.status \notin {"pending-native-origin", "context-only"} /\ View.latest \in {Old, None}
  BY <1>1, PortableIntake DEF Open
<1>4. View.latest \in Input \cup {None}
  BY <1>3 DEF Input
<1>5. Users(Portable) = {Portable.latest} \ {None}
  <2>1. CASE "imported" \notin Faults
    <3>1. Portable.events = <<>> /\ Portable.latest = None
      BY <2>1 DEF Portable, NewSession
    <3>2. Users(Portable) = {}
      BY <3>1, UsersDef
    <3>. QED
      BY <3>1, <3>2
  <2>2. CASE "imported" \in Faults
    <3>1. Portable.latest = Old
      BY <2>2 DEF Portable, JsonSession, NewSession
    <3>2. Old \in Users(Portable) /\ Users(Portable) \subseteq {Old}
      BY <3>1, LedgerAssumption, PortableIntake
    <3>. QED
      BY <3>1, <3>2, LedgerAssumption
  <2>. QED
    BY <2>1, <2>2
<1>. QED
  BY <1>1, <1>2, <1>3, <1>4, <1>5 DEF Authority!Init, ReadyShown, PastShown

LEMMA AuthorityStep ==
  ASSUME TypeOK, TypeOK', RouteInv, IntakeInv, [Next]_vars
  PROVE  [Authority!Next]_Authority!vars
<1> DEFINE d == Loaded
<1>1. host' = host /\ (db' = db \/ TakesStep)
  BY NextIntake
<1>2. /\ View.latest = d.latest /\ (View.status \notin {"pending-native-origin", "context-only"}) = Open(d)
      /\ ReadyShown = Ready(d) /\ PastShown = Users(d)
  BY ViewIsLoaded
<1>3. CASE db' = db
  <2>1. View' = View /\ ReadyShown' = ReadyShown
    BY <1>1, <1>3 DEF View, Portable, Faults, JsonSession, NewSession, ReadyShown
  <2>2. PastShown' = PastShown
    BY <2>1 DEF PastShown, Observed
  <2>. QED
    BY <2>1, <2>2 DEF Authority!vars, ReadyShown, PastShown
<1>4. CASE TakesStep
  <2>1. db' # None /\ RegisterStep(d, db')
    BY <1>4, NoneAssumption DEF TakesStep
  <2>2. View' = db'
    BY <2>1 DEF View
  <2>3. /\ View'.latest = db'.latest
        /\ (View'.status \notin {"pending-native-origin", "context-only"}) = Open(db')
        /\ ReadyShown' = Ready(db') /\ PastShown' = Users(db')
    BY <2>1, <2>2 DEF ReadyShown, PastShown, Ready, Users, Open, Observed
  <2> HIDE DEF d
  <2>4. CASE Stays(d, db')
    BY <1>2, <2>3, <2>4 DEF Stays, SameInput, Authority!vars, ReadyShown, PastShown
  <2>5. CASE Receives(d, db')
    BY <1>2, <2>3, <2>5 DEF Receives, SameInput, Authority!Next, Authority!Receive, ReadyShown, PastShown
  <2>6. CASE Adopts(d, db')
    BY <1>2, <2>3, <2>6 DEF Adopts, Authority!Next, Authority!Adopt, ReadyShown, PastShown
  <2>7. CASE Dismisses(d, db')
    BY <1>2, <2>3, <2>7 DEF Dismisses, SameInput, Authority!Next, Authority!Dismiss, ReadyShown, PastShown
  <2>8. CASE Routes(d, db')
    BY <1>2, <2>3, <2>8 DEF Routes, SameInput, Authority!Next, Authority!Route, ReadyShown, PastShown
  <2>. QED
    BY <2>1, <2>4, <2>5, <2>6, <2>7, <2>8 DEF RegisterStep
<1>. QED
  BY <1>1, <1>3, <1>4

(* The ledger is the register of AbstractAuthority: whatever the order of  *)
(* hooks, transcript rows, reconciles, failures and agents, the input it   *)
(* reports moves only forward, and a route is ready only for it and        *)
(* recorded only while the ledger is open.                                 *)
THEOREM AuthorityIsRefined == Spec => AuthorityRefined
<1> DEFINE Inv == TypeOK /\ RouteInv /\ IntakeInv
<1>1. Init => Inv /\ Authority!Init
  BY InitType, InitHolds, InitIntake, AuthorityInit
<1>2. Inv /\ [Next]_vars => Inv'
  BY NextType, NextRoute, NextIntake
<1>3. Inv /\ Inv' /\ [Next]_vars => [Authority!Next]_Authority!vars
  BY AuthorityStep
<1> HIDE DEF Inv
<1>. QED
  BY <1>1, <1>2, <1>3, PTL DEF Spec, AuthorityRefined, Authority!Spec

=============================================================================
