--------------------------- MODULE CompletionReview ---------------------------
(* How Core code checks an answer when the host stops. The response model first *)
(* registers the work it does (response_route.py), then has its draft reviewed: *)
(* a candidate keeps the draft and the sources it names, a review judges each   *)
(* claim and the whole answer, and both stay as they were written               *)
(* (completion_assessment.py). At a Stop the answer is compared with what was   *)
(* reviewed (native_completion.py) by Core's own hook and, so that an add-on's  *)
(* hook can read the outcome, by the runner of that hook too (stop_notice.py).  *)
(* A build of the notice reads the session's records three times; between the   *)
(* reads other agents write records, the user types and the sources change.     *)
EXTENDS Naturals, FiniteSets

CONSTANTS MaxInputs, MaxRevisions, MaxDefinitions, MaxContexts, MaxChanges, MaxCandidates, MaxStops,
          Text, Drafts, Times, Contents, Rejections

ASSUME ReviewAssumption ==
  /\ MaxInputs \in Nat \ {0} /\ MaxRevisions \in Nat \ {0} /\ MaxDefinitions \in Nat \ {0}
  /\ MaxContexts \in Nat \ {0}
  /\ Text \subseteq {"claim", "spaced", "reworded", "partial", "broken", "report"} /\ Drafts \subseteq Text
  /\ 1 \in Contents /\ Contents \subseteq Nat /\ Rejections \subseteq SUBSET {0, 1, 2}

\* The answers. "claim" and "reworded" hold the same completion block, "spaced" is "claim"
\* with a blank line after the block's marker, "broken" holds a block that has no verdict and
\* "report" holds no block (one in an example, a quotation or fenced code is none).
Block(t) == CASE t \in {"claim", "reworded", "spaced"} -> "completion"
              [] t = "partial" -> "partial"
              [] t = "broken" -> "malformed"
              [] t = "report" -> "none"
Proof(t) == IF t = "spaced" THEN "completion, spaced" ELSE Block(t)
Bare(p) == IF p = "completion, spaced" THEN "completion" ELSE p
Comparable(t) == IF t = "spaced" THEN "claim" ELSE t
Claims(p) == IF Bare(p) = "completion" THEN {1, 2} ELSE {1}
WellFormed(t) == Block(t) # "malformed"

Claim == {1, 2}                          \* a claim rests on the source of the same number
Hook == {"core", "addon"}
NoRoute == [input |-> 0, rev |-> 0, def |-> 0, work |-> "none"]
NoContract == [rev |-> 0, def |-> 0, ctx |-> 0]
NoMessage == [stop |-> 0, input |-> 0, code |-> "none", failed |-> {}, unresolved |-> FALSE,
              work |-> "undeclared"]
Earlier == [NoMessage EXCEPT !.work = "nothing"]     \* what a Stop before these left in the file
Idle == [pc |-> "idle", by |-> "core", found |-> {}, fresh |-> FALSE, msg |-> NoMessage]

VARIABLES
  input, bound,      \* the session's latest input and whether its origin is confirmed
  owned,             \* revision of the work unit -> version of its criterion, 0 if there is none
  registry,          \* revision -> the version it was registered with, 0 if it was not
  route, context,    \* the stored route; the version of the constraints and decisions
  file,              \* source -> its content, 0 if it cannot be read
  candidates, assessments, responses,
  stop, saw,         \* the Stop that runs; the states of the session since it began
  build, left,       \* the build of the notice that runs, and the hooks without one yet
  notice, reads,     \* the session's file, and whether the add-on is about to read it
  changes, stops

session == <<input, bound, owned, registry, route, context>>
records == <<candidates, assessments, responses>>
stopping == <<stop, build, left, notice, reads, stops>>
vars == <<session, records, stopping, file, saw, changes>>

Ready == route.input = input /\ bound /\ route # NoRoute /\ owned[route.rev] = route.def
Contract == IF Ready THEN [rev |-> route.rev, def |-> route.def, ctx |-> context] ELSE NoContract
Scope(c) == [rev |-> c.rev, def |-> c.def]          \* what the review of an explanation is bound to
Now == [input |-> input, contract |-> Contract, file |-> file]
Active == stop.n > 0
Watch == saw' = IF Active THEN saw \cup {Now'} ELSE saw
Change == changes < MaxChanges /\ changes' = changes + 1 /\ Watch    \* of the session or a source

Cited(verdicts) == {c \in DOMAIN verdicts : verdicts[c] = "supported"}
Changed(snap, S) == {c \in S : file[c] # snap[c]}

Init ==
  /\ input = 1 /\ bound = TRUE
  /\ owned = [r \in 1..MaxRevisions |-> IF r = 1 THEN 1 ELSE 0]
  /\ registry = [r \in 1..MaxRevisions |-> 0]
  /\ route = NoRoute /\ context = 1
  /\ file = [c \in Claim |-> 1]
  /\ candidates = {} /\ assessments = {} /\ responses = {}
  /\ stop = [n |-> 0, text |-> "report", reviewed |-> {}] /\ saw = {}
  /\ build = Idle /\ left = {} /\ notice = Earlier /\ reads = FALSE
  /\ changes = 0 /\ stops = 0

-----------------------------------------------------------------------------
(* The session: inputs, conditions and the route.                            *)

NewInput ==
  /\ input < MaxInputs
  /\ input' = input + 1 /\ bound' \in BOOLEAN
  /\ UNCHANGED <<owned, registry, route, context, records, stopping, file>>
  /\ Change

ConfirmInput ==
  /\ ~bound
  /\ bound' = TRUE
  /\ UNCHANGED <<input, owned, registry, route, context, records, stopping, file>>
  /\ Change

ChangeConditions ==
  /\ \/ \E r \in 1..MaxRevisions :
          owned[r] < MaxDefinitions /\ owned' = [owned EXCEPT ![r] = @ + 1] /\ UNCHANGED context
     \/ context < MaxContexts /\ context' = context + 1 /\ UNCHANGED owned
  /\ UNCHANGED <<input, bound, registry, route, records, stopping, file>>
  /\ Change

\* A revision keeps the conditions it was registered with, a changed contract needs a newer
\* revision, and a superseded one never comes back. Work that stays open can name a source of
\* a candidate; the source must be readable and as it was.
Admits(r) ==
  /\ owned[r] # 0
  /\ registry[r] \in {0, owned[r]}
  /\ \A s \in r + 1..MaxRevisions : registry[s] = 0

OpenWork == {"nothing", "open"}
Declares(work) == work = "open" => \E c \in candidates : Changed(c.snap, {1}) = {}

RecordRoute(r, work) ==
  /\ bound /\ Admits(r) /\ Declares(work)
  /\ route' = [input |-> input, rev |-> r, def |-> owned[r], work |-> work]
  /\ registry' = [registry EXCEPT ![r] = owned[r]]
  /\ UNCHANGED <<input, bound, owned, context, records, stopping, file>>
  /\ Change

EditSource(c) ==
  /\ \E v \in Contents \ {file[c]} : file' = [file EXCEPT ![c] = v]
  /\ UNCHANGED <<session, records, stopping>>
  /\ Change

-----------------------------------------------------------------------------
(* The review: candidates, then judgments, all of them immutable.             *)

Keep(c) ==
  /\ candidates' = candidates \cup {c}
  /\ Cardinality(candidates') <= MaxCandidates
  /\ UNCHANGED <<session, assessments, responses, stopping, file, changes>>
  /\ Watch

Snapshot(p) == [c \in Claims(p) |-> file[c]]
Readable(p) == \A c \in Claims(p) : file[c] # 0

\* The retained candidate is the same one: its key leaves out when it was looked at.
PrepareExplanation ==
  /\ Ready /\ Readable("none") /\ "report" \in Drafts
  /\ Keep([of |-> "sources", text |-> "report", proof |-> "none", contract |-> [Contract EXCEPT !.ctx = 0],
           input |-> input, snap |-> Snapshot("none"), time |-> 0])

PrepareProof(t, time) ==
  /\ Ready /\ Block(t) \notin {"none", "malformed"} /\ Readable(Proof(t))
  /\ Keep([of |-> "proof", text |-> t, proof |-> Proof(t), contract |-> Contract,
           input |-> input, snap |-> Snapshot(Proof(t)), time |-> time])

AssessmentOf(con, p, time) ==
  {a \in assessments : a.contract = con /\ a.proof = p /\ a.time = time}

\* Changed sources leave an assessment usable for the claims they do not support.
Covered(a) ==
  Changed(a.snap, Cited(a.verdicts)) # {} => Cited(a.verdicts) \ Changed(a.snap, Cited(a.verdicts)) # {}

\* A correction or an explanation keeps the sources, the proof and the time of an older
\* candidate; an explanation needs its review, still current and without a rejected claim.
PrepareReuse(old, t) ==
  /\ Ready /\ old.of = "proof"
  /\ IF Block(t) = "none"
       THEN /\ old.contract = Contract
            /\ \E a \in AssessmentOf(Contract, old.proof, old.time) :
                 Covered(a) /\ Cited(a.verdicts) = DOMAIN a.verdicts
       ELSE Claims(Proof(t)) \subseteq DOMAIN old.snap
  /\ LET p == IF Block(t) = "none" THEN old.proof ELSE Proof(t)
     IN Keep([old EXCEPT !.text = t, !.proof = p, !.contract = Contract, !.input = input,
                         !.snap = [c \in Claims(p) |-> old.snap[c]]])

\* A new judgment needs the sources it cites as the candidate has them.
Fresh(c, verdicts, verdict) ==
  Changed(c.snap, Cited(verdicts) \cup (IF verdict = "supported" THEN DOMAIN c.snap ELSE {})) = {}

Basis(a) == [contract |-> a.contract, proof |-> a.proof, time |-> a.time]
Response(c, verdicts, verdict) ==
  [of |-> c.of, text |-> c.text, contract |-> c.contract, input |-> c.input, snap |-> c.snap,
   verdicts |-> verdicts, verdict |-> verdict,
   basis |-> IF c.of = "proof" THEN {Basis(c)} ELSE {}]

\* What identifies the review of an answer: the claim review it rests on and the text (and the
\* input, for an explanation), or the candidate of an explanation.
Same(r, s) ==
  /\ r.of = s.of /\ r.text = s.text /\ r.contract = s.contract /\ r.basis = s.basis
  /\ Block(r.text) = "none" => r.input = s.input
  /\ r.of = "sources" => r.snap = s.snap

RecordExplanation(c, verdicts, verdict) ==
  /\ c.of = "sources" /\ Fresh(c, verdicts, verdict)
  /\ UNCHANGED assessments

RecordProof(c, verdicts, verdict) ==
  LET old == AssessmentOf(c.contract, c.proof, c.time)
      new == [contract |-> c.contract, proof |-> c.proof, time |-> c.time,
              snap |-> c.snap, verdicts |-> verdicts]
  IN /\ c.of = "proof"
     /\ \/ old = {} /\ Fresh(c, verdicts, verdict) /\ assessments' = assessments \cup {new}
        \/ old = {new} /\ UNCHANGED assessments

RecordReview(c) ==
  \E rejected \in Rejections :       \* the claims it rejects, and 0 for the answer as a whole
  LET Verdict(x) == IF x \in rejected THEN "unsupported" ELSE "supported"
      verdicts == [i \in DOMAIN c.snap |-> Verdict(i)]
      verdict == Verdict(0)
  IN
    /\ RecordExplanation(c, verdicts, verdict) \/ RecordProof(c, verdicts, verdict)
    /\ ~\E r \in responses : Same(r, Response(c, verdicts, verdict))
    /\ responses' = responses \cup {Response(c, verdicts, verdict)}
    /\ UNCHANGED <<session, candidates, stopping, file, changes>>
    /\ Watch

-----------------------------------------------------------------------------
(* The Stop. Each builder reads the session, then the claim review, then the  *)
(* review of the whole answer, and the records in between may be newer.       *)

Reviewed(n) == \E r \in responses : r.input = n

StartStop(t) ==
  /\ ~Active /\ stops < MaxStops
  /\ stops' = stops + 1
  /\ stop' = [n |-> stops + 1, text |-> t, reviewed |-> {n \in 1..input : Reviewed(n)}]
  /\ left' = Hook
  /\ saw' = {Now}
  /\ UNCHANGED <<session, records, build, notice, reads, file, changes>>

At(p) == build.pc = p
InBuild == UNCHANGED <<session, records, stop, left, notice, reads, stops, file, saw, changes>>

\* The two hooks build in either order; a build shares nothing with the other but the file it
\* writes at its end. The declared work counts only with a current route.
ReadSession(h) ==
  /\ At("idle") /\ h \in left /\ left' = left \ {h}
  /\ LET code == CASE Block(stop.text) = "none" -> "none"
                   [] Block(stop.text) # "none" /\ ~Ready -> "route-unavailable"
                   [] ~WellFormed(stop.text) /\ Ready -> "completion-format"
                   [] OTHER -> "none"
     IN build' = [pc |-> IF code # "none" THEN "write"
                         ELSE IF Block(stop.text) = "none" THEN "explanation" ELSE "proof",
                  by |-> h, found |-> {}, fresh |-> FALSE,
                  msg |-> [stop |-> stop.n, input |-> IF bound THEN input ELSE 0, code |-> code,
                           failed |-> {}, unresolved |-> (stop.text = "partial"),
                           work |-> IF Ready THEN route.work ELSE "undeclared"]]
  /\ UNCHANGED <<session, records, stop, notice, reads, stops, file, saw, changes>>

Outcome(code, to) ==
  build' = [build EXCEPT !.pc = to, !.found = {}, !.fresh = FALSE, !.msg.code = code]

\* The block must be that of exactly one review under the current contract, to the byte or,
\* if none has its bytes, up to the blank lines after its marker.
ClaimReviewsEver(t) ==      \* mutant: a review under another contract is taken as well
  {a \in assessments : Bare(a.proof) = Bare(Proof(t))}

ClaimReviews(t) ==
  LET under == {a \in assessments : a.contract = Contract}
      exact == {a \in under : a.proof = Proof(t)}
  IN IF exact # {} THEN exact ELSE {a \in under : Bare(a.proof) = Bare(Proof(t))}

LookUpProof ==
  /\ At("proof")
  /\ IF ~Ready THEN Outcome("route-unavailable", "write")
     ELSE IF Cardinality(ClaimReviews(stop.text)) # 1 THEN Outcome("assessment-required", "write")
     ELSE \E a \in ClaimReviews(stop.text) :
            IF ~Covered(a) THEN Outcome("source", "write")
            ELSE build' = [build EXCEPT !.pc = "answer", !.found = {a},
                            !.fresh = (Changed(a.snap, Cited(a.verdicts)) = {}),
                            !.msg.failed = DOMAIN a.verdicts \ Cited(a.verdicts)]
  /\ InBuild

AnswerReviews(a, t) ==
  LET of == {r \in responses : r.basis = {Basis(a)}}
      exact == {r \in of : r.text = t}
  IN IF exact # {} THEN exact ELSE {r \in of : Comparable(r.text) = Comparable(t)}

LookUpAnswer ==
  /\ At("answer")
  /\ \E a \in build.found :
       LET reviews == AnswerReviews(a, stop.text)
           code == IF Cardinality(reviews) # 1 THEN "response-assessment-required"
                   ELSE LET r == CHOOSE r \in reviews : TRUE
                        IN IF r.verdict # "supported" THEN "response-unsupported"
                           ELSE IF Changed(r.snap, DOMAIN r.snap) # {} \/ ~build.fresh THEN "source"
                           ELSE IF build.msg.failed # {} THEN "assessment-unsupported"
                           ELSE "none"
       IN Outcome(code, "write")
  /\ InBuild

\* An answer without a block: the reviews of its sources under this input and these
\* conditions come first, then an explanation that retains a reviewed proof.
OfSourcesEver(t) ==         \* mutant: the conditions of the review are not compared
  {r \in responses : r.of = "sources" /\ r.text = t /\ r.input = input}

OfSources(t) == {r \in responses :
  r.of = "sources" /\ r.text = t /\ r.input = input /\ Scope(r.contract) = Scope(Contract)}
OfProof(t) == {r \in responses : r.of = "proof" /\ r.text = t /\ r.input = input}

ExplanationCode(t) ==
  LET sources == OfSources(t)
      current == {r \in sources : Changed(r.snap, Cited(r.verdicts)
                    \cup (IF r.verdict = "supported" THEN DOMAIN r.snap ELSE {})) = {}}
      Judged(R) == IF \A r \in R : r.verdict = "supported" /\ Cited(r.verdicts) = DOMAIN r.verdicts
                     THEN "none" ELSE "response-unsupported"
      retained == OfProof(t)
  IN CASE ~Ready -> "route-unavailable"
       [] Ready /\ sources # {} ->
            IF current = {} THEN "source"
            ELSE IF Cardinality(current) # 1 THEN "response-unbound" ELSE Judged(current)
       [] Ready /\ sources = {} /\ Cardinality(retained) # 1 -> "response-assessment-required"
       [] OTHER -> LET r == CHOOSE r \in retained : TRUE
                   IN IF r.contract # Contract THEN "response-unbound"
                      ELSE IF \E a \in assessments : Basis(a) \in r.basis /\ ~Covered(a) THEN "source"
                      ELSE IF r.verdict # "supported" THEN "response-unsupported"
                      ELSE IF Changed(r.snap, DOMAIN r.snap) # {} THEN "source"
                      ELSE "none"

LookUpExplanation ==
  /\ At("explanation")
  /\ LET code == ExplanationCode(stop.text)
     IN Outcome(code, IF code \in {"route-unavailable", "response-assessment-required"}
                           THEN "input" ELSE "write")
  /\ InBuild

\* Without a review an explanation is an ordinary answer, unless its input has one.
LookUpInput ==
  /\ At("input")
  /\ Outcome(IF build.msg.input # 0 /\ Reviewed(build.msg.input) THEN build.msg.code
                ELSE "none", "write")
  /\ InBuild

\* The message replaces the recorded one. The runner gives an add-on the file only if the
\* message is in it; the add-on reads it while Core's hook may write its own.
WriteNoticeAnyway ==        \* mutant: the add-on gets the file whether or not it was written
  /\ At("write")
  /\ build' = Idle
  /\ notice' \in {notice, build.msg} /\ reads' = (reads \/ build.by = "addon")
  /\ UNCHANGED <<session, records, stop, left, stops, file, saw, changes>>

WriteNotice ==
  /\ At("write")
  /\ build' = Idle
  /\ \/ notice' = build.msg /\ reads' = (reads \/ build.by = "addon")
     \/ UNCHANGED <<notice, reads>>
  /\ UNCHANGED <<session, records, stop, left, stops, file, saw, changes>>

ReadNotice ==
  /\ reads /\ reads' = FALSE
  /\ UNCHANGED <<session, records, stop, build, left, notice, stops, file, saw, changes>>

EndStop ==
  /\ Active /\ left = {} /\ At("idle") /\ ~reads
  /\ stop' = [stop EXCEPT !.n = 0, !.reviewed = {}]
  /\ saw' = {}
  /\ UNCHANGED <<session, records, build, left, notice, reads, stops, file, changes>>

Next ==
  \/ NewInput \/ ConfirmInput \/ ChangeConditions
  \/ \E r \in 1..MaxRevisions, work \in OpenWork : RecordRoute(r, work)
  \/ \E c \in Claim : EditSource(c)
  \/ PrepareExplanation
  \/ \E t \in Drafts, time \in Times : PrepareProof(t, time)
  \/ \E c \in candidates, t \in Drafts \ {"broken"} : PrepareReuse(c, t)
  \/ \E c \in candidates : RecordReview(c)
  \/ \E t \in Text : StartStop(t)
  \/ \E h \in Hook : ReadSession(h)
  \/ LookUpProof \/ LookUpAnswer \/ LookUpExplanation \/ LookUpInput
  \/ WriteNotice \/ ReadNotice \/ EndStop

Spec == Init /\ [][Next]_vars

-----------------------------------------------------------------------------
(* Properties.                                                               *)

TypeOK ==
  /\ input \in 1..MaxInputs /\ bound \in BOOLEAN /\ context \in 1..MaxContexts
  /\ owned \in [1..MaxRevisions -> 0..MaxDefinitions]
  /\ registry \in [1..MaxRevisions -> 0..MaxDefinitions]
  /\ file \in [Claim -> Contents]
  /\ Cardinality(candidates) <= MaxCandidates
  /\ build.msg.failed \subseteq Claim /\ left \subseteq Hook

Accepts == At("write") /\ build.msg.code = "none" /\ build.msg.failed = {}
Supports(r) == r.verdict = "supported" /\ Cited(r.verdicts) = DOMAIN r.verdicts
Held(r, s) == \A c \in DOMAIN r.snap : s.file[c] = r.snap[c]

\* A Stop finds nothing to say about an answer with a block only if the block and the whole
\* answer are reviewed, each judgment is "supported", and at one moment of this Stop that
\* review was under the current contract with every source as it was reviewed. The builder
\* reads the records three times and the sources twice, so no single read shows this.
QuietIsReviewed == Accepts /\ Block(stop.text) # "none" =>
  \E r \in responses, s \in saw :
    /\ Comparable(r.text) = Comparable(stop.text) /\ Supports(r)
    /\ r.contract = s.contract /\ Held(r, s)

\* When the input of a Stop had a review before it began, an answer without a block passes only
\* if a review of this very answer, for an input and the conditions current during the Stop and
\* with its sources unchanged, supports it: a review of other words is no cover.
ExplanationCovered ==
  Accepts /\ Block(stop.text) = "none" /\ build.msg.input \in stop.reviewed =>
    \E r \in responses, s \in saw :
      /\ r.text = stop.text /\ Supports(r)
      /\ r.input = s.input /\ Scope(r.contract) = Scope(s.contract) /\ Held(r, s)

\* What an add-on's hook reads is a message about the Stop it runs for, never one that an
\* earlier Stop left in the session's file.
AddonHearsThisStop == [][reads /\ ~reads' => notice.stop = stop.n]_vars
=============================================================================
