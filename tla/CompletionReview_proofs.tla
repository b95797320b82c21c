------------------------ MODULE CompletionReview_proofs ------------------------
(* QuietIsReviewed, ExplanationCovered and AddonHearsThisStop for any number   *)
(* of candidates, Stops, contents and changes.                                 *)
(*                                                                             *)
(* Every message that closes a session without an error was made by a review   *)
(* of this Stop: assessments and responses are never changed and keep the      *)
(* sources they judged (AssessmentsOK, ResponsesOK, CandidatesOK), a Stop that *)
(* is marked as reviewed has such a response (StopOK), and the message that is *)
(* being built follows from one assessment and a state of the session that the *)
(* Stop saw (BuildOK).                                                         *)
EXTENDS CompletionReview, FiniteSetTheorems, TLAPS

(* Every message, build, candidate, assessment and response has its fields. *)
MessageFields(m) ==
  m = [stop |-> m.stop, input |-> m.input, code |-> m.code, failed |-> m.failed,
       unresolved |-> m.unresolved, work |-> m.work]
BuildFields ==
  /\ build = [pc |-> build.pc, by |-> build.by, found |-> build.found, fresh |-> build.fresh, msg |-> build.msg]
  /\ MessageFields(build.msg)
CandidateFields(c) ==
  c = [of |-> c.of, text |-> c.text, proof |-> c.proof, contract |-> c.contract,
       input |-> c.input, snap |-> c.snap, time |-> c.time]

(* An assessment judges each source of its candidate, and no two judge one *)
(* proof under one contract and time.                                      *)
AssessmentsOK ==
  /\ \A a \in assessments : DOMAIN a.verdicts = DOMAIN a.snap
  /\ \A a, b \in assessments : Basis(a) = Basis(b) => a = b

AllSupported(a) == Cited(a.verdicts) = DOMAIN a.verdicts
Explains(x) == x.of = "proof" /\ Block(x.text) = "none"
CandidatesOK == \A c \in candidates :
  /\ CandidateFields(c)
  /\ Explains(c) => \E a \in assessments : Basis(a) = Basis(c) /\ AllSupported(a)

ResponseOf(r, a) ==
  /\ r.basis = {Basis(a)} /\ r.contract = a.contract
  /\ r.snap = a.snap /\ r.verdicts = a.verdicts
ResponsesOK == \A r \in responses :
  /\ r.of = "proof" => \E a \in assessments : ResponseOf(r, a)
  /\ Explains(r) => AllSupported(r)
  /\ r.of # "proof" => r.basis = {}

HasBlock == Block(stop.text) # "none"
Busy == ~At("idle")
StopOK ==
  /\ input \in Nat \ {0} /\ stops \in Nat
  /\ Active => Now \in saw
  /\ Busy => Active /\ build.msg.stop = stop.n
  /\ reads => Active /\ notice.stop = stop.n
  /\ left # {} => Active
  /\ stop = [n |-> stop.n, text |-> stop.text, reviewed |-> stop.reviewed]
  /\ \A n \in stop.reviewed : n # 0 /\ Reviewed(n)

Found(a, s) ==
  /\ build.found = {a} /\ a.contract = s.contract
  /\ build.fresh => \A c \in Cited(a.verdicts) : s.file[c] = a.snap[c]
  /\ build.msg.failed = DOMAIN a.verdicts \ Cited(a.verdicts)
BuildOK ==
  /\ build.pc \in {"proof", "answer"} => HasBlock
  /\ build.pc \in {"explanation", "input"} => ~HasBlock
  /\ At("answer") => \E a \in assessments, s \in saw : Found(a, s)
  /\ At("input") => build.msg.code # "none"
  /\ QuietIsReviewed /\ ExplanationCovered

ReviewInv == BuildFields /\ AssessmentsOK /\ CandidatesOK /\ ResponsesOK /\ StopOK /\ BuildOK

(* Records made and changes of the session leave the Stop as it is: the    *)
(* records and the states it saw only grow.                                *)
LEMMA OutsideStop ==
  ASSUME StopOK, BuildOK, UNCHANGED stopping, Watch, input' \in Nat \ {0},
         assessments \subseteq assessments', responses \subseteq responses'
  PROVE  StopOK' /\ BuildOK'
  <1>1. UNCHANGED <<stop, build, left, notice, reads, stops>>  BY DEF stopping
  <1>2. saw \subseteq saw'  BY DEF Watch
  <1>3. Active' => Now' \in saw'
    <2>1. Active' => Active  BY <1>1 DEF Active
    <2> QED  BY <2>1 DEF Watch
  <1>4. \A n : Reviewed(n) => Reviewed(n)'  BY DEF Reviewed
  <1>5. StopOK'
    <2>1. \A n \in stop'.reviewed : n # 0 /\ Reviewed(n)'  BY <1>1, <1>4 DEF StopOK
    <2>2. (Busy => Active /\ build.msg.stop = stop.n)' /\ (reads => Active /\ notice.stop = stop.n)'
          /\ (left # {} => Active)'
          /\ (stop = [n |-> stop.n, text |-> stop.text, reviewed |-> stop.reviewed])'
      BY <1>1 DEF StopOK, Busy, At, Active
    <2>3. stops' \in Nat  BY <1>1 DEF StopOK
    <2> QED  BY <1>3, <2>1, <2>2, <2>3 DEF StopOK
  <1>6. QuietIsReviewed'  BY <1>1, <1>2 DEF BuildOK, QuietIsReviewed, Accepts, At
  <1>7. ExplanationCovered'  BY <1>1, <1>2 DEF BuildOK, ExplanationCovered, Accepts, At
  <1>8. (At("answer") => \E a \in assessments, s \in saw : Found(a, s))'
    BY <1>1, <1>2 DEF BuildOK, At, Found
  <1>9. BuildOK'  BY <1>1, <1>6, <1>7, <1>8 DEF BuildOK, HasBlock, At
  <1> QED  BY <1>5, <1>9

(* A change of the session or of a source. *)
LEMMA SessionStep ==
  ASSUME ReviewInv, UNCHANGED <<records, stopping>>, Watch, input' \in Nat \ {0}
  PROVE  ReviewInv'
  <1>1. UNCHANGED <<candidates, assessments, responses, build>>  BY DEF records, stopping
  <1>2. BuildFields'  BY <1>1 DEF ReviewInv, BuildFields
  <1>3. AssessmentsOK' /\ ResponsesOK'  BY <1>1 DEF ReviewInv, AssessmentsOK, ResponsesOK
  <1>4. CandidatesOK'  BY <1>1 DEF ReviewInv, CandidatesOK
  <1>5. StopOK' /\ BuildOK'  BY <1>1, OutsideStop DEF ReviewInv
  <1> QED  BY <1>2, <1>3, <1>4, <1>5 DEF ReviewInv

(* A candidate that is kept; one of an explanation has its claim review.   *)
LEMMA KeepStep ==
  ASSUME ReviewInv, NEW c, Keep(c), CandidateFields(c),
         Explains(c) => \E a \in assessments : Basis(a) = Basis(c) /\ AllSupported(a)
  PROVE  ReviewInv'
  <1>1. UNCHANGED <<input, assessments, responses, build>> /\ UNCHANGED stopping /\ Watch
    BY DEF Keep, stopping, session
  <1>2. BuildFields'  BY <1>1 DEF ReviewInv, BuildFields
  <1>3. AssessmentsOK' /\ ResponsesOK'  BY <1>1 DEF ReviewInv, AssessmentsOK, ResponsesOK
  <1>4. CandidatesOK'
    <2>1. candidates' = candidates \cup {c}  BY DEF Keep
    <2> QED  BY <1>1, <2>1 DEF ReviewInv, CandidatesOK
  <1>5. StopOK' /\ BuildOK'
    <2>1. input \in Nat \ {0}  BY DEF ReviewInv, StopOK
    <2> QED  BY <1>1, <2>1, OutsideStop DEF ReviewInv
  <1> QED  BY <1>2, <1>3, <1>4, <1>5 DEF ReviewInv

(* A candidate made of an older one. *)
Reused(old, t, p, con, n, snap) ==
  [old EXCEPT !.text = t, !.proof = p, !.contract = con, !.input = n, !.snap = snap]

(* It keeps the kind and the time. *)
LEMMA ReusedFields ==
  ASSUME NEW old, CandidateFields(old), NEW t, NEW p, NEW con, NEW n, NEW snap
  PROVE  Reused(old, t, p, con, n, snap)
         = [of |-> old.of, text |-> t, proof |-> p, contract |-> con,
            input |-> n, snap |-> snap, time |-> old.time]
  <1> DEFINE F(t1, p1, con1, n1, snap1) ==
        [of |-> old.of, text |-> t1, proof |-> p1, contract |-> con1, input |-> n1,
         snap |-> snap1, time |-> old.time]
  <1>1. ASSUME NEW c, NEW t1, NEW p1, NEW con1, NEW n1, NEW snap1, c = F(t1, p1, con1, n1, snap1)
        PROVE  /\ [c EXCEPT !.text = t] = F(t, p1, con1, n1, snap1)
               /\ [c EXCEPT !.proof = p] = F(t1, p, con1, n1, snap1)
               /\ [c EXCEPT !.contract = con] = F(t1, p1, con, n1, snap1)
               /\ [c EXCEPT !.input = n] = F(t1, p1, con1, n, snap1)
               /\ [c EXCEPT !.snap = snap] = F(t1, p1, con1, n1, snap)
    BY <1>1
  <1>2. [old EXCEPT !.text = t, !.proof = p, !.contract = con, !.input = n, !.snap = snap]
        = [[[[[old EXCEPT !.text = t] EXCEPT !.proof = p] EXCEPT !.contract = con] EXCEPT !.input = n]
             EXCEPT !.snap = snap]
    OBVIOUS
  <1>3. old = F(old.text, old.proof, old.contract, old.input, old.snap)  BY DEF CandidateFields
  <1> HIDE DEF F
  <1> DEFINE c1 == [old EXCEPT !.text = t]
             c2 == [c1 EXCEPT !.proof = p]
             c3 == [c2 EXCEPT !.contract = con]
             c4 == [c3 EXCEPT !.input = n]
             c5 == [c4 EXCEPT !.snap = snap]
  <1>4. c1 = F(t, old.proof, old.contract, old.input, old.snap)  BY <1>1, <1>3
  <1>5. c2 = F(t, p, old.contract, old.input, old.snap)
    <2> HIDE DEF c1
    <2> QED  BY <1>1, <1>4
  <1>6. c3 = F(t, p, con, old.input, old.snap)
    <2> HIDE DEF c2
    <2> QED  BY <1>1, <1>5
  <1>7. c4 = F(t, p, con, n, old.snap)
    <2> HIDE DEF c3
    <2> QED  BY <1>1, <1>6
  <1>8. c5 = F(t, p, con, n, snap)
    <2> HIDE DEF c4
    <2> QED  BY <1>1, <1>7
  <1> QED  BY <1>2, <1>8, Zenon DEF F, Reused

(* The three ways to prepare a candidate. *)
LEMMA PrepareStep ==
  ASSUME ReviewInv,
         \/ PrepareExplanation
         \/ \E t \in Drafts, time \in Times : PrepareProof(t, time)
         \/ \E c \in candidates, t \in Drafts \ {"broken"} : PrepareReuse(c, t)
  PROVE  ReviewInv'
  <1>1. CASE PrepareExplanation
    <2> DEFINE c == [of |-> "sources", text |-> "report", proof |-> "none",
                     contract |-> [Contract EXCEPT !.ctx = 0],
                     input |-> input, snap |-> Snapshot("none"), time |-> 0]
    <2>1. Keep(c)  BY <1>1 DEF PrepareExplanation
    <2>2. CandidateFields(c) /\ ~Explains(c)  BY DEF CandidateFields, Explains
    <2> HIDE DEF c
    <2> QED  BY <2>1, <2>2, KeepStep
  <1>2. ASSUME NEW t \in Drafts, NEW time \in Times, PrepareProof(t, time) PROVE ReviewInv'
    <2> DEFINE c == [of |-> "proof", text |-> t, proof |-> Proof(t), contract |-> Contract,
                     input |-> input, snap |-> Snapshot(Proof(t)), time |-> time]
    <2>1. Keep(c)  BY <1>2 DEF PrepareProof
    <2>2. CandidateFields(c) /\ ~Explains(c)  BY <1>2 DEF CandidateFields, Explains, PrepareProof
    <2> HIDE DEF c
    <2> QED  BY <2>1, <2>2, KeepStep
  <1>3. ASSUME NEW old \in candidates, NEW t \in Drafts \ {"broken"}, PrepareReuse(old, t) PROVE ReviewInv'
    <2> DEFINE p == IF Block(t) = "none" THEN old.proof ELSE Proof(t)
               snap == [x \in Claims(p) |-> old.snap[x]]
               c == [old EXCEPT !.text = t, !.proof = p, !.contract = Contract, !.input = input,
                                !.snap = snap]
    <2>1. Keep(c) /\ old.of = "proof"  BY <1>3 DEF PrepareReuse
    <2>2. c = [of |-> old.of, text |-> t, proof |-> p, contract |-> Contract,
               input |-> input, snap |-> snap, time |-> old.time]
      <3>1. CandidateFields(old)  BY DEF ReviewInv, CandidatesOK
      <3> HIDE DEF p, snap
      <3>2. c = Reused(old, t, p, Contract, input, snap)  BY DEF Reused
      <3> HIDE DEF c
      <3> QED  BY <3>1, <3>2, ReusedFields
    <2>3. CandidateFields(c)
      <3> HIDE DEF p, snap
      <3> QED  BY <2>2 DEF CandidateFields
    <2>4. c.of = old.of /\ c.text = t /\ c.proof = p /\ c.contract = Contract /\ c.time = old.time
      <3> HIDE DEF p, snap, c
      <3> QED  BY <2>2
    <2>5. ASSUME Explains(c) PROVE \E a \in assessments : Basis(a) = Basis(c) /\ AllSupported(a)
      <3>1. Block(t) = "none"  BY <2>4, <2>5 DEF Explains
      <3>2. PICK a \in AssessmentOf(Contract, old.proof, old.time) : Cited(a.verdicts) = DOMAIN a.verdicts
        BY <1>3, <3>1 DEF PrepareReuse
      <3>3. a \in assessments /\ a.contract = Contract /\ a.proof = old.proof /\ a.time = old.time
        BY DEF AssessmentOf
      <3>4. p = old.proof  BY <3>1
      <3> HIDE DEF c, p, snap
      <3>5. Basis(a) = Basis(c)  BY <2>4, <3>3, <3>4 DEF Basis
      <3> QED  BY <3>2, <3>3, <3>5 DEF AllSupported
    <2> HIDE DEF c, p, snap
    <2> QED  BY <2>1, <2>3, <2>5, KeepStep
  <1> QED  BY <1>1, <1>2, <1>3

(* A review is the judgment of its candidate's proof for ever. *)
LEMMA ReviewStep ==
  ASSUME ReviewInv, NEW c \in candidates, RecordReview(c)
  PROVE  ReviewInv'
  <1>1. PICK verdicts, verdict :
          /\ DOMAIN verdicts = DOMAIN c.snap
          /\ RecordExplanation(c, verdicts, verdict) \/ RecordProof(c, verdicts, verdict)
          /\ responses' = responses \cup {Response(c, verdicts, verdict)}
          /\ UNCHANGED <<session, candidates, stopping, file, changes>>
          /\ Watch
    <2>1. PICK rejected \in Rejections :
            LET Verdict(x) == IF x \in rejected THEN "unsupported" ELSE "supported"
                verdicts == [i \in DOMAIN c.snap |-> Verdict(i)]
                verdict == Verdict(0)
            IN /\ RecordExplanation(c, verdicts, verdict) \/ RecordProof(c, verdicts, verdict)
               /\ responses' = responses \cup {Response(c, verdicts, verdict)}
               /\ UNCHANGED <<session, candidates, stopping, file, changes>>
               /\ Watch
      BY DEF RecordReview
    <2> DEFINE V == [i \in DOMAIN c.snap |-> IF i \in rejected THEN "unsupported" ELSE "supported"]
               v == IF 0 \in rejected THEN "unsupported" ELSE "supported"
    <2>2. DOMAIN V = DOMAIN c.snap  OBVIOUS
    <2>3. /\ RecordExplanation(c, V, v) \/ RecordProof(c, V, v)
          /\ responses' = responses \cup {Response(c, V, v)}
          /\ UNCHANGED <<session, candidates, stopping, file, changes>>
          /\ Watch
      BY <2>1
    <2> HIDE DEF V, v
    <2> QED  BY <2>2, <2>3
  <1> DEFINE r == Response(c, verdicts, verdict)
             new == [contract |-> c.contract, proof |-> c.proof, time |-> c.time,
                     snap |-> c.snap, verdicts |-> verdicts]
  <1>2. r.of = c.of /\ r.text = c.text /\ r.contract = c.contract /\ r.snap = c.snap /\ r.verdicts = verdicts
        /\ r.basis = (IF c.of = "proof" THEN {Basis(c)} ELSE {})
    BY DEF Response
  <1>3. new.contract = c.contract /\ new.snap = c.snap /\ new.verdicts = verdicts /\ Basis(new) = Basis(c)
    BY DEF Basis
  <1>4. /\ assessments' = assessments \/ assessments' = assessments \cup {new}
        /\ c.of = "proof" => new \in assessments'
        /\ new \in assessments' \ assessments => AssessmentOf(c.contract, c.proof, c.time) = {}
        /\ c.of = "proof" /\ AssessmentOf(c.contract, c.proof, c.time) # {} => new \in assessments
    <2> HIDE DEF new, r
    <2>1. CASE RecordExplanation(c, verdicts, verdict)  BY <2>1 DEF RecordExplanation
    <2>2. CASE RecordProof(c, verdicts, verdict)
      <3> DEFINE old == AssessmentOf(c.contract, c.proof, c.time)
      <3>1. \/ old = {} /\ assessments' = assessments \cup {new}
            \/ old = {new} /\ assessments' = assessments
        BY <2>2 DEF RecordProof, new
      <3>2. old \subseteq assessments  BY DEF AssessmentOf
      <3> HIDE DEF old
      <3>3. CASE old = {} /\ assessments' = assessments \cup {new}
        BY <3>3 DEF old
      <3>4. CASE old = {new} /\ assessments' = assessments
        BY <3>2, <3>4 DEF old
      <3> QED  BY <3>1, <3>3, <3>4
    <2> QED  BY <1>1, <2>1, <2>2
  <1>5. \A a \in assessments : Basis(a) = Basis(new) => a \in AssessmentOf(c.contract, c.proof, c.time)
    BY DEF Basis, AssessmentOf
  <1> HIDE DEF r, new
  <1>6. AssessmentsOK'
    <2>1. \A a \in assessments' : DOMAIN a.verdicts = DOMAIN a.snap
      BY <1>1, <1>3, <1>4 DEF ReviewInv, AssessmentsOK
    <2>2. ASSUME NEW a \in assessments', NEW b \in assessments', Basis(a) = Basis(b) PROVE a = b
      <3>1. CASE a \in assessments /\ b \in assessments  BY <2>2, <3>1 DEF ReviewInv, AssessmentsOK
      <3>2. CASE ~(a \in assessments /\ b \in assessments)
        <4>1. new \in assessments' \ assessments /\ (a = new \/ b = new)  BY <1>4, <3>2
        <4>2. \A d \in assessments : Basis(d) # Basis(new)  BY <1>4, <1>5, <4>1
        <4> QED  BY <1>4, <2>2, <4>1, <4>2
      <3> QED  BY <3>1, <3>2
    <2> QED  BY <2>1, <2>2 DEF AssessmentsOK
  <1>7. ResponsesOK'
    <2>1. responses' = responses \cup {r}  BY <1>1 DEF r
    <2>2. \A x \in responses : x.of = "proof" => \E a \in assessments' : ResponseOf(x, a)
      BY <1>4 DEF ReviewInv, ResponsesOK
    <2>3. r.of = "proof" => \E a \in assessments' : ResponseOf(r, a)
      <3>1. r.of = "proof" => ResponseOf(r, new)  BY <1>2, <1>3 DEF ResponseOf
      <3> QED  BY <1>2, <1>4, <3>1
    <2>4. ASSUME Explains(r) PROVE AllSupported(r)
      <3>1. Explains(c) /\ c.of = "proof"  BY <1>2, <2>4 DEF Explains
      <3>2. PICK a \in assessments : Basis(a) = Basis(c) /\ AllSupported(a)
        BY <3>1 DEF ReviewInv, CandidatesOK
      <3>3. new \in assessments  BY <1>3, <1>4, <1>5, <3>1, <3>2
      <3>4. a = new  BY <1>3, <3>2, <3>3 DEF ReviewInv, AssessmentsOK
      <3> QED  BY <1>2, <1>3, <3>2, <3>4 DEF AllSupported
    <2>5. r.of # "proof" => r.basis = {}  BY <1>2
    <2> QED  BY <2>1, <2>2, <2>3, <2>4, <2>5 DEF ReviewInv, ResponsesOK
  <1>8. CandidatesOK'
    <2>1. candidates' = candidates  BY <1>1
    <2> QED  BY <1>4, <2>1 DEF ReviewInv, CandidatesOK
  <1>9. UNCHANGED <<input, build>> /\ UNCHANGED stopping  BY <1>1 DEF session, stopping
  <1>10. BuildFields'  BY <1>9 DEF ReviewInv, BuildFields
  <1>11. StopOK' /\ BuildOK'
    <2>1. input \in Nat \ {0}  BY DEF ReviewInv, StopOK
    <2> QED  BY <1>1, <1>4, <1>9, <2>1, OutsideStop DEF ReviewInv
  <1> QED  BY <1>6, <1>7, <1>8, <1>10, <1>11 DEF ReviewInv
(* What a build of the notice leaves alone. *)
LEMMA BuildFrame ==
  ASSUME ReviewInv, UNCHANGED <<session, records, stop, stops, file, saw>>
  PROVE  /\ AssessmentsOK' /\ CandidatesOK' /\ ResponsesOK'
         /\ input' \in Nat \ {0} /\ stops' \in Nat /\ (Active => Now \in saw)'
         /\ (\A n \in stop.reviewed : n # 0 /\ Reviewed(n))'
         /\ (stop = [n |-> stop.n, text |-> stop.text, reviewed |-> stop.reviewed])'
  <1>1. UNCHANGED <<input, bound, owned, registry, route, context, candidates, assessments, responses>>
    BY DEF session, records
  <1>2. AssessmentsOK' /\ CandidatesOK' /\ ResponsesOK'
    BY <1>1 DEF ReviewInv, AssessmentsOK, CandidatesOK, ResponsesOK
  <1>3. input' \in Nat \ {0} /\ stops' \in Nat  BY <1>1 DEF ReviewInv, StopOK
  <1>4. Now' = Now /\ Active' = Active  BY <1>1 DEF Now, Contract, Ready, Active
  <1>5. (\A n \in stop.reviewed : n # 0 /\ Reviewed(n))'
        /\ (stop = [n |-> stop.n, text |-> stop.text, reviewed |-> stop.reviewed])'
    BY <1>1 DEF ReviewInv, StopOK, Reviewed
  <1> QED  BY <1>2, <1>3, <1>4, <1>5 DEF ReviewInv, StopOK

(* A Stop starts with nothing to read and no build. *)
LEMMA StartStep ==
  ASSUME ReviewInv, NEW t \in Text, StartStop(t)
  PROVE  ReviewInv'
  <1>1. UNCHANGED <<input, bound, owned, registry, route, context, candidates, assessments, responses>>
        /\ UNCHANGED <<build, notice, reads, file>>
    BY DEF StartStop, session, records
  <1>2. ~Active /\ At("idle") /\ ~reads  BY DEF ReviewInv, StopOK, StartStop, Busy
  <1>3. AssessmentsOK' /\ CandidatesOK' /\ ResponsesOK' /\ BuildFields'
    BY <1>1 DEF ReviewInv, AssessmentsOK, CandidatesOK, ResponsesOK, BuildFields
  <1>4. BuildOK'
    BY <1>1, <1>2 DEF BuildOK, At, QuietIsReviewed, ExplanationCovered, Accepts
  <1>5. Now' = Now  BY <1>1 DEF Now, Contract, Ready
  <1>6. stop'.reviewed = {n \in 1..input : Reviewed(n)} /\ saw' = {Now} /\ stops' = stops + 1
    BY DEF StartStop
  <1>7. \A n : Reviewed(n)' = Reviewed(n)  BY <1>1 DEF Reviewed
  <1>8. StopOK'
    <2>1. input \in Nat \ {0} /\ stops \in Nat  BY DEF ReviewInv, StopOK
    <2>2. stop' = [n |-> stops + 1, text |-> t, reviewed |-> {n \in 1..input : Reviewed(n)}]
      BY DEF StartStop
    <2>3. Active' /\ stop'.n = stops + 1
          /\ stop' = [n |-> stop'.n, text |-> stop'.text, reviewed |-> stop'.reviewed]
      BY <2>1, <2>2 DEF Active
    <2>4. \A n \in stop'.reviewed : n # 0 /\ Reviewed(n)'  BY <1>6, <1>7, <2>1
    <2>5. ~Busy' /\ ~reads'  BY <1>1, <1>2 DEF Busy, At
    <2>6. input' \in Nat \ {0} /\ stops' \in Nat /\ Now' \in saw'  BY <1>1, <1>5, <1>6, <2>1
    <2> QED  BY <2>3, <2>4, <2>5, <2>6 DEF StopOK
  <1> QED  BY <1>3, <1>4, <1>8 DEF ReviewInv

(* The outcome of a lookup. *)
LEMMA OutcomeFields ==
  ASSUME BuildFields, NEW code, NEW to, Outcome(code, to)
  PROVE  /\ BuildFields'
         /\ build'.pc = to /\ build'.msg.code = code
         /\ build'.msg.stop = build.msg.stop /\ build'.msg.input = build.msg.input
         /\ build'.msg.failed = build.msg.failed
  <1> DEFINE m == build.msg
             n == [stop |-> m.stop, input |-> m.input, code |-> code, failed |-> m.failed,
                   unresolved |-> m.unresolved, work |-> m.work]
  <1>1. [m EXCEPT !.code = code] = n
    <2>1. m = [stop |-> m.stop, input |-> m.input, code |-> m.code, failed |-> m.failed,
               unresolved |-> m.unresolved, work |-> m.work]
      BY DEF BuildFields, MessageFields
    <2> QED  BY <2>1
  <1>2. build' = [pc |-> to, by |-> build.by, found |-> {}, fresh |-> FALSE, msg |-> n]
    <2> HIDE DEF n
    <2>1. build = [pc |-> build.pc, by |-> build.by, found |-> build.found, fresh |-> build.fresh, msg |-> m]
      BY DEF BuildFields
    <2>2. build' = [build EXCEPT !.pc = to, !.found = {}, !.fresh = FALSE, !.msg = [m EXCEPT !.code = code]]
      BY DEF Outcome
    <2> HIDE DEF m
    <2> QED  BY <1>1, <2>1, <2>2
  <1>3. build'.msg = n /\ build'.pc = to
    <2> HIDE DEF n
    <2> QED  BY <1>2
  <1>4. BuildFields'
    <2>1. MessageFields(n)  BY DEF MessageFields
    <2> HIDE DEF n
    <2> QED  BY <1>2, <2>1 DEF BuildFields
  <1> QED  BY <1>3, <1>4

(* A lookup that ends with a code. *)
LEMMA LookUpEnds ==
  ASSUME ReviewInv, InBuild, NEW code, NEW to \in {"write", "input"}, Outcome(code, to), Busy,
         to = "input" => ~HasBlock /\ code # "none",
         to = "write" => QuietIsReviewed' /\ ExplanationCovered'
  PROVE  ReviewInv'
  <1>1. UNCHANGED <<session, records, stop, left, notice, reads, stops, file, saw, changes>>  BY DEF InBuild
  <1>2. BuildFields'  BY OutcomeFields DEF ReviewInv
  <1>3. build'.pc = to /\ build'.msg.code = code /\ build'.msg.stop = build.msg.stop
    BY OutcomeFields DEF ReviewInv
  <1>4. BuildOK'
    BY <1>1, <1>3 DEF BuildOK, At, HasBlock, QuietIsReviewed, ExplanationCovered, Accepts
  <1>5. StopOK'
    <2>1. build.msg.stop = stop.n /\ Active  BY DEF ReviewInv, StopOK
    <2>2. (Busy => Active /\ build.msg.stop = stop.n)'  BY <1>1, <1>3, <2>1 DEF Active
    <2>3. (reads => Active /\ notice.stop = stop.n)' /\ (left # {} => Active)'
      BY <1>1 DEF ReviewInv, StopOK, Active
    <2> QED  BY <1>1, <2>2, <2>3, BuildFrame DEF StopOK
  <1> QED  BY <1>1, <1>2, <1>4, <1>5, BuildFrame DEF ReviewInv

(* A build begins with the session; without a block it takes no code. *)
LEMMA ReadSessionStep ==
  ASSUME ReviewInv, NEW h \in Hook, ReadSession(h)
  PROVE  ReviewInv'
  <1>1. UNCHANGED <<session, records, stop, notice, reads, stops, file, saw, changes>>  BY DEF ReadSession
  <1>2. PICK code, to, m :
          /\ build' = [pc |-> to, by |-> h, found |-> {}, fresh |-> FALSE, msg |-> m]
          /\ MessageFields(m) /\ m.stop = stop.n /\ m.code = code
          /\ to = "write" => code # "none"
          /\ to = "explanation" => ~HasBlock
          /\ to = "proof" => HasBlock
          /\ to \in {"write", "explanation", "proof"}
    <2> DEFINE code == CASE Block(stop.text) = "none" -> "none"
                   [] Block(stop.text) # "none" /\ ~Ready -> "route-unavailable"
                   [] ~WellFormed(stop.text) /\ Ready -> "completion-format"
                   [] OTHER -> "none"
               to == IF code # "none" THEN "write"
                     ELSE IF Block(stop.text) = "none" THEN "explanation" ELSE "proof"
               in == IF bound THEN input ELSE 0
               open == stop.text = "partial"
               work == IF Ready THEN route.work ELSE "undeclared"
               m == [stop |-> stop.n, input |-> in, code |-> code, failed |-> {},
                     unresolved |-> open, work |-> work]
    <2>1. build' = [pc |-> to, by |-> h, found |-> {}, fresh |-> FALSE, msg |-> m]
      BY DEF ReadSession
    <2>2. MessageFields(m) /\ m.stop = stop.n /\ m.code = code
      <3> HIDE DEF code, in, open, work
      <3> QED  BY DEF MessageFields
    <2>3. /\ to = "write" => code # "none"
          /\ to = "explanation" => ~HasBlock
          /\ to = "proof" => HasBlock
          /\ to \in {"write", "explanation", "proof"}
      <3> HIDE DEF code
      <3> QED  BY DEF HasBlock
    <2> HIDE DEF code, to, m
    <2> QED  BY <2>1, <2>2, <2>3
  <1>3. build'.pc = to /\ build'.msg = m  BY <1>2
  <1>4. BuildFields'  BY <1>2, <1>3 DEF BuildFields
  <1>5. Active  BY DEF ReviewInv, StopOK, ReadSession
  <1>6. BuildOK'
    BY <1>1, <1>2, <1>3 DEF BuildOK, At, HasBlock, QuietIsReviewed, ExplanationCovered, Accepts
  <1>7. StopOK'
    <2>1. (Busy => Active /\ build.msg.stop = stop.n)'  BY <1>1, <1>2, <1>3, <1>5 DEF Active
    <2>2. (reads => Active /\ notice.stop = stop.n)' /\ (left # {} => Active)'
      BY <1>1, <1>5 DEF ReviewInv, StopOK, Active
    <2> QED  BY <1>1, <2>1, <2>2, BuildFrame DEF StopOK
  <1> QED  BY <1>1, <1>4, <1>6, <1>7, BuildFrame DEF ReviewInv
(* The claim review of the block is looked up while it is under the        *)
(* contract and, if it is fresh, with the sources it cites as they were.   *)
LEMMA LookUpProofStep ==
  ASSUME ReviewInv, LookUpProof
  PROVE  ReviewInv'
  <1>1. InBuild /\ Busy /\ HasBlock  BY DEF ReviewInv, BuildOK, LookUpProof, At, Busy
  <1>2. ASSUME NEW code, code # "none", Outcome(code, "write") PROVE ReviewInv'
    <2>1. build'.msg.code = code  BY <1>2, OutcomeFields DEF ReviewInv
    <2>2. QuietIsReviewed' /\ ExplanationCovered'
      BY <1>2, <2>1 DEF QuietIsReviewed, ExplanationCovered, Accepts
    <2> QED  BY <1>1, <1>2, <2>2, LookUpEnds
  <1>3. ASSUME Ready, NEW a \in ClaimReviews(stop.text),
               build' = [build EXCEPT !.pc = "answer", !.found = {a},
                            !.fresh = (Changed(a.snap, Cited(a.verdicts)) = {}),
                            !.msg.failed = DOMAIN a.verdicts \ Cited(a.verdicts)]
        PROVE  ReviewInv'
    <2> DEFINE fresh == Changed(a.snap, Cited(a.verdicts)) = {}
               failed == DOMAIN a.verdicts \ Cited(a.verdicts)
               m == build.msg
               n == [stop |-> m.stop, input |-> m.input, code |-> m.code, failed |-> failed,
                     unresolved |-> m.unresolved, work |-> m.work]
    <2>1. [m EXCEPT !.failed = failed] = n
      <3>1. m = [stop |-> m.stop, input |-> m.input, code |-> m.code, failed |-> m.failed,
                 unresolved |-> m.unresolved, work |-> m.work]
        BY DEF ReviewInv, BuildFields, MessageFields
      <3> HIDE DEF failed
      <3> QED  BY <3>1
    <2>2. build' = [pc |-> "answer", by |-> build.by, found |-> {a}, fresh |-> fresh, msg |-> n]
      <3>1. build = [pc |-> build.pc, by |-> build.by, found |-> build.found, fresh |-> build.fresh, msg |-> m]
        BY DEF ReviewInv, BuildFields
      <3>2. build' = [build EXCEPT !.pc = "answer", !.found = {a}, !.fresh = fresh,
                                   !.msg = [m EXCEPT !.failed = failed]]
        BY <1>3
      <3> HIDE DEF n, m, fresh, failed
      <3> QED  BY <2>1, <3>1, <3>2
    <2> HIDE DEF fresh, failed
    <2>3. build'.pc = "answer" /\ build'.found = {a} /\ build'.fresh = fresh /\ build'.msg = n
      <3> HIDE DEF n
      <3> QED  BY <2>2
    <2>4. BuildFields'
      <3>1. MessageFields(n)  BY DEF MessageFields
      <3> HIDE DEF n
      <3> QED  BY <2>2, <3>1 DEF BuildFields
    <2>5. n.failed = failed /\ n.stop = build.msg.stop  OBVIOUS
    <2> HIDE DEF n, m
    <2>6. a \in assessments /\ a.contract = Contract  BY DEF ClaimReviews
    <2>7. UNCHANGED <<session, records, stop, left, notice, reads, stops, file, saw, changes>>
      BY <1>1 DEF InBuild
    <2>8. Active /\ Now \in saw  BY <1>1 DEF ReviewInv, StopOK
    <2>9. Found(a, Now)'
      <3>1. Now' = Now  BY <2>7 DEF Now, Contract, Ready, session
      <3>2. Now.contract = Contract /\ Now.file = file  BY DEF Now
      <3>3. fresh => \A c \in Cited(a.verdicts) : file[c] = a.snap[c]  BY DEF fresh, Changed
      <3>4. /\ build'.found = {a} /\ a.contract = Now.contract
            /\ build'.fresh => \A c \in Cited(a.verdicts) : Now.file[c] = a.snap[c]
            /\ build'.msg.failed = DOMAIN a.verdicts \ Cited(a.verdicts)
        BY <2>3, <2>5, <2>6, <3>2, <3>3 DEF failed
      <3> QED  BY <3>1, <3>4 DEF Found
    <2>10. \E b \in assessments', s \in saw' : Found(b, s)'
      <3>1. assessments' = assessments /\ saw' = saw /\ Now' = Now
        BY <2>7 DEF records, session, Now, Contract, Ready
      <3> QED  BY <2>6, <2>8, <2>9, <3>1
    <2>11. BuildOK'
      BY <1>1, <2>3, <2>7, <2>10 DEF BuildOK, At, HasBlock, QuietIsReviewed, ExplanationCovered, Accepts
    <2>12. StopOK'
      <3>1. build.msg.stop = stop.n  BY <1>1 DEF ReviewInv, StopOK
      <3>2. (Busy => Active /\ build.msg.stop = stop.n)'  BY <2>3, <2>5, <2>7, <2>8, <3>1 DEF Active
      <3>3. (reads => Active /\ notice.stop = stop.n)' /\ (left # {} => Active)'
        BY <2>7, <2>8 DEF ReviewInv, StopOK, Active
      <3> QED  BY <2>7, <3>2, <3>3, BuildFrame DEF StopOK
    <2> QED  BY <2>4, <2>7, <2>11, <2>12, BuildFrame DEF ReviewInv
  <1> QED  BY <1>2, <1>3 DEF LookUpProof

(* A quiet lookup of the answer found the one review of it, and at the     *)
(* time its claim review was looked up it was under the contract and its   *)
(* sources were as they were reviewed.                                     *)
LEMMA LookUpAnswerStep ==
  ASSUME ReviewInv, LookUpAnswer
  PROVE  ReviewInv'
  <1>1. InBuild /\ At("answer") /\ Busy /\ HasBlock
    BY DEF ReviewInv, BuildOK, LookUpAnswer, At, Busy
  <1>2. PICK a \in assessments, s \in saw : Found(a, s)  BY <1>1 DEF ReviewInv, BuildOK
  <1>3. build.found = {a}  BY <1>2 DEF Found
  <1> DEFINE reviews == AnswerReviews(a, stop.text)
             r == CHOOSE r \in reviews : TRUE
             code == IF Cardinality(reviews) # 1 THEN "response-assessment-required"
                     ELSE IF r.verdict # "supported" THEN "response-unsupported"
                     ELSE IF Changed(r.snap, DOMAIN r.snap) # {} \/ ~build.fresh THEN "source"
                     ELSE IF build.msg.failed # {} THEN "assessment-unsupported"
                     ELSE "none"
  <1>4. Outcome(code, "write")  BY <1>3 DEF LookUpAnswer
  <1>5. build'.msg.code = code /\ build'.msg.failed = build.msg.failed  BY <1>4, OutcomeFields DEF ReviewInv
  <1>6. UNCHANGED <<stop, saw, responses>>  BY <1>1 DEF InBuild, records
  <1>7. ASSUME code = "none"
        PROVE  \E x \in responses, y \in saw :
                 /\ Comparable(x.text) = Comparable(stop.text) /\ Supports(x)
                 /\ x.contract = y.contract /\ Held(x, y)
    <2>1. Cardinality(reviews) = 1 /\ r.verdict = "supported" /\ build.fresh /\ build.msg.failed = {}
      BY <1>7, Zenon
    <2>2. r \in reviews
      <3>1. reviews # {}
        <4> HIDE DEF reviews
        <4> QED  BY <2>1, FS_EmptySet
      <3> HIDE DEF reviews
      <3> QED  BY <3>1
    <2>3. /\ r \in responses /\ r.basis = {Basis(a)}
          /\ Comparable(r.text) = Comparable(stop.text)
      <3> HIDE DEF r
      <3> QED  BY <2>2 DEF AnswerReviews
    <2> HIDE DEF r, reviews
    <2>4. PICK b \in assessments : ResponseOf(r, b)
      BY <2>3 DEF ReviewInv, ResponsesOK
    <2>5. b = a  BY <2>3, <2>4 DEF ResponseOf, ReviewInv, AssessmentsOK
    <2>6. Cited(a.verdicts) = DOMAIN a.verdicts /\ DOMAIN a.verdicts = DOMAIN a.snap
      BY <1>2, <2>1 DEF Found, Cited, ReviewInv, AssessmentsOK
    <2>7. Supports(r) /\ r.contract = s.contract
      BY <1>2, <2>1, <2>4, <2>5, <2>6 DEF Supports, ResponseOf, Found
    <2>8. Held(r, s)  BY <1>2, <2>1, <2>4, <2>5, <2>6 DEF Held, ResponseOf, Found
    <2> QED  BY <2>3, <2>7, <2>8
  <1> HIDE DEF code, reviews, r
  <1>8. QuietIsReviewed'  BY <1>5, <1>6, <1>7 DEF QuietIsReviewed, Accepts, At
  <1>9. ExplanationCovered'  BY <1>1, <1>6 DEF ExplanationCovered, HasBlock
  <1> QED  BY <1>1, <1>4, <1>8, <1>9, LookUpEnds

(* A quiet lookup of an explanation found the one review that counts, now. *)
LEMMA QuietExplanation ==
  ASSUME ReviewInv, Active, ExplanationCode(stop.text) = "none", ~HasBlock
  PROVE  \E r \in responses, s \in saw :
           /\ r.text = stop.text /\ Supports(r)
           /\ r.input = s.input /\ Scope(r.contract) = Scope(s.contract) /\ Held(r, s)
  <1> DEFINE t == stop.text
             sources == OfSources(t)
             current == {r \in sources : Changed(r.snap, Cited(r.verdicts)
                           \cup (IF r.verdict = "supported" THEN DOMAIN r.snap ELSE {})) = {}}
             retained == OfProof(t)
             Quiet(R) == \A r \in R : r.verdict = "supported" /\ Cited(r.verdicts) = DOMAIN r.verdicts
  <1>1. Now \in saw /\ Now.input = input /\ Now.contract = Contract /\ Now.file = file
    BY DEF ReviewInv, StopOK, Now
  <1>2. \A r : Held(r, Now) <=> Changed(r.snap, DOMAIN r.snap) = {}
    BY <1>1 DEF Held, Changed
  <1>3. \/ sources # {} /\ Cardinality(current) = 1 /\ Quiet(current)
        \/ /\ sources = {} /\ Cardinality(retained) = 1
           /\ LET r == CHOOSE r \in retained : TRUE
              IN r.contract = Contract /\ r.verdict = "supported" /\ Changed(r.snap, DOMAIN r.snap) = {}
    <2> DEFINE r == CHOOSE r \in retained : TRUE
    <2>1. Ready  BY DEF ExplanationCode
    <2>2. CASE sources # {}
      <3>1. "none" = IF current = {} THEN "source"
                     ELSE IF Cardinality(current) # 1 THEN "response-unbound"
                     ELSE IF Quiet(current) THEN "none" ELSE "response-unsupported"
        BY <2>1, <2>2 DEF ExplanationCode
      <3> HIDE DEF sources, current, Quiet
      <3> QED  BY <2>2, <3>1
    <2>3. CASE sources = {}
      <3>1. Cardinality(retained) = 1  BY <2>1, <2>3 DEF ExplanationCode
      <3>2. "none" = IF r.contract # Contract THEN "response-unbound"
                      ELSE IF \E a \in assessments : Basis(a) \in r.basis /\ ~Covered(a) THEN "source"
                      ELSE IF r.verdict # "supported" THEN "response-unsupported"
                      ELSE IF Changed(r.snap, DOMAIN r.snap) # {} THEN "source"
                      ELSE "none"
        BY <2>1, <2>3, <3>1 DEF ExplanationCode
      <3>3. r.contract = Contract /\ r.verdict = "supported" /\ Changed(r.snap, DOMAIN r.snap) = {}
        <4> HIDE DEF r
        <4> QED  BY <3>2
      <3> HIDE DEF sources, retained
      <3> QED  BY <2>3, <3>1, <3>3
    <2> QED  BY <2>2, <2>3
  <1>4. CASE Cardinality(current) = 1 /\ Quiet(current)
    <2>1. PICK r : r \in current
      <3> HIDE DEF current
      <3> QED  BY <1>4, FS_EmptySet
    <2>2. r \in responses /\ r.text = t /\ r.input = input /\ Scope(r.contract) = Scope(Contract)
      BY <2>1 DEF OfSources
    <2>3. r.verdict = "supported" /\ Supports(r)  BY <1>4, <2>1 DEF Supports
    <2>4. Changed(r.snap, DOMAIN r.snap) = {}  BY <2>1, <2>3 DEF Changed
    <2> HIDE DEF current, sources
    <2> QED  BY <1>1, <1>2, <2>2, <2>3, <2>4
  <1>5. CASE /\ Cardinality(retained) = 1
             /\ LET r == CHOOSE r \in retained : TRUE
                IN r.contract = Contract /\ r.verdict = "supported" /\ Changed(r.snap, DOMAIN r.snap) = {}
    <2> DEFINE r == CHOOSE r \in retained : TRUE
    <2>1. r \in retained
      <3> HIDE DEF retained
      <3>1. retained # {}  BY <1>5, FS_EmptySet
      <3> QED  BY <3>1
    <2>2. r.contract = Contract /\ r.verdict = "supported" /\ Changed(r.snap, DOMAIN r.snap) = {}
      BY <1>5
    <2> HIDE DEF r
    <2>3. r \in responses /\ r.text = t /\ r.input = input /\ r.of = "proof"  BY <2>1 DEF OfProof
    <2>4. Supports(r)
      BY <2>2, <2>3 DEF ReviewInv, ResponsesOK, Explains, AllSupported, Supports, HasBlock
    <2> QED  BY <1>1, <1>2, <2>2, <2>3, <2>4
  <1> HIDE DEF sources, current, retained, Quiet
  <1> QED  BY <1>3, <1>4, <1>5

(* A lookup of the explanation ends quietly or with a code. *)
LEMMA LookUpExplanationStep ==
  ASSUME ReviewInv, LookUpExplanation
  PROVE  ReviewInv'
  <1>1. InBuild /\ At("explanation") /\ Busy /\ ~HasBlock /\ Active
    BY DEF ReviewInv, BuildOK, StopOK, LookUpExplanation, At, Busy
  <1> DEFINE code == ExplanationCode(stop.text)
             to == IF code \in {"route-unavailable", "response-assessment-required"} THEN "input" ELSE "write"
  <1>2. Outcome(code, to)  BY DEF LookUpExplanation
  <1>3. to \in {"write", "input"} /\ (to = "input" => code # "none")
    <2> HIDE DEF code
    <2> QED  OBVIOUS
  <1>4. build'.msg.code = code  BY <1>2, OutcomeFields DEF ReviewInv
  <1>5. UNCHANGED <<stop, saw, responses>>  BY <1>1 DEF InBuild, records
  <1>6. code = "none" =>
          \E r \in responses, s \in saw :
           /\ r.text = stop.text /\ Supports(r)
           /\ r.input = s.input /\ Scope(r.contract) = Scope(s.contract) /\ Held(r, s)
    BY <1>1, QuietExplanation
  <1> HIDE DEF code, to
  <1>7. QuietIsReviewed'  BY <1>1, <1>5 DEF QuietIsReviewed, HasBlock
  <1>8. ExplanationCovered'  BY <1>4, <1>5, <1>6 DEF ExplanationCovered, Accepts
  <1> QED  BY <1>1, <1>2, <1>3, <1>7, <1>8, LookUpEnds

(* Without a review of the answer its input decides. *)
LEMMA LookUpInputStep ==
  ASSUME ReviewInv, LookUpInput
  PROVE  ReviewInv'
  <1>1. InBuild /\ At("input") /\ Busy /\ ~HasBlock /\ build.msg.code # "none"
    BY DEF ReviewInv, BuildOK, LookUpInput, At, Busy
  <1> DEFINE code == IF build.msg.input # 0 /\ Reviewed(build.msg.input) THEN build.msg.code ELSE "none"
  <1>2. Outcome(code, "write")  BY DEF LookUpInput
  <1>3. build'.msg.code = code /\ build'.msg.input = build.msg.input  BY <1>2, OutcomeFields DEF ReviewInv
  <1>4. UNCHANGED <<stop, saw, responses>>  BY <1>1 DEF InBuild, records
  <1>5. build.msg.input \in stop.reviewed => code # "none"
    BY <1>1 DEF ReviewInv, StopOK
  <1> HIDE DEF code
  <1>6. QuietIsReviewed'  BY <1>1, <1>4 DEF QuietIsReviewed, HasBlock
  <1>7. ExplanationCovered'  BY <1>3, <1>4, <1>5 DEF ExplanationCovered, Accepts
  <1> QED  BY <1>1, <1>2, <1>6, <1>7, LookUpEnds

(* The notice is written, read, and the Stop ends. *)
LEMMA NoticeStep ==
  ASSUME ReviewInv, WriteNotice \/ ReadNotice \/ EndStop
  PROVE  ReviewInv'
  <1>1. CASE WriteNotice
    <2>1. UNCHANGED <<session, records, stop, left, stops, file, saw, changes>> /\ build' = Idle
      BY <1>1 DEF WriteNotice
    <2>2. Active /\ build.msg.stop = stop.n  BY <1>1 DEF WriteNotice, ReviewInv, StopOK, Busy, At
    <2>3. (reads => Active /\ notice.stop = stop.n)' /\ (left # {} => Active)'
      BY <1>1, <2>1, <2>2 DEF WriteNotice, ReviewInv, StopOK, Active
    <2>4. build'.pc = "idle" /\ BuildFields'
      BY <2>1 DEF Idle, NoMessage, BuildFields, MessageFields
    <2>5. BuildOK'  BY <2>4 DEF BuildOK, At, QuietIsReviewed, ExplanationCovered, Accepts
    <2>6. StopOK'  BY <2>1, <2>3, <2>4, BuildFrame DEF StopOK, Busy, At
    <2> QED  BY <2>1, <2>4, <2>5, <2>6, BuildFrame DEF ReviewInv
  <1>2. CASE ReadNotice
    <2>1. UNCHANGED <<session, records, stop, build, left, notice, stops, file, saw, changes>> /\ ~reads'
      BY <1>2 DEF ReadNotice
    <2>2. UNCHANGED <<assessments, responses>>  BY <2>1 DEF records
    <2>3. BuildFields'  BY <2>1 DEF ReviewInv, BuildFields
    <2>4. BuildOK'
      BY <2>1, <2>2 DEF ReviewInv, BuildOK, At, HasBlock, QuietIsReviewed, ExplanationCovered, Accepts, Found
    <2>5. StopOK'  BY <2>1, BuildFrame DEF ReviewInv, StopOK, Busy, At, Active
    <2> QED  BY <2>1, <2>3, <2>4, <2>5, BuildFrame DEF ReviewInv
  <1>3. CASE EndStop
    <2>1. /\ UNCHANGED <<session, records, build, left, notice, reads, stops, file, changes>>
          /\ left = {} /\ At("idle") /\ ~reads
          /\ stop' = [stop EXCEPT !.n = 0, !.reviewed = {}]
      BY <1>3 DEF EndStop
    <2>2. AssessmentsOK' /\ CandidatesOK' /\ ResponsesOK' /\ BuildFields'
      BY <2>1 DEF records, ReviewInv, AssessmentsOK, CandidatesOK, ResponsesOK, BuildFields
    <2>3. BuildOK'  BY <2>1 DEF BuildOK, At, QuietIsReviewed, ExplanationCovered, Accepts
    <2>4. ~Active' /\ stop'.reviewed = {}
      <3>1. stop = [n |-> stop.n, text |-> stop.text, reviewed |-> stop.reviewed]
        BY DEF ReviewInv, StopOK
      <3>2. stop' = [n |-> 0, text |-> stop.text, reviewed |-> {}]  BY <2>1, <3>1
      <3>3. stop'.n = 0 /\ stop'.reviewed = {}  BY <3>2
      <3> QED  BY <3>3 DEF Active
    <2>5. StopOK'  BY <2>1, <2>4 DEF ReviewInv, StopOK, Busy, At, session
    <2> QED  BY <2>2, <2>3, <2>5 DEF ReviewInv
  <1> QED  BY <1>1, <1>2, <1>3

(* Each step keeps the invariant. *)
LEMMA ReviewInvStep == ReviewInv /\ [Next]_vars => ReviewInv'
  <1> SUFFICES ASSUME ReviewInv, [Next]_vars PROVE ReviewInv'  OBVIOUS
  <1>0. input \in Nat \ {0}  BY DEF ReviewInv, StopOK
  <1>1. CASE NewInput \/ ConfirmInput \/ ChangeConditions
    <2>1. UNCHANGED <<records, stopping>> /\ Watch /\ input' \in Nat \ {0}
      BY <1>0, <1>1 DEF NewInput, ConfirmInput, ChangeConditions, Change
    <2> QED  BY <2>1, SessionStep
  <1>2. ASSUME NEW r \in 1..MaxRevisions, NEW work \in OpenWork, RecordRoute(r, work) PROVE ReviewInv'
    <2>1. UNCHANGED <<records, stopping>> /\ Watch /\ input' \in Nat \ {0}
      BY <1>0, <1>2 DEF RecordRoute, Change
    <2> QED  BY <2>1, SessionStep
  <1>3. ASSUME NEW c \in Claim, EditSource(c) PROVE ReviewInv'
    <2>1. UNCHANGED <<records, stopping>> /\ Watch /\ input' \in Nat \ {0}
      BY <1>0, <1>3 DEF EditSource, Change, session
    <2> QED  BY <2>1, SessionStep
  <1>4. CASE \/ PrepareExplanation
             \/ \E t \in Drafts, time \in Times : PrepareProof(t, time)
             \/ \E c \in candidates, t \in Drafts \ {"broken"} : PrepareReuse(c, t)
    BY <1>4, PrepareStep
  <1>5. CASE \E c \in candidates : RecordReview(c)  BY <1>5, ReviewStep
  <1>6. CASE \E t \in Text : StartStop(t)  BY <1>6, StartStep
  <1>7. CASE \E h \in Hook : ReadSession(h)  BY <1>7, ReadSessionStep
  <1>8. CASE LookUpProof \/ LookUpAnswer \/ LookUpExplanation \/ LookUpInput
    BY <1>8, LookUpProofStep, LookUpAnswerStep, LookUpExplanationStep, LookUpInputStep
  <1>9. CASE WriteNotice \/ ReadNotice \/ EndStop  BY <1>9, NoticeStep
  <1>10. CASE UNCHANGED vars
    <2>1. UNCHANGED <<input, candidates, assessments, responses, build, stop, left, notice, reads, stops, saw>>
          /\ Now' = Now
      BY <1>10 DEF vars, session, records, stopping, Now, Contract, Ready
    <2>2. AssessmentsOK' /\ CandidatesOK' /\ ResponsesOK' /\ BuildFields'
      BY <2>1 DEF ReviewInv, AssessmentsOK, CandidatesOK, ResponsesOK, BuildFields
    <2>3. BuildOK'
      BY <2>1 DEF ReviewInv, BuildOK, At, HasBlock, QuietIsReviewed, ExplanationCovered, Accepts, Found
    <2>4. StopOK'  BY <2>1 DEF ReviewInv, StopOK, Busy, At, Active, Reviewed
    <2> QED  BY <2>2, <2>3, <2>4 DEF ReviewInv
  <1> QED  BY <1>1, <1>2, <1>3, <1>4, <1>5, <1>6, <1>7, <1>8, <1>9, <1>10 DEF Next

(* The session starts without a Stop and without records. *)
LEMMA ReviewInvInit == Init => ReviewInv
  <1> SUFFICES ASSUME Init PROVE ReviewInv  OBVIOUS
  <1> USE DEF Init
  <1>1. build.pc = "idle" /\ BuildFields
    BY DEF Idle, NoMessage, BuildFields, MessageFields
  <1>2. AssessmentsOK /\ CandidatesOK /\ ResponsesOK  BY DEF AssessmentsOK, CandidatesOK, ResponsesOK
  <1>3. stop.n = 0 /\ stop.reviewed = {} /\ stop = [n |-> stop.n, text |-> stop.text, reviewed |-> stop.reviewed]
    OBVIOUS
  <1>4. StopOK  BY <1>1, <1>3 DEF StopOK, Busy, At, Active
  <1>5. BuildOK  BY <1>1 DEF BuildOK, At, QuietIsReviewed, ExplanationCovered, Accepts
  <1> QED  BY <1>1, <1>2, <1>4, <1>5 DEF ReviewInv

(* The records and the message being built agree throughout. *)
LEMMA ReviewInvariant == Spec => []ReviewInv
  BY ReviewInvInit, ReviewInvStep, PTL DEF Spec

(* For all answers, sources, records and interleavings: a Stop has nothing *)
(* to say about an answer with a completion block only if one review of it *)
(* supports every claim, under the contract and with the sources of one    *)
(* moment of the Stop.                                                     *)
THEOREM QuietStopIsReviewed == Spec => []QuietIsReviewed
  <1>1. ReviewInv => QuietIsReviewed  BY DEF ReviewInv, BuildOK
  <1> QED  BY <1>1, ReviewInvariant, PTL

(* An explanation of an input that was reviewed before passes only with a  *)
(* review of these words that supports it at one moment of the Stop.       *)
THEOREM ExplanationIsCovered == Spec => []ExplanationCovered
  <1>1. ReviewInv => ExplanationCovered  BY DEF ReviewInv, BuildOK
  <1> QED  BY <1>1, ReviewInvariant, PTL

(* An add-on's hook reads a notice of the Stop it runs for. *)
THEOREM AddonHearsOwnStop == Spec => AddonHearsThisStop
  <1>1. ReviewInv /\ [Next]_vars => [reads /\ ~reads' => notice.stop = stop.n]_vars
    BY DEF ReviewInv, StopOK
  <1> QED  BY <1>1, ReviewInvariant, PTL DEF Spec, AddonHearsThisStop
==============================================================================
