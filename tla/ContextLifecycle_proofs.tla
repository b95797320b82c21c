------------------------ MODULE ContextLifecycle_proofs ------------------------
(* KeepProtects, ChangedAsJudged and SelectionRefined for any transcript,      *)
(* number of publications, judgments, rewrites and requests.                   *)
(*                                                                             *)
(* The first reads of a request (ViewOK, HeldOK) know of each conflict between *)
(* a choice and a use that the second can meet: if no record moved and the     *)
(* request can still be changed, then neither the transcript nor the input     *)
(* changed since (Beside). What is then changed is kept by nobody (ScopesOK).  *)
(* An update refines the function of the choices because those in force never  *)
(* overlap and the publications they refer to never change (RecordsOK).        *)
EXTENDS ContextLifecycle, ServerClearing, SharedLog, FiniteSetTheorems, SequenceTheorems, WellFoundedInduction, TLAPS

(* The current publication is the last; each choice in force is one that an  *)
(* earlier publication made, and no two of them overlap.                     *)
Publication ==
  [mode : {"whole", "update"}, selected : New, epoch : Nat, retained : SUBSET [ref : Nat, scope : Scope]]
RecordsOK ==
  /\ published \in Seq(Publication) /\ current = Len(published)
  /\ \A d \in ChosenBy(current) : d.ref \in 1..current /\ d.scope \in DOMAIN published[d.ref].selected
  /\ \A d, e \in ChosenBy(current) : Overlap(d.scope, e.scope) => d = e

(* Nothing was judged, and no request begun, in a later transcript. *)
TimesOK ==
  /\ input \in Nat /\ epoch \in Nat
  /\ judged \in [Use -> [judgment : Judgments \cup {"none"}, epoch : Nat]]
  /\ \A u \in Use : judged[u].epoch <= epoch
  /\ req.epoch \in Nat /\ req.epoch <= epoch

Fields == {"pc", "human", "wire", "epoch", "late", "view", "heldScopes", "heldUses", "scopes", "uses"}
RequestFields == DOMAIN req = Fields
GhostsOK == moved \in BOOLEAN /\ (Active => kept \subseteq KeptNow /\ AllowedNow \subseteq allowed)

(* What the first reads saw is what the second find, if nothing moved. *)
ViewOK == Doing("uses") /\ ~moved /\ Ready => req.view = {<<s, Decisions[s]>> : s \in InForce}
UsesHeld == \A u \in Authentic, s \in InForce :
  Overlap(s, At(u)) /\ Decisions[s] = "keep" /\ ~Keeps(u) => u \in req.heldUses
ScopesHeld == \A u \in Authentic, s \in InForce :
  Overlap(s, At(u)) /\ Decisions[s] # "keep" /\ Keeps(u) => s \in req.heldScopes
HeldOK ==
  /\ req.pc \in {"manual", "apply"} /\ ~moved /\ Ready => UsesHeld
  /\ Doing("manual") /\ ~moved /\ Ready => ScopesHeld

(* A part that is going to be changed is one that nothing keeps. *)
Free(s) ==
  /\ s \in DOMAIN Decisions /\ Decisions[s] # "keep"
  /\ \A u \in Use : Keeps(u) /\ judged[u].epoch = epoch => ~Overlap(s, At(u))
ScopesOK == Doing("apply") => req.scopes \subseteq allowed /\ (~moved => \A s \in req.scopes : Free(s))

ReadsOK == GhostsOK /\ ViewOK /\ HeldOK /\ ScopesOK /\ KeepProtects /\ ChangedAsJudged
ContextInv == RecordsOK /\ TimesOK /\ RequestFields /\ ReadsOK

(* What is chosen depends on the publications only. *)
ChosenIn(pub, ref) ==
  IF ref = 0 THEN {}
  ELSE {[ref |-> ref, scope |-> s] : s \in DOMAIN pub[ref].selected} \cup pub[ref].retained
ChoicesIn(pub, cur) ==
  [s \in {d.scope : d \in ChosenIn(pub, cur)} |->
     LET d == CHOOSE d \in ChosenIn(pub, cur) : d.scope = s IN pub[d.ref].selected[d.scope]]

(* The choices of the model are those of its publications. *)
LEMMA ChoicesAre == Decisions = ChoicesIn(published, current)
  BY DEF Decisions, ChoicesIn, ChosenBy, ChosenIn, JudgmentOf

(* They stay as long as the publications do. *)
LEMMA ChoicesStay == ASSUME UNCHANGED <<published, current>> PROVE UNCHANGED Decisions
  <1>1. Decisions' = ChoicesIn(published', current')
    BY DEF Decisions, ChoicesIn, ChosenBy, ChosenIn, JudgmentOf
  <1> QED  BY <1>1, ChoicesAre

(* A chosen part has the judgment of the publication that chose it. *)
LEMMA ValuesIn ==
  ASSUME NEW pub, NEW cur, \A d, e \in ChosenIn(pub, cur) : Overlap(d.scope, e.scope) => d = e
  PROVE  /\ DOMAIN ChoicesIn(pub, cur) = {d.scope : d \in ChosenIn(pub, cur)}
         /\ \A d \in ChosenIn(pub, cur) : ChoicesIn(pub, cur)[d.scope] = pub[d.ref].selected[d.scope]
  <1>1. DOMAIN ChoicesIn(pub, cur) = {d.scope : d \in ChosenIn(pub, cur)}  BY DEF ChoicesIn
  <1>2. ASSUME NEW d \in ChosenIn(pub, cur)
        PROVE  ChoicesIn(pub, cur)[d.scope] = pub[d.ref].selected[d.scope]
    <2> DEFINE c == CHOOSE e \in ChosenIn(pub, cur) : e.scope = d.scope
    <2>1. c = d
      <3>1. \A e \in ChosenIn(pub, cur) : e.scope = d.scope => e = d  BY DEF Overlap
      <3> QED  BY <3>1
    <2>2. ChoicesIn(pub, cur)[d.scope] = pub[c.ref].selected[d.scope]
      <3>1. d.scope \in {e.scope : e \in ChosenIn(pub, cur)}  OBVIOUS
      <3>2. ChoicesIn(pub, cur)[d.scope] = pub[c.ref].selected[c.scope]  BY <3>1 DEF ChoicesIn
      <3> QED  BY <2>1, <3>2
    <2> QED  BY <2>1, <2>2
  <1> QED  BY <1>1, <1>2

(* So has a choice in force. *)
LEMMA ChoicesValue ==
  ASSUME RecordsOK
  PROVE  /\ DOMAIN Decisions = {d.scope : d \in ChosenBy(current)}
         /\ \A d \in ChosenBy(current) : Decisions[d.scope] = JudgmentOf(d)
  <1>1. ChosenBy(current) = ChosenIn(published, current)  BY DEF ChosenBy, ChosenIn
  <1>2. \A d, e \in ChosenIn(published, current) : Overlap(d.scope, e.scope) => d = e
    BY <1>1 DEF RecordsOK
  <1>3. /\ DOMAIN Decisions = {d.scope : d \in ChosenIn(published, current)}
        /\ \A d \in ChosenIn(published, current) :
             Decisions[d.scope] = published[d.ref].selected[d.scope]
    BY <1>2, ChoicesAre, ValuesIn
  <1> QED  BY <1>1, <1>3 DEF JudgmentOf

(* Two chosen parts that touch one block are the same. *)
LEMMA OneOnBlock ==
  ASSUME ContextAssumption, RecordsOK, NEW b \in Block, NEW s \in DOMAIN Decisions, NEW t \in DOMAIN Decisions,
         Overlap(s, b), Overlap(t, b)
  PROVE  s = t
  <1>1. b[2] # 0  BY DEF ContextAssumption
  <1>2. Overlap(s, t)  BY <1>1 DEF Overlap
  <1>3. PICK d \in ChosenBy(current) : s = d.scope  BY ChoicesValue
  <1>4. PICK e \in ChosenBy(current) : t = e.scope  BY ChoicesValue
  <1> QED  BY <1>2, <1>3, <1>4 DEF RecordsOK

(* A block holds one object, and a use in it is that object's. *)
LEMMA OneUse ==
  ASSUME ContextAssumption, NEW u \in Use, NEW v \in Use, At(u) = At(v)
  PROVE  u = v /\ At(u) \in Block
  <1>1. PICK b \in Block : u = b \o << 1 >>  BY DEF ContextAssumption
  <1>2. PICK c \in Block : v = c \o << 1 >>  BY DEF ContextAssumption
  <1>3. b = <<b[1], b[2]>> /\ c = <<c[1], c[2]>>  BY DEF ContextAssumption
  <1>4. b \in {1, 2} \X {1, 2} /\ c \in {1, 2} \X {1, 2}  BY DEF ContextAssumption
  <1>5. ASSUME NEW x \in {1, 2} \X {1, 2}, NEW w, w = x \o << 1 >>
        PROVE  <<w[1], w[2]>> = x
    <2>1. PICK i \in {1, 2}, j \in {1, 2} : x = <<i, j>>  OBVIOUS
    <2>2. <<i, j>> \in Seq(Nat) /\ << 1 >> \in Seq(Nat) /\ Len(<<i, j>>) = 2  OBVIOUS
    <2>3. w[1] = i /\ w[2] = j  BY <1>5, <2>1, <2>2
    <2> QED  BY <2>1, <2>3
  <1>6. At(u) = b  BY <1>1, <1>4, <1>5 DEF At
  <1>7. At(v) = c  BY <1>2, <1>4, <1>5 DEF At
  <1> QED  BY <1>1, <1>2, <1>6, <1>7
(* What a step that leaves the records and the transcript alone, or also the *)
(* input and what the request is about, finds as it was.                     *)
LEMMA SameRecords ==
  ASSUME UNCHANGED <<records, epoch>>
  PROVE  /\ UNCHANGED Decisions /\ UNCHANGED ChosenBy(current)
         /\ Usable' <=> Usable
         /\ \A u : Keeps(u)' <=> Keeps(u)
         /\ \A s : Free(s)' <=> Free(s)
         /\ UNCHANGED KeptNow
  <1>1. UNCHANGED <<published, current, judged, bound, epoch>>  BY DEF records
  <1>2. UNCHANGED Decisions  BY <1>1, ChoicesStay
  <1>3. UNCHANGED ChosenBy(current)
    <2>1. ChosenBy(current) = ChosenIn(published, current)  BY DEF ChosenBy, ChosenIn
    <2>2. ChosenBy(current)' = ChosenIn(published', current')  BY DEF ChosenBy, ChosenIn
    <2> QED  BY <1>1, <2>1, <2>2
  <1>4. Usable' <=> Usable
    <2>1. Verified' <=> Verified  BY <1>1, <1>3 DEF Verified
    <2> QED  BY <1>1, <2>1 DEF Usable
  <1>5. \A u : Keeps(u)' <=> Keeps(u)  BY <1>1 DEF Keeps
  <1>6. \A s : Free(s)' <=> Free(s)  BY <1>1, <1>2, <1>5 DEF Free, At
  <1>7. UNCHANGED KeptNow  BY <1>1, <1>2, <1>4, <1>5 DEF KeptNow, At
  <1> QED  BY <1>2, <1>3, <1>4, <1>5, <1>6, <1>7

(* The request is about what it was about. *)
SameRequest == req'.human = req.human /\ req'.wire = req.wire /\ req'.epoch = req.epoch

(* Then the reads of the request find the same. *)
LEMMA SameReads ==
  ASSUME UNCHANGED <<records, epoch, input, staged>>, SameRequest
  PROVE  /\ Ready' <=> Ready
         /\ UNCHANGED InForce /\ UNCHANGED Authentic
         /\ UNCHANGED AllowedNow
  <1>1. UNCHANGED judged  BY DEF records
  <1>2. Ready' <=> Ready  BY DEF Ready, Answers, SameRequest
  <1>3. \A s : OnWire(s)' <=> OnWire(s)  BY DEF OnWire, SameRequest
  <1>4. UNCHANGED InForce
    <2>1. UNCHANGED Decisions /\ (Usable' <=> Usable)  BY SameRecords
    <2> QED  BY <1>2, <1>3, <2>1 DEF InForce
  <1>5. UNCHANGED Authentic  BY <1>1, <1>2, <1>3 DEF Authentic, At
  <1>6. UNCHANGED AllowedNow
    <2>1. UNCHANGED Decisions /\ (Usable' <=> Usable)  BY SameRecords
    <2> QED  BY <1>1, <2>1 DEF AllowedNow, SameRequest
  <1> QED  BY <1>2, <1>4, <1>5, <1>6

(* What the watch of a request records. *)
LEMMA Watched ==
  ASSUME ContextInv, Watch
  PROVE  /\ moved' \in BOOLEAN /\ (~moved' => ~moved)
         /\ Reading /\ ~moved' => UNCHANGED <<input, records>>
         /\ Active => /\ kept' \subseteq kept /\ kept' \subseteq KeptNow'
                      /\ allowed \subseteq allowed' /\ AllowedNow' \subseteq allowed'
  BY Zenon DEF Watch, ContextInv, ReadsOK, GhostsOK

(* The transcript only gets newer, and nothing waits for its origin again    *)
(* before the input changes.                                                 *)
Progress ==
  /\ epoch' \in Nat /\ epoch <= epoch'
  /\ staged' = "no" => staged = "no" \/ input' # input

(* Steps of the others: the request, its reads and its changes stay good. *)
LEMMA Beside ==
  ASSUME ContextInv, UNCHANGED req, Watch, Progress
  PROVE  ReadsOK'
  <1>1. moved' \in BOOLEAN /\ (~moved' => ~moved) /\ (Reading /\ ~moved' => UNCHANGED <<input, records>>)
    BY Watched
  <1>2. GhostsOK'
    <2>1. Active' => Active  BY DEF Active, Doing
    <2> QED  BY <1>1, <2>1, Watched DEF GhostsOK
  <1>3. ASSUME Reading, ~moved', Ready'
        PROVE  UNCHANGED <<records, epoch, input, staged>> /\ ~moved /\ Ready
    <2>1. UNCHANGED <<records, input>> /\ ~moved  BY <1>1, <1>3
    <2>2. staged' = "no" /\ epoch' = req.epoch  BY <1>3 DEF Ready
    <2>3. staged = "no"  BY <2>1, <2>2 DEF Progress
    <2>4. epoch' = epoch  BY <2>2 DEF Progress, ContextInv, TimesOK
    <2> QED  BY <2>1, <2>2, <2>3, <2>4, <1>3 DEF Ready, Answers
  <1>4. ASSUME UNCHANGED <<records, epoch, input, staged>>
        PROVE  /\ UNCHANGED <<InForce, Authentic, Decisions>>
               /\ \A u : Keeps(u)' <=> Keeps(u)
    BY <1>4, SameReads, SameRecords DEF SameRequest
  <1>5. ViewOK'
    <2> SUFFICES ASSUME Doing("uses"), ~moved', Ready'
                 PROVE  req.view = {<<s, Decisions'[s]>> : s \in InForce'}
      BY DEF ViewOK, Doing
    <2>1. Reading  BY DEF Reading, Doing
    <2> QED  BY <1>3, <1>4, <2>1 DEF ContextInv, ReadsOK, ViewOK
  <1>6. HeldOK'
    <2> SUFFICES ASSUME req.pc \in {"manual", "apply"}, ~moved', Ready'
                 PROVE  UsesHeld' /\ (Doing("manual") => ScopesHeld')
      BY DEF HeldOK, Doing
    <2>1. UNCHANGED <<records, epoch, input, staged>> /\ ~moved /\ Ready  BY <1>3 DEF Reading
    <2>2. UsesHeld /\ (Doing("manual") => ScopesHeld)  BY <2>1 DEF ContextInv, ReadsOK, HeldOK
    <2> QED  BY <1>4, <2>1, <2>2 DEF UsesHeld, ScopesHeld, At
  <1>7. ScopesOK'
    <2> SUFFICES ASSUME Doing("apply")
                 PROVE  req.scopes \subseteq allowed' /\ (~moved' => \A s \in req.scopes : Free(s)')
      BY DEF ScopesOK, Doing
    <2>1. Reading /\ Active  BY DEF Reading, Doing, Active
    <2>2. req.scopes \subseteq allowed'  BY <2>1, Watched DEF ContextInv, ReadsOK, ScopesOK
    <2>3. ASSUME ~moved', NEW s \in req.scopes PROVE Free(s)'
      <3>1. UNCHANGED <<published, current, judged>> /\ Free(s)
        BY <1>1, <2>1, <2>3 DEF records, ContextInv, ReadsOK, ScopesOK
      <3>2. UNCHANGED Decisions  BY <3>1, ChoicesStay
      <3>3. ASSUME NEW u \in Use, Keeps(u)', judged'[u].epoch = epoch' PROVE ~Overlap(s, At(u))
        <4>1. judged[u].epoch \in Nat /\ judged[u].epoch <= epoch  BY DEF ContextInv, TimesOK
        <4>2. judged[u].epoch = epoch /\ Keeps(u)
          BY <3>1, <3>3, <4>1 DEF Progress, ContextInv, TimesOK, Keeps
        <4> QED  BY <3>1, <4>2 DEF Free
      <3> QED  BY <3>1, <3>2, <3>3 DEF Free, At
    <2> QED  BY <2>2, <2>3
  <1>8. ASSUME Doing("send")
        PROVE  kept' \subseteq kept /\ allowed \subseteq allowed' /\ (~moved' => ~moved)
    BY <1>8, Watched DEF Active, Doing
  <1>9. KeepProtects'
    BY <1>8 DEF ContextInv, ReadsOK, KeepProtects, Doing, At
  <1>10. ChangedAsJudged'
    BY <1>8 DEF ContextInv, ReadsOK, ChangedAsJudged, Doing, At
  <1> QED  BY <1>2, <1>5, <1>6, <1>7, <1>9, <1>10 DEF ReadsOK
-----------------------------------------------------------------------------
(* A publication adds its choices to those it retains, which were made       *)
(* before and do not touch them.                                             *)
LEMMA Published ==
  ASSUME RecordsOK, epoch \in Nat, NEW mode \in {"whole", "update"}, NEW new \in New, NEW retained,
         retained \subseteq Retained(new), Publish(mode, new, retained)
  PROVE  /\ RecordsOK'
         /\ Asked' = [mode |-> mode, new |-> new]
         /\ DOMAIN Decisions' = {d.scope : d \in retained} \cup DOMAIN new
         /\ \A s \in DOMAIN new : Decisions'[s] = new[s]
         /\ \A d \in retained : Decisions'[d.scope] = Decisions[d.scope]
  <1> DEFINE n == Len(published) + 1
             p == [mode |-> mode, selected |-> new, epoch |-> epoch, retained |-> retained]
             mine == {[ref |-> n, scope |-> s] : s \in DOMAIN new}
  <1>1. \A s \in DOMAIN new : s \in Scope
    BY DEF New
  <1>2. \A d \in ChosenBy(current) : d = [ref |-> d.ref, scope |-> d.scope] /\ d.ref \in Nat /\ d.scope \in Scope
    <2>1. CASE current = 0  BY <2>1 DEF ChosenBy
    <2>2. CASE current # 0
      <3>1. current \in 1..Len(published)  BY <2>2 DEF RecordsOK
      <3>2. published[current] \in Publication  BY <3>1 DEF RecordsOK
      <3>3. published[current].retained \subseteq [ref : Nat, scope : Scope]  BY <3>2 DEF Publication
      <3>4. \A s \in DOMAIN published[current].selected : s \in Scope  BY <3>2 DEF Publication, New
      <3> QED  BY <2>2, <3>1, <3>3, <3>4 DEF ChosenBy
    <2> QED  BY <2>1, <2>2
  <1>3. retained \subseteq ChosenBy(current) /\ retained \subseteq [ref : Nat, scope : Scope]
        /\ \A d \in retained, t \in DOMAIN new : ~Overlap(t, d.scope) /\ ~Overlap(d.scope, t)
    <2>1. retained \subseteq ChosenBy(current)  BY DEF Retained
    <2>2. retained \subseteq [ref : Nat, scope : Scope]  BY <1>2, <2>1
    <2>3. \A d \in retained, t \in DOMAIN new : ~Overlap(d.scope, t)  BY DEF Retained, Touches
    <2> QED  BY <2>1, <2>2, <2>3 DEF Overlap
  <1>4. p \in Publication  BY <1>3 DEF Publication
  <1>5. published' = Append(published, p) /\ current' = Len(published')  BY DEF Publish
  <1> HIDE DEF p
  <1>6. /\ published' \in Seq(Publication) /\ Len(published') = n /\ n \in Nat /\ current' = n /\ n # 0
        /\ published'[n] = p
        /\ \A i \in 1..Len(published) : published'[i] = published[i]
    BY <1>4, <1>5 DEF RecordsOK
  <1>7. p.selected = new /\ p.retained = retained /\ p.mode = mode  BY DEF p
  <1>8. ChosenBy(current)' = mine \cup retained  BY <1>6, <1>7 DEF ChosenBy
  <1>9. \A d \in ChosenBy(current)' : d.ref \in 1..current' /\ d.scope \in DOMAIN published'[d.ref].selected
    <2>1. ASSUME NEW d \in mine
          PROVE  d.ref \in 1..current' /\ d.scope \in DOMAIN published'[d.ref].selected
      <3>1. d.ref = n /\ d.scope \in DOMAIN new  OBVIOUS
      <3> QED  BY <1>6, <1>7, <3>1
    <2>2. ASSUME NEW d \in retained
          PROVE  d.ref \in 1..current' /\ d.scope \in DOMAIN published'[d.ref].selected
      <3>1. d.ref \in 1..Len(published) /\ d.scope \in DOMAIN published[d.ref].selected
        BY <1>3 DEF RecordsOK
      <3> HIDE DEF mine
      <3> QED  BY <1>6, <3>1 DEF RecordsOK
    <2> HIDE DEF mine
    <2> QED  BY <1>8, <2>1, <2>2
  <1>10. \A d, e \in ChosenBy(current)' : Overlap(d.scope, e.scope) => d = e
    <2>1. \A d, e \in mine : Overlap(d.scope, e.scope) => d = e  BY DEF New
    <2>2. \A d \in mine, e \in retained : ~Overlap(d.scope, e.scope) /\ ~Overlap(e.scope, d.scope)
      BY <1>3
    <2>3. \A d, e \in retained : Overlap(d.scope, e.scope) => d = e  BY <1>3 DEF RecordsOK
    <2> HIDE DEF mine
    <2> QED  BY <1>8, <2>1, <2>2, <2>3
  <1>11. RecordsOK'
    <2>1. \A d, e : Overlap(d.scope, e.scope)' <=> Overlap(d.scope, e.scope)  BY DEF Overlap
    <2> QED  BY <1>5, <1>6, <1>9, <1>10, <2>1 DEF RecordsOK
  <1>12. /\ DOMAIN Decisions' = {d.scope : d \in ChosenBy(current)'}
         /\ \A d \in ChosenBy(current)' : Decisions'[d.scope] = JudgmentOf(d)'
    <2>1. ChosenBy(current)' = ChosenIn(published', current')  BY DEF ChosenBy, ChosenIn
    <2>2. Decisions' = ChoicesIn(published', current')
      BY DEF Decisions, ChoicesIn, ChosenBy, ChosenIn, JudgmentOf
    <2>3. \A d, e \in ChosenIn(published', current') : Overlap(d.scope, e.scope) => d = e
      BY <1>10, <2>1
    <2>4. /\ DOMAIN Decisions' = {d.scope : d \in ChosenIn(published', current')}
          /\ \A d \in ChosenIn(published', current') :
               Decisions'[d.scope] = published'[d.ref].selected[d.scope]
      BY <2>2, <2>3, ValuesIn
    <2> QED  BY <2>1, <2>4 DEF JudgmentOf
  <1>13. DOMAIN Decisions' = {d.scope : d \in retained} \cup DOMAIN new
    <2>1. {d.scope : d \in mine} = DOMAIN new
      <3>1. \A d \in mine : d.scope \in DOMAIN new  OBVIOUS
      <3>2. \A s \in DOMAIN new : [ref |-> n, scope |-> s] \in mine /\ [ref |-> n, scope |-> s].scope = s
        OBVIOUS
      <3> HIDE DEF mine
      <3> QED  BY <3>1, <3>2
    <2> HIDE DEF mine
    <2> QED  BY <1>8, <1>12, <2>1
  <1>14. ASSUME NEW s \in DOMAIN new PROVE Decisions'[s] = new[s]
    <2> DEFINE d == [ref |-> n, scope |-> s]
    <2>1. d \in mine /\ d.ref = n /\ d.scope = s  OBVIOUS
    <2>2. \A e : JudgmentOf(e)' = published'[e.ref].selected[e.scope]  BY DEF JudgmentOf
    <2> HIDE DEF d, mine, n
    <2>3. d \in ChosenBy(current)'  BY <1>8, <2>1
    <2> QED  BY <1>6, <1>7, <1>12, <2>1, <2>2, <2>3
  <1>15. ASSUME NEW d \in retained PROVE Decisions'[d.scope] = Decisions[d.scope]
    <2>1. d.ref \in 1..Len(published)  BY <1>3 DEF RecordsOK
    <2>2. JudgmentOf(d)' = JudgmentOf(d)  BY <1>6, <2>1 DEF JudgmentOf
    <2>3. Decisions[d.scope] = JudgmentOf(d)  BY <1>3, ChoicesValue
    <2>4. d \in ChosenBy(current)'  BY <1>8
    <2> QED  BY <1>12, <2>2, <2>3, <2>4
  <1>16. Asked' = [mode |-> mode, new |-> new]  BY <1>6, <1>7 DEF Asked
  <1> QED  BY <1>11, <1>13, <1>14, <1>15, <1>16

(* The publications stay in order while nobody publishes. *)
LEMMA RecordsStay == ASSUME RecordsOK, UNCHANGED <<published, current>> PROVE RecordsOK'
  <1>1. UNCHANGED ChosenBy(current)
    <2>1. ChosenBy(current) = ChosenIn(published, current)  BY DEF ChosenBy, ChosenIn
    <2>2. ChosenBy(current)' = ChosenIn(published', current')  BY DEF ChosenBy, ChosenIn
    <2> QED  BY <2>1, <2>2
  <1> QED  BY <1>1 DEF RecordsOK, Overlap
-----------------------------------------------------------------------------
(* What any step of the request itself keeps. *)
LEMMA OwnStep ==
  ASSUME ContextInv, Active, UNCHANGED <<records, epoch>>, input' \in Nat, Watch, SameRequest, DOMAIN req' = Fields
  PROVE  RecordsOK' /\ TimesOK' /\ RequestFields' /\ GhostsOK'
  <1>1. RecordsOK'  BY RecordsStay DEF ContextInv, records
  <1>2. TimesOK'  BY DEF ContextInv, TimesOK, SameRequest, records
  <1>3. RequestFields'  BY DEF RequestFields
  <1>4. GhostsOK'  BY Watched DEF GhostsOK
  <1> QED  BY <1>1, <1>2, <1>3, <1>4

(* Before its reads a request changes nothing. *)
LEMMA EarlyStep ==
  ASSUME ContextInv, DeadlinePasses \/ EndWait \/ RowSeen \/ PrepareRequest
  PROVE  ContextInv'
  <1>1. /\ Active /\ UNCHANGED <<records, epoch>> /\ input' \in Nat /\ Watch
        /\ SameRequest /\ DOMAIN req' = Fields /\ req'.pc \in {"prepare", "wait", "inspect"}
    <2>1. input \in Nat /\ DOMAIN req = Fields  BY DEF ContextInv, TimesOK, RequestFields
    <2>2. CASE DeadlinePasses
      BY <2>1, <2>2 DEF DeadlinePasses, Step, Advance, Active, Doing, SameRequest, Fields, session
    <2>3. CASE EndWait
      BY <2>1, <2>3 DEF EndWait, Go, Step, Advance, Active, Doing, SameRequest, Fields, session
    <2>4. CASE RowSeen
      BY <2>1, <2>4 DEF RowSeen, Go, Step, Advance, Active, Doing, SameRequest, Fields, session
    <2>5. CASE PrepareRequest
      BY <2>1, <2>5 DEF PrepareRequest, Confirm, Advance, Active, Doing, SameRequest, Fields, session
    <2> QED  BY <2>2, <2>3, <2>4, <2>5
  <1>2. RecordsOK' /\ TimesOK' /\ RequestFields' /\ GhostsOK'  BY <1>1, OwnStep
  <1>3. ViewOK' /\ HeldOK' /\ ScopesOK' /\ KeepProtects' /\ ChangedAsJudged'
    BY <1>1 DEF ViewOK, HeldOK, ScopesOK, KeepProtects, ChangedAsJudged, Doing
  <1> QED  BY <1>2, <1>3 DEF ContextInv, ReadsOK

(* A request that goes out as it came. *)
LEMMA UnchangedStep ==
  ASSUME ContextInv, StorageFails \/ PrefixSigned
  PROVE  ContextInv'
  <1>1. /\ Active /\ UNCHANGED <<records, epoch>> /\ input' \in Nat /\ Watch
        /\ SameRequest /\ DOMAIN req' = Fields /\ req'.pc = "send" /\ req'.scopes = {} /\ req'.uses = {}
    <2>1. input \in Nat /\ DOMAIN req = Fields  BY DEF ContextInv, TimesOK, RequestFields
    <2> QED  BY <2>1 DEF StorageFails, PrefixSigned, Step, Advance, Active, Doing, SameRequest, Fields, session
  <1>2. RecordsOK' /\ TimesOK' /\ RequestFields' /\ GhostsOK'  BY <1>1, OwnStep
  <1>3. ViewOK' /\ HeldOK' /\ ScopesOK' /\ KeepProtects' /\ ChangedAsJudged'
    BY <1>1 DEF ViewOK, HeldOK, ScopesOK, KeepProtects, ChangedAsJudged, Doing
  <1> QED  BY <1>2, <1>3 DEF ContextInv, ReadsOK

(* The reads: what is about to be changed stays what it was judged to be.    *)
LEMMA ReadStep ==
  ASSUME ContextInv, InspectChoices \/ InspectUses \/ ChangeChoices \/ ChangeUses
  PROVE  /\ RecordsOK' /\ TimesOK' /\ RequestFields' /\ GhostsOK'
         /\ UNCHANGED <<records, epoch, input, staged>> /\ SameRequest /\ Watch /\ Active
         /\ Ready' <=> Ready
         /\ UNCHANGED <<InForce, Authentic, Decisions, KeptNow>>
         /\ \A u : Keeps(u)' <=> Keeps(u)
         /\ \A x : Free(x)' <=> Free(x)
         /\ (~moved' => ~moved)
  <1>1. /\ Active /\ UNCHANGED <<records, epoch, input, staged>> /\ input' \in Nat /\ Watch
        /\ SameRequest /\ DOMAIN req' = Fields
    <2>1. input \in Nat /\ DOMAIN req = Fields  BY DEF ContextInv, TimesOK, RequestFields
    <2>2. CASE InspectChoices
      <3>1. Active /\ UNCHANGED <<records, epoch, input, staged>> /\ Watch
        BY <2>2 DEF InspectChoices, Go, Step, Advance, Active, Doing, session
      <3>2. \/ req' = [req EXCEPT !.pc = "manual"]
            \/ \E v : req' = [req EXCEPT !.pc = "uses", !.view = v]
        BY <2>2 DEF InspectChoices, Go, Step, Advance
      <3> QED  BY <2>1, <3>1, <3>2 DEF SameRequest, Fields
    <2>3. CASE InspectUses
      <3>1. Active /\ UNCHANGED <<records, epoch, input, staged>> /\ Watch
        BY <2>3 DEF InspectUses, Step, Advance, Active, Doing, session
      <3>2. \E h, k : req' = [req EXCEPT !.pc = "manual", !.view = {}, !.heldUses = h, !.heldScopes = k]
        BY <2>3 DEF InspectUses, Step, Advance
      <3> QED  BY <2>1, <3>1, <3>2 DEF SameRequest, Fields
    <2>4. CASE ChangeChoices
      BY <2>1, <2>4 DEF ChangeChoices, Step, Advance, Active, Doing, SameRequest, Fields, session
    <2>5. CASE ChangeUses
      BY <2>1, <2>5 DEF ChangeUses, Step, Advance, Active, Doing, SameRequest, Fields, session
    <2> QED  BY <2>2, <2>3, <2>4, <2>5
  <1>2. RecordsOK' /\ TimesOK' /\ RequestFields' /\ GhostsOK'  BY <1>1, OwnStep
  <1>3. (Ready' <=> Ready) /\ UNCHANGED <<InForce, Authentic>>  BY <1>1, SameReads
  <1>4. /\ UNCHANGED <<Decisions, KeptNow>>
        /\ \A u : Keeps(u)' <=> Keeps(u)
        /\ \A x : Free(x)' <=> Free(x)
    BY <1>1, SameRecords
  <1>5. ~moved' => ~moved  BY <1>1, Watched
  <1> QED  BY <1>1, <1>2, <1>3, <1>4, <1>5
(* The first reads take down what they find, and each conflict in it.        *)
LEMMA InspectChoicesStep ==
  ASSUME ContextInv, InspectChoices
  PROVE  ContextInv'
  <1>1. DOMAIN req = Fields  BY DEF ContextInv, RequestFields
  <1>2. CASE req' = [req EXCEPT !.pc = "manual"] /\ (InForce = {} \/ \A u \in Use : judged[u] = NoUse)
    <2>1. req'.pc = "manual"  BY <1>1, <1>2 DEF Fields
    <2>2. InForce = {} \/ Authentic = {}  BY <1>2 DEF Authentic, NoUse
    <2>3. UsesHeld' /\ ScopesHeld'  BY <2>2, ReadStep DEF UsesHeld, ScopesHeld
    <2>4. ViewOK' /\ HeldOK' /\ ScopesOK' /\ KeepProtects' /\ ChangedAsJudged'
      BY <2>1, <2>3 DEF ViewOK, HeldOK, ScopesOK, KeepProtects, ChangedAsJudged, Doing
    <2> QED  BY <2>4, ReadStep DEF ContextInv, ReadsOK
  <1>3. CASE req' = [req EXCEPT !.pc = "uses", !.view = {<<s, Decisions[s]>> : s \in InForce}]
    <2>1. req'.pc = "uses" /\ req'.view = {<<s, Decisions[s]>> : s \in InForce}
      BY <1>1, <1>3 DEF Fields
    <2>2. {<<s, Decisions[s]>> : s \in InForce} = {<<s, Decisions'[s]>> : s \in InForce'}  BY ReadStep
    <2>3. ViewOK' /\ HeldOK' /\ ScopesOK' /\ KeepProtects' /\ ChangedAsJudged'
      BY <2>1, <2>2 DEF ViewOK, HeldOK, ScopesOK, KeepProtects, ChangedAsJudged, Doing
    <2> QED  BY <2>3, ReadStep DEF ContextInv, ReadsOK
  <1> QED  BY <1>2, <1>3 DEF InspectChoices, Go, Step, Advance

(* Of each conflict the side that would change a kept part is held back.     *)
LEMMA InspectUsesStep ==
  ASSUME ContextInv, InspectUses
  PROVE  ContextInv'
  <1> DEFINE Conflict(c, u) == Overlap(c[1], At(u)) /\ u \in Authentic
  <1>1. /\ req'.pc = "manual"
        /\ req'.heldUses = {u \in Use : ~Keeps(u) /\ \E c \in req.view : c[2] = "keep" /\ Conflict(c, u)}
        /\ req'.heldScopes = {c[1] : c \in {c \in req.view : c[2] # "keep"
                                                /\ \E u \in Use : Keeps(u) /\ Conflict(c, u)}}
    <2>1. DOMAIN req = Fields  BY DEF ContextInv, RequestFields
    <2>2. ASSUME NEW h, NEW k, req' = [req EXCEPT !.pc = "manual", !.view = {}, !.heldUses = h, !.heldScopes = k]
          PROVE  req'.pc = "manual" /\ req'.heldUses = h /\ req'.heldScopes = k
      BY <2>1, <2>2 DEF Fields
    <2> QED  BY <2>2 DEF InspectUses, Step, Advance
  <1>2. ASSUME ~moved', Ready'
        PROVE  UsesHeld' /\ ScopesHeld'
    <2>1. req.view = {<<s, Decisions[s]>> : s \in InForce}
      BY <1>2, ReadStep DEF ContextInv, ReadsOK, ViewOK, InspectUses
    <2>2. ASSUME NEW u \in Authentic, NEW s \in InForce, Overlap(s, At(u))
          PROVE  /\ Decisions[s] = "keep" /\ ~Keeps(u) => u \in req'.heldUses
                 /\ Decisions[s] # "keep" /\ Keeps(u) => s \in req'.heldScopes
      <3> DEFINE c == <<s, Decisions[s]>>
      <3>1. c \in req.view /\ c[1] = s /\ c[2] = Decisions[s]  BY <2>1
      <3>2. u \in Use  BY DEF Authentic
      <3>3. Conflict(c, u)  BY <2>2, <3>1
      <3> HIDE DEF c, Conflict
      <3> QED  BY <1>1, <3>1, <3>2, <3>3
    <2> QED  BY <2>2, ReadStep DEF UsesHeld, ScopesHeld, At
  <1>3. ViewOK' /\ HeldOK' /\ ScopesOK' /\ KeepProtects' /\ ChangedAsJudged'
    BY <1>1, <1>2 DEF ViewOK, HeldOK, ScopesOK, KeepProtects, ChangedAsJudged, Doing
  <1> QED  BY <1>3, ReadStep DEF ContextInv, ReadsOK

(* The parts to be changed are allowed now, and no use keeps one of them: a  *)
(* use that did was seen by the first reads, and its part was held back.     *)
LEMMA ChangeChoicesStep ==
  ASSUME ContextInv, ChangeChoices
  PROVE  ContextInv'
  <1>1. req'.pc = "apply" /\ req'.scopes = Changeable \ req.heldScopes /\ req'.heldUses = req.heldUses
    <2>1. DOMAIN req = Fields  BY DEF ContextInv, RequestFields
    <2> QED  BY <2>1 DEF ChangeChoices, Step, Advance, Fields
  <1>2. ASSUME NEW s \in req'.scopes PROVE s \in allowed'
    <2>1. s \in InForce /\ Decisions[s] # "keep" /\ Ready /\ Usable /\ s \in DOMAIN Decisions
      BY <1>1 DEF Changeable, InForce
    <2>2. s \in AllowedNow  BY <2>1 DEF AllowedNow, Ready, Answers
    <2>3. AllowedNow \subseteq allowed /\ allowed \subseteq allowed'
      BY ReadStep, Watched DEF ContextInv, ReadsOK, GhostsOK
    <2> QED  BY <2>2, <2>3
  <1>3. ASSUME ~moved', NEW s \in req'.scopes PROVE Free(s)
    <2>1. s \in InForce /\ Decisions[s] # "keep" /\ Ready /\ OnWire(s) /\ s \in DOMAIN Decisions
      BY <1>1 DEF Changeable, InForce
    <2>2. ScopesHeld
      BY <1>3, <2>1, ReadStep DEF ContextInv, ReadsOK, HeldOK, ChangeChoices, Doing
    <2>3. ASSUME NEW u \in Use, Keeps(u), judged[u].epoch = epoch, Overlap(s, At(u)) PROVE FALSE
      <3>1. OnWire(At(u))  BY <2>1, <2>3 DEF OnWire, Overlap
      <3>2. u \in Authentic  BY <2>1, <2>3, <3>1 DEF Authentic, Keeps
      <3>3. s \in req.heldScopes  BY <2>1, <2>2, <2>3, <3>2 DEF ScopesHeld
      <3> QED  BY <1>1, <3>3
    <2> QED  BY <2>1, <2>3 DEF Free
  <1>4. HeldOK'
    <2> SUFFICES ASSUME ~moved', Ready' PROVE UsesHeld'
      BY <1>1 DEF HeldOK, Doing
    <2>1. UsesHeld  BY ReadStep DEF ContextInv, ReadsOK, HeldOK, ChangeChoices, Doing
    <2> QED  BY <1>1, <2>1, ReadStep DEF UsesHeld, At
  <1>5. ScopesOK'  BY <1>1, <1>2, <1>3, ReadStep DEF ScopesOK
  <1>6. ViewOK' /\ KeepProtects' /\ ChangedAsJudged'
    BY <1>1 DEF ViewOK, KeepProtects, ChangedAsJudged, Doing
  <1> QED  BY <1>4, <1>5, <1>6, ReadStep DEF ContextInv, ReadsOK

(* A use that is going to be changed is allowed now, and no choice keeps its *)
(* part: one that did was seen by the first reads, and the use held back.    *)
LEMMA ChangeUsesStep ==
  ASSUME ContextAssumption, ContextInv, ChangeUses
  PROVE  ContextInv'
  <1>1. /\ req'.pc = "send" /\ req'.scopes = req.scopes
        /\ req'.uses = {u \in Authentic \ req.heldUses : ~Keeps(u) /\ \A s \in req.scopes : ~Overlap(s, At(u))}
    <2>1. DOMAIN req = Fields  BY DEF ContextInv, RequestFields
    <2> QED  BY <2>1 DEF ChangeUses, Step, Advance, Fields
  <1>2. ASSUME NEW u \in req'.uses
        PROVE  /\ u \in Use /\ u \in Authentic /\ Ready /\ OnWire(At(u)) /\ ~Keeps(u) /\ u \notin req.heldUses
               /\ judged[u].judgment # "none" /\ judged[u].epoch = epoch
               /\ \A s \in req.scopes : ~Overlap(s, At(u))
    BY <1>1 DEF Authentic
  <1>3. ChangedAsJudged'
    <2>1. req.scopes \subseteq allowed'
      BY ReadStep, Watched DEF ContextInv, ReadsOK, ScopesOK, ChangeUses
    <2>2. ASSUME NEW u \in req'.uses PROVE u \in allowed'
      <3>1. u \in AllowedNow  BY <1>2 DEF AllowedNow, Ready, Answers, Keeps
      <3>2. AllowedNow \subseteq allowed /\ allowed \subseteq allowed'
        BY ReadStep, Watched DEF ContextInv, ReadsOK, GhostsOK
      <3> QED  BY <3>1, <3>2
    <2> QED  BY <1>1, <1>2, <2>1, <2>2 DEF ChangedAsJudged, At
  <1>4. ASSUME ~moved', NEW b \in kept'
        PROVE  /\ \A s \in req.scopes : ~Overlap(s, b)
               /\ \A u \in req'.uses : At(u) # b
    <2>1. ~moved /\ \A s \in req.scopes : Free(s)
      BY <1>4, ReadStep DEF ContextInv, ReadsOK, ScopesOK, ChangeUses
    <2>2. b \in KeptNow  BY ReadStep, Watched
    <2>3. b \in Block  BY <2>2 DEF KeptNow
    <2>4. CASE \E u \in Use : At(u) = b /\ Keeps(u) /\ judged[u].epoch = epoch
      <3>1. PICK v \in Use : At(v) = b /\ Keeps(v) /\ judged[v].epoch = epoch  BY <2>4
      <3>2. \A s \in req.scopes : ~Overlap(s, b)  BY <2>1, <3>1 DEF Free
      <3>3. \A u \in req'.uses : At(u) # b  BY <1>2, <3>1, OneUse
      <3> QED  BY <3>2, <3>3
    <2>5. CASE Usable /\ \E s \in DOMAIN Decisions : Overlap(s, b) /\ Decisions[s] = "keep"
      <3>1. PICK t \in DOMAIN Decisions : Overlap(t, b) /\ Decisions[t] = "keep"  BY <2>5
      <3>2. ASSUME NEW s \in req.scopes, Overlap(s, b) PROVE FALSE
        <4>1. s \in DOMAIN Decisions /\ Decisions[s] # "keep"  BY <2>1 DEF Free
        <4>2. s = t  BY <2>3, <3>1, <3>2, <4>1, OneOnBlock DEF ContextInv
        <4> QED  BY <3>1, <4>1, <4>2
      <3>3. ASSUME NEW u \in req'.uses, At(u) = b PROVE FALSE
        <4>1. OnWire(t)  BY <1>2, <3>1, <3>3 DEF OnWire, Overlap
        <4>2. t \in InForce  BY <1>2, <2>5, <3>1, <4>1 DEF InForce
        <4>3. UsesHeld  BY <1>2, <2>1 DEF ContextInv, ReadsOK, HeldOK, ChangeUses, Doing
        <4> QED  BY <1>2, <3>1, <3>3, <4>2, <4>3 DEF UsesHeld
      <3> QED  BY <3>2, <3>3
    <2> QED  BY <2>2, <2>4, <2>5 DEF KeptNow
  <1>5. KeepProtects'  BY <1>1, <1>4 DEF KeepProtects, At, Overlap
  <1>6. ViewOK' /\ HeldOK' /\ ScopesOK'  BY <1>1 DEF ViewOK, HeldOK, ScopesOK, Doing
  <1> QED  BY <1>3, <1>5, <1>6, ReadStep DEF ContextInv, ReadsOK
(* A request begins with what is kept and allowed then. *)
LEMMA StartRequestStep ==
  ASSUME ContextInv, NEW W \in SUBSET Record, StartRequest(W)
  PROVE  ContextInv'
  <1>1. /\ DOMAIN req' = Fields /\ req'.pc \in {"prepare", "inspect"} /\ req'.epoch = epoch
    BY DEF StartRequest, NoRequest, Fields
  <1>2. UNCHANGED <<input, epoch, records>> /\ kept' = KeptNow' /\ allowed' = AllowedNow' /\ moved' = FALSE
    BY DEF StartRequest, session
  <1>3. RecordsOK'  BY <1>2, RecordsStay DEF ContextInv, records
  <1>4. TimesOK'  BY <1>1, <1>2 DEF ContextInv, TimesOK, records
  <1>5. RequestFields' /\ GhostsOK'  BY <1>1, <1>2 DEF RequestFields, GhostsOK
  <1>6. ViewOK' /\ HeldOK' /\ ScopesOK' /\ KeepProtects' /\ ChangedAsJudged'
    BY <1>1 DEF ViewOK, HeldOK, ScopesOK, KeepProtects, ChangedAsJudged, Doing
  <1> QED  BY <1>3, <1>4, <1>5, <1>6 DEF ContextInv, ReadsOK

(* It leaves nothing behind. *)
LEMMA SendStep ==
  ASSUME ContextInv, Send
  PROVE  ContextInv'
  <1>1. /\ DOMAIN req' = Fields /\ req'.pc = "idle" /\ req'.epoch = 0
    BY DEF Send, NoRequest, Fields
  <1>2. UNCHANGED <<input, epoch, records>> /\ moved' = FALSE  BY DEF Send, session
  <1>3. RecordsOK'  BY <1>2, RecordsStay DEF ContextInv, records
  <1>4. TimesOK'  BY <1>1, <1>2 DEF ContextInv, TimesOK, records
  <1>5. RequestFields' /\ GhostsOK'  BY <1>1, <1>2 DEF RequestFields, GhostsOK, Active, Doing
  <1>6. ViewOK' /\ HeldOK' /\ ScopesOK' /\ KeepProtects' /\ ChangedAsJudged'
    BY <1>1 DEF ViewOK, HeldOK, ScopesOK, KeepProtects, ChangedAsJudged, Doing
  <1> QED  BY <1>3, <1>4, <1>5, <1>6 DEF ContextInv, ReadsOK

(* Prompts, calls, rewrites of the transcript and recorded lookups.          *)
LEMMA HostStep ==
  ASSUME ContextInv,
         \/ StageInput \/ AppendRow \/ HookConfirms \/ Rewrite
         \/ \E r \in Record : CallProceeds(r)
         \/ \E u \in Use, r \in Record : RecordUse(u, r)
  PROVE  ContextInv'
  <1>1. /\ UNCHANGED <<req, published, current, judged>> /\ Watch /\ Progress /\ input' \in Nat
    <2>1. input \in Nat /\ epoch \in Nat  BY DEF ContextInv, TimesOK
    <2>2. CASE StageInput  BY <2>1, <2>2 DEF StageInput, Event, Progress, records
    <2>3. CASE AppendRow  BY <2>1, <2>3 DEF AppendRow, Progress, records
    <2>4. CASE HookConfirms  BY <2>1, <2>4 DEF HookConfirms, Confirm, Progress, records
    <2>5. CASE Rewrite  BY <2>1, <2>5 DEF Rewrite, Event, Progress, records, session
    <2>6. CASE \E r \in Record : CallProceeds(r)
      BY <2>1, <2>6 DEF CallProceeds, Progress, records, session
    <2>7. CASE \E u \in Use, r \in Record : RecordUse(u, r)
      BY <2>1, <2>7 DEF RecordUse, Progress, session
    <2> QED  BY <2>2, <2>3, <2>4, <2>5, <2>6, <2>7
  <1>2. RecordsOK'  BY <1>1, RecordsStay DEF ContextInv
  <1>3. TimesOK'  BY <1>1 DEF ContextInv, TimesOK, Progress
  <1>4. RequestFields'  BY <1>1 DEF ContextInv, RequestFields
  <1>5. ReadsOK'  BY <1>1, Beside
  <1> QED  BY <1>2, <1>3, <1>4, <1>5 DEF ContextInv

(* A judgment of a use is one of the transcript as it is. *)
LEMMA JudgeUseStep ==
  ASSUME ContextInv, NEW u \in Use, NEW j \in Judgments, JudgeUse(u, j)
  PROVE  ContextInv'
  <1>1. /\ UNCHANGED <<req, published, current, epoch, input>> /\ Watch /\ Progress
        /\ judged' = [judged EXCEPT ![u] = [judgment |-> j, epoch |-> epoch]]
    BY DEF JudgeUse, Event, Progress, session, ContextInv, TimesOK
  <1>2. RecordsOK'  BY <1>1, RecordsStay DEF ContextInv
  <1>3. TimesOK'  BY <1>1 DEF ContextInv, TimesOK
  <1>4. RequestFields'  BY <1>1 DEF ContextInv, RequestFields
  <1>5. ReadsOK'  BY <1>1, Beside
  <1> QED  BY <1>2, <1>3, <1>4, <1>5 DEF ContextInv

(* A publication is whole and retains nothing, or updates and retains what   *)
(* it does not touch.                                                        *)
LEMMA PublishIs ==
  ASSUME NEW new \in New, PublishCodex(new) \/ PublishClaude(new)
  PROVE  \/ Publish("whole", new, {})
         \/ ~Splits(new) /\ Publish("update", new, Retained(new))
  BY DEF PublishCodex, PublishClaude

(* Publications leave the request alone. *)
LEMMA PublishStep ==
  ASSUME ContextInv, NEW new \in New, PublishCodex(new) \/ PublishClaude(new)
  PROVE  ContextInv'
  <1>1. PICK mode \in {"whole", "update"}, retained \in SUBSET Retained(new) : Publish(mode, new, retained)
    BY PublishIs
  <1>2. RecordsOK'  BY <1>1, Published DEF ContextInv, TimesOK
  <1>3. UNCHANGED <<req, judged, epoch, input>> /\ Watch /\ Progress
    BY <1>1 DEF Publish, Event, Progress, session, ContextInv, TimesOK
  <1>4. TimesOK'  BY <1>3 DEF ContextInv, TimesOK
  <1>5. RequestFields'  BY <1>3 DEF ContextInv, RequestFields
  <1>6. ReadsOK'  BY <1>3, Beside
  <1> QED  BY <1>2, <1>4, <1>5, <1>6 DEF ContextInv

(* The invariant does not mention the rest of the state. *)
LEMMA StutterStep == ASSUME ContextInv, UNCHANGED vars PROVE ContextInv'
  <1>1. UNCHANGED <<records, epoch, input, staged, req, kept, allowed, moved>>
    BY DEF vars, session, ghosts
  <1>2. UNCHANGED <<KeptNow, AllowedNow>>  BY <1>1, SameRecords, SameReads DEF SameRequest
  <1>3. Watch
    <2>1. Active => kept = kept \cap KeptNow /\ allowed = allowed \cup AllowedNow
      BY DEF ContextInv, ReadsOK, GhostsOK
    <2>2. moved' = IF Reading THEN moved \/ <<input, records>>' # <<input, records>> ELSE moved
      <3>1. moved \in BOOLEAN /\ moved' = moved  BY <1>1 DEF ContextInv, ReadsOK, GhostsOK
      <3>2. (<<input, records>>' # <<input, records>>) = FALSE  BY <1>1
      <3>3. (moved \/ FALSE) = moved  BY <3>1
      <3> QED  BY <3>1, <3>2, <3>3, Zenon
    <2> QED  BY <1>1, <1>2, <2>1, <2>2 DEF Watch
  <1>4. Progress  BY <1>1 DEF Progress, ContextInv, TimesOK
  <1>5. RecordsOK'  BY <1>1, RecordsStay DEF ContextInv, records
  <1>6. TimesOK' /\ RequestFields'  BY <1>1 DEF ContextInv, TimesOK, RequestFields, records
  <1>7. ReadsOK'  BY <1>1, <1>3, <1>4, Beside
  <1> QED  BY <1>5, <1>6, <1>7 DEF ContextInv

(* It holds at first. *)
LEMMA ContextInit == ASSUME ContextAssumption, Init PROVE ContextInv
  <1>1. RecordsOK  BY DEF Init, RecordsOK, ChosenBy
  <1>2. TimesOK  BY DEF Init, TimesOK, NoUse, NoRequest
  <1>3. RequestFields  BY DEF Init, RequestFields, NoRequest, Fields
  <1>4. req.pc = "idle" /\ moved = FALSE  BY DEF Init, NoRequest
  <1>5. ReadsOK
    BY <1>4 DEF ReadsOK, GhostsOK, ViewOK, HeldOK, ScopesOK, KeepProtects, ChangedAsJudged, Active, Doing
  <1> QED  BY <1>1, <1>2, <1>3, <1>5 DEF ContextInv

(* Every step keeps it. *)
LEMMA ContextNext == ASSUME ContextAssumption, ContextInv, [Next]_vars PROVE ContextInv'
  <1>1. CASE UNCHANGED vars  BY <1>1, StutterStep
  <1>2. CASE Gateway
    BY <1>2, EarlyStep, InspectChoicesStep, InspectUsesStep, ChangeChoicesStep, ChangeUsesStep, SendStep
    DEF Gateway
  <1>3. CASE DeadlinePasses \/ StorageFails \/ PrefixSigned  BY <1>3, EarlyStep, UnchangedStep
  <1>4. CASE \E W \in SUBSET Record : StartRequest(W)  BY <1>4, StartRequestStep
  <1>5. CASE \/ StageInput \/ AppendRow \/ HookConfirms \/ Rewrite
             \/ \E r \in Record : CallProceeds(r)
             \/ \E u \in Use, r \in Record : RecordUse(u, r)
    BY <1>5, HostStep
  <1>6. CASE \E new \in New : PublishCodex(new) \/ PublishClaude(new)  BY <1>6, PublishStep
  <1>7. CASE \E u \in Use, j \in Judgments : JudgeUse(u, j)  BY <1>7, JudgeUseStep
  <1> QED  BY <1>1, <1>2, <1>3, <1>4, <1>5, <1>6, <1>7 DEF Next

(* What the reads of a request rely on holds throughout. *)
THEOREM ContextInvariant == Spec => []ContextInv
  <1>1. Init => ContextInv  BY ContextInit, ContextAssumption
  <1>2. ContextInv /\ [Next]_vars => ContextInv'  BY ContextNext, ContextAssumption
  <1> QED  BY <1>1, <1>2, PTL DEF Spec

(* What is judged to be kept is forwarded unchanged (select_request).        *)
THEOREM KeptIsForwarded == Spec => []KeepProtects
  <1>1. ContextInv => KeepProtects  BY DEF ContextInv, ReadsOK
  <1> QED  BY <1>1, ContextInvariant, PTL

(* No judgment reaches a request of another input or transcript, and no part *)
(* is changed twice (_select_manual_request, select_uses).                   *)
THEOREM ChangesAreJudged == Spec => []ChangedAsJudged
  <1>1. ContextInv => ChangedAsJudged  BY DEF ContextInv, ReadsOK
  <1> QED  BY <1>1, ContextInvariant, PTL
-----------------------------------------------------------------------------
(* Every publication is one of the abstract function from scopes to          *)
(* judgments: an update sets its own choices and leaves those it does not    *)
(* touch as they were.                                                       *)
LEMMA PublishRefines ==
  ASSUME ContextInv, NEW new \in New, PublishCodex(new) \/ PublishClaude(new)
  PROVE  Selection!Next
  <1>1. new \in Selection!Selection  BY DEF New, Selection!Selection
  <1>2. RecordsOK /\ epoch \in Nat  BY DEF ContextInv, TimesOK
  <1>3. /\ Decisions' = [s \in DOMAIN Decisions' |-> Decisions'[s]]
        /\ new = [s \in DOMAIN new |-> new[s]]
    BY DEF New, Decisions
  <1>4. CASE Publish("whole", new, {})
    <2>1. DOMAIN Decisions' = DOMAIN new /\ (\A s \in DOMAIN new : Decisions'[s] = new[s])
          /\ Asked' = [mode |-> "whole", new |-> new]
      <3>1. PICK none : none = {}  OBVIOUS
      <3>2. none \subseteq Retained(new) /\ Publish("whole", new, none) /\ "whole" \in {"whole", "update"}
        BY <1>4, <3>1
      <3>3. /\ DOMAIN Decisions' = {d.scope : d \in none} \cup DOMAIN new
            /\ \A s \in DOMAIN new : Decisions'[s] = new[s]
            /\ Asked' = [mode |-> "whole", new |-> new]
        BY <1>2, <3>2, Published
      <3>4. {d.scope : d \in none} = {}  BY <3>1
      <3> QED  BY <3>3, <3>4
    <2>2. Decisions' = new  BY <1>3, <2>1
    <2> QED  BY <1>1, <2>1, <2>2 DEF Selection!Next, Selection!Publish
  <1>5. CASE ~Splits(new) /\ Publish("update", new, Retained(new))
    <2> DEFINE kept0 == {s \in DOMAIN Decisions : ~Selection!Touched(new, s)}
               after == [s \in kept0 \cup DOMAIN new |-> IF s \in DOMAIN new THEN new[s] ELSE Decisions[s]]
    <2>1. /\ Asked' = [mode |-> "update", new |-> new]
          /\ DOMAIN Decisions' = {d.scope : d \in Retained(new)} \cup DOMAIN new
          /\ \A s \in DOMAIN new : Decisions'[s] = new[s]
          /\ \A d \in Retained(new) : Decisions'[d.scope] = Decisions[d.scope]
      <3>1. Retained(new) \subseteq Retained(new) /\ "update" \in {"whole", "update"}  OBVIOUS
      <3> QED  BY <1>2, <1>5, <3>1, Published
    <2>2. {d.scope : d \in Retained(new)} = kept0
      <3>1. \A s : Selection!Touched(new, s) <=> Touches(new, s)
        BY DEF Selection!Touched, Touches, Overlap
      <3>2. DOMAIN Decisions = {d.scope : d \in ChosenBy(current)}  BY <1>2, ChoicesValue
      <3> QED  BY <3>1, <3>2 DEF Retained
    <2>3. Decisions' = after
      <3>1. DOMAIN Decisions' = DOMAIN after  BY <2>1, <2>2
      <3>2. ASSUME NEW s \in DOMAIN after PROVE Decisions'[s] = after[s]
        <4>1. CASE s \in DOMAIN new  BY <2>1, <4>1
        <4>2. CASE s \notin DOMAIN new  BY <2>1, <2>2, <4>2
        <4> QED  BY <4>1, <4>2
      <3> HIDE DEF after
      <3>3. after = [s \in DOMAIN after |-> after[s]]  BY DEF after
      <3> QED  BY <1>3, <3>1, <3>2, <3>3
    <2>4. \A s \in DOMAIN Decisions : s[2] = 0 => ~Selection!Splits(new, s)
      <3>1. DOMAIN Decisions = {d.scope : d \in ChosenBy(current)}  BY <1>2, ChoicesValue
      <3> QED  BY <1>5, <3>1 DEF Splits, Selection!Splits
    <2>5. Selection!Update(new)  BY <2>1, <2>3, <2>4 DEF Selection!Update
    <2> QED  BY <1>1, <2>5 DEF Selection!Next
  <1> QED  BY <1>4, <1>5, PublishIs

(* Only a publication changes the publications. *)
LEMMA OtherwiseUnchanged ==
  ASSUME Next, ~\E new \in New : PublishCodex(new) \/ PublishClaude(new)
  PROVE  UNCHANGED <<published, current>>
  <1>1. CASE Gateway
    BY <1>1 DEF Gateway, PrepareRequest, EndWait, RowSeen, InspectChoices, InspectUses, ChangeChoices,
             ChangeUses, Send, Go, Step, Advance, records
  <1>2. CASE DeadlinePasses \/ StorageFails \/ PrefixSigned \/ \E W \in SUBSET Record : StartRequest(W)
    BY <1>2 DEF DeadlinePasses, StorageFails, PrefixSigned, StartRequest, Step, Advance, records
  <1>3. CASE \/ StageInput \/ AppendRow \/ HookConfirms \/ Rewrite
             \/ \E r \in Record : CallProceeds(r)
             \/ \E u \in Use, r \in Record : RecordUse(u, r)
             \/ \E u \in Use, j \in Judgments : JudgeUse(u, j)
    BY <1>3 DEF StageInput, AppendRow, HookConfirms, Rewrite, CallProceeds, RecordUse, JudgeUse, records
  <1> QED  BY <1>1, <1>2, <1>3 DEF Next

(* The publications and what they retain are one function from scopes to     *)
(* judgments (_codex_update_retained, _codex_decisions).                     *)
THEOREM PublicationsSelect == Spec => SelectionRefined
  <1>1. Init => Selection!Init
    <2> SUFFICES ASSUME Init PROVE Selection!Init  OBVIOUS
    <2>1. current = 0  BY DEF Init
    <2>2. ChosenBy(current) = {}  BY <2>1 DEF ChosenBy
    <2>3. Decisions = NoChoices  BY <2>2 DEF Decisions, NoChoices
    <2> QED  BY <2>1, <2>3 DEF Selection!Init, Asked, NoChoices
  <1>2. ContextInv /\ [Next]_vars => [Selection!Next]_<<Decisions, Asked>>
    <2> SUFFICES ASSUME ContextInv, [Next]_vars PROVE [Selection!Next]_<<Decisions, Asked>>  OBVIOUS
    <2>1. CASE \E new \in New : PublishCodex(new) \/ PublishClaude(new)  BY <2>1, PublishRefines
    <2>2. ASSUME UNCHANGED <<published, current>> PROVE UNCHANGED <<Decisions, Asked>>
      BY <2>2, ChoicesStay DEF Asked
    <2>3. UNCHANGED vars => UNCHANGED <<published, current>>  BY DEF vars, records
    <2> QED  BY <2>1, <2>2, <2>3, OtherwiseUnchanged
  <1> QED  BY <1>1, <1>2, ContextInvariant, PTL DEF Spec, SelectionRefined, Selection!Spec

-----------------------------------------------------------------------------
(* A Claude request whose earlier turns are signed leaves with a policy for *)
(* the server instead (PrefixSigned, ServerClearing). Whatever its calls    *)
(* and judgments, the policy of a request is the plan of its conversation   *)
(* (ServerInv), and what each of the three plans clears was judged away.    *)

(* The conversation has the type it should have. *)
Conversation ==
  /\ requestCalls \in Seq([tool : Name, judgment : Judgment]) /\ Len(requestCalls) <= MaxCalls
  /\ open \in BOOLEAN /\ carrier \in 0..MaxCalls /\ verified \in BOOLEAN

(* A policy is the plan of the request it was given for: any change of the *)
(* conversation comes with a new request.                                  *)
ServerInv == Conversation /\ (plan = NoPlan \/ plan = Plan)

(* Membership that does not hold is the value FALSE. *)
LEMMA NotAMember == ASSUME NEW e, NEW S, e \notin S PROVE (e \in S) = FALSE
  OBVIOUS

(* The sequence without calls. *)
LEMMA EmptySequence == ASSUME NEW D PROVE <<>> \in Seq(D) /\ Len(<<>>) = 0
  OBVIOUS

(* A set of numbers that is not empty has a least element. *)
LEMMA MinIsLeast ==
  ASSUME NEW S, S \subseteq Nat, S # {}
  PROVE  Min(S) \in S /\ \A y \in S : Min(S) <= y
  <1> DEFINE R == OpToRel(<, Nat)
  <1>1. \A i, j \in Nat : <<i, j>> \in R <=> i < j  BY DEF OpToRel
  <1>2. IsWellFoundedOn(R, Nat)  BY NatLessThanWellFounded
  <1> HIDE DEF R
  <1>3. PICK x \in S : \A y \in S : <<y, x>> \notin R  BY <1>2, WFMin
  <1>4. \A y \in S : x <= y
    <2> TAKE y \in S
    <2>1. x \in Nat /\ y \in Nat  OBVIOUS
    <2>2. ~(y < x)  BY <1>1, <1>3, <2>1
    <2> QED  BY <2>1, <2>2
  <1> QED  BY <1>3, <1>4 DEF Min

(* The calls are numbered and finitely many. *)
LEMMA CallFacts ==
  ASSUME Conversation
  PROVE  /\ Len(requestCalls) \in Nat /\ Call = 1..Len(requestCalls)
         /\ Answered \subseteq Call /\ Omitted \subseteq Answered
  <1>1. Len(requestCalls) \in Nat /\ Call = 1..Len(requestCalls)  BY DEF Conversation, Call
  <1>2. Answered \subseteq Call  BY DEF Answered
  <1>3. Omitted \subseteq Answered  BY DEF Omitted, Replaced
  <1> QED  BY <1>1, <1>2, <1>3

(* The calls after one of them. *)
LEMMA LaterCalls ==
  ASSUME Conversation, NEW i \in Call, NEW S, S \subseteq Call
  PROVE  /\ i \in 1..Len(requestCalls)
         /\ Cardinality({j \in Call : j > i}) = Len(requestCalls) - i
         /\ Cardinality({j \in S : j > i}) \in Nat
         /\ Cardinality({j \in S : j > i}) <= Len(requestCalls) - i
  <1>1. Len(requestCalls) \in Nat /\ i \in 1..Len(requestCalls)  BY CallFacts
  <1>2. i \in Int /\ i + 1 \in Int /\ Len(requestCalls) \in Int  BY <1>1
  <1>3. {j \in Call : j > i} = (i + 1)..Len(requestCalls)
    <2>1. Call = 1..Len(requestCalls)  BY CallFacts
    <2> QED  BY <1>1, <2>1
  <1>4. /\ IsFiniteSet((i + 1)..Len(requestCalls))
        /\ Cardinality((i + 1)..Len(requestCalls)) =
             IF i + 1 > Len(requestCalls) THEN 0 ELSE Len(requestCalls) - (i + 1) + 1
    BY <1>2, FS_Interval
  <1>5. Cardinality((i + 1)..Len(requestCalls)) = Len(requestCalls) - i  BY <1>1, <1>4
  <1>6. {j \in S : j > i} \subseteq (i + 1)..Len(requestCalls)  BY <1>3
  <1>7. IsFiniteSet({j \in S : j > i}) /\ Cardinality({j \in S : j > i}) <= Cardinality((i + 1)..Len(requestCalls))
    BY <1>4, <1>6, FS_Subset
  <1>8. Cardinality({j \in S : j > i}) \in Nat  BY <1>7, FS_CardinalityType
  <1> QED  BY <1>1, <1>3, <1>5, <1>7, <1>8

(* A policy for results that may all go, with one judgment of their        *)
(* arguments.                                                              *)
LEMMA PolicyFacts ==
  ASSUME NEW S, NEW keep, NEW exclude, plan = Policy(S, keep, exclude), plan # NoPlan
  PROVE  /\ plan.keep = keep
         /\ plan.exclude = exclude
         /\ \A i \in S : IF requestCalls[i].judgment = "omit all" THEN plan.inputs = TRUE ELSE plan.inputs = FALSE
  <1> DEFINE scopes == {requestCalls[i].judgment = "omit all" : i \in S}
             all == TRUE \in scopes
  <1>1. Cardinality(scopes) = 1  BY DEF Policy
  <1>2. plan = [keep |-> keep, exclude |-> exclude, inputs |-> all, reported |-> S]  BY DEF Policy
  <1>9. plan.keep = keep /\ plan.exclude = exclude /\ plan.inputs = all
    <2> HIDE DEF all
    <2> QED  BY <1>2
  <1>3. IsFiniteSet(scopes)
    <2>1. scopes \subseteq {TRUE, FALSE}
      <3> SUFFICES ASSUME NEW i \in S PROVE (requestCalls[i].judgment = "omit all") \in {TRUE, FALSE}  OBVIOUS
      <3> QED  BY Zenon
    <2>2. IsFiniteSet({TRUE}) /\ IsFiniteSet({TRUE} \cup {FALSE})  BY FS_Singleton, FS_AddElement
    <2>3. {TRUE, FALSE} = {TRUE} \cup {FALSE}  BY Zenon
    <2> HIDE DEF scopes
    <2> QED  BY <2>1, <2>2, <2>3, FS_Subset
  <1>4. PICK b : scopes = {b}
    <2> HIDE DEF scopes
    <2> QED  BY <1>1, <1>3, FS_Singleton
  <1>5. ~(TRUE \in scopes /\ FALSE \in scopes)
    <2> HIDE DEF scopes
    <2> QED  BY <1>4, Zenon
  <1>6. ASSUME NEW i \in S, requestCalls[i].judgment = "omit all" PROVE plan.inputs = TRUE
    <2>1. (requestCalls[i].judgment = "omit all") = TRUE  BY <1>6, Zenon
    <2>2. TRUE \in scopes  BY <2>1, Zenon
    <2>3. all = TRUE  BY <2>2, Zenon
    <2> HIDE DEF all
    <2> QED  BY <1>9, <2>3
  <1>7. ASSUME NEW i \in S, requestCalls[i].judgment # "omit all" PROVE plan.inputs = FALSE
    <2>1. (requestCalls[i].judgment = "omit all") = FALSE  BY <1>7, Zenon
    <2>2. FALSE \in scopes  BY <2>1, Zenon
    <2>3. all = FALSE
      <3> HIDE DEF scopes
      <3>1. ~(TRUE \in scopes)  BY <1>5, <2>2, Zenon
      <3>2. (TRUE \in scopes) = FALSE  BY <3>1, NotAMember
      <3> QED  BY <3>2
    <2> HIDE DEF all
    <2> QED  BY <1>9, <2>3
  <1> QED  BY <1>6, <1>7, <1>9

(* What is enough of a policy: what the server can clear is what it was    *)
(* asked for, and that may go.                                             *)
LEMMA ClearsWhatMayGo ==
  ASSUME Conversation, NEW S, S \subseteq Omitted, NEW keep, NEW exclude,
         plan = Policy(S, keep, exclude), plan # NoPlan,
         \A all \in BOOLEAN : Cleared(plan, all) \subseteq S
  PROVE  ClearsOnlyJudged
  <1> SUFFICES ASSUME NEW all \in BOOLEAN, NEW i \in Cleared(plan, all)
               PROVE  /\ requestCalls[i].judgment # "none"
                      /\ requestCalls[i].judgment = "replace" => Carried(i) /\ carrier \notin Cleared(plan, all)
                      /\ plan.inputs <=> requestCalls[i].judgment = "omit all"
    BY DEF ClearsOnlyJudged
  <1>1. i \in S /\ i \in Omitted  OBVIOUS
  <1>2. requestCalls[i].judgment # "none"  BY <1>1 DEF Omitted, Replaced
  <1>3. plan.inputs <=> requestCalls[i].judgment = "omit all"
    <2>1. IF requestCalls[i].judgment = "omit all" THEN plan.inputs = TRUE ELSE plan.inputs = FALSE
      BY <1>1, PolicyFacts
    <2>2. CASE requestCalls[i].judgment = "omit all"
      <3>1. plan.inputs = TRUE  BY <2>1, <2>2
      <3> QED  BY <2>2, <3>1, Zenon
    <2>3. CASE requestCalls[i].judgment # "omit all"
      <3>1. plan.inputs = FALSE  BY <2>1, <2>3
      <3> QED  BY <2>3, <3>1, Zenon
    <2> QED  BY <2>2, <2>3
  <1>4. ASSUME requestCalls[i].judgment = "replace"
        PROVE  Carried(i) /\ carrier \notin Cleared(plan, all)
    <2>1. i \in Replaced  BY <1>1, <1>4 DEF Omitted
    <2>2. carrier \notin Omitted  BY <2>1 DEF Omitted, Protected
    <2> QED  BY <2>1, <2>2 DEF Replaced
  <1> QED  BY <1>2, <1>3, <1>4

(* The tools of the first policy are judged away with each of their calls. *)
LEMMA WholeIsSafe ==
  ASSUME Conversation, Whole = Omitted, plan = Policy(Whole, 0, Others(Whole)), plan # NoPlan
  PROVE  ClearsOnlyJudged
  <1>1. plan.exclude = Others(Whole)  BY PolicyFacts
  <1>2. ASSUME NEW all \in BOOLEAN, NEW i \in Cleared(plan, all) PROVE i \in Whole
    <2>1. i \in Call /\ Tool(i) \notin Others(Whole)  BY <1>1, CallFacts DEF Cleared
    <2>2. Tool(i) \in Tools(Whole)  BY <2>1 DEF Others, Tools
    <2>3. PICK w \in Whole : Tool(w) = Tool(i)  BY <2>2 DEF Tools
    <2>4. Tool(w) \notin Tools(Call \ Omitted)  BY <2>3 DEF Whole
    <2>5. i \in Omitted  BY <2>1, <2>3, <2>4 DEF Tools
    <2> QED  BY <2>5
  <1> QED  BY <1>2, ClearsWhatMayGo

(* The calls selected at the start are as many as the last one's number. *)
LEMMA PrefixIsSafe ==
  ASSUME Conversation, plan = Policy(Prefix, Len(requestCalls) - Cardinality(Prefix), {}), plan # NoPlan
  PROVE  ClearsOnlyJudged
  <1>1. plan.exclude = {} /\ plan.keep = Len(requestCalls) - Cardinality(Prefix)  BY PolicyFacts
  <1>2. Prefix \subseteq Omitted /\ Prefix \subseteq Call
    BY CallFacts DEF Prefix
  <1>3. IsFiniteSet(Prefix) /\ Cardinality(Prefix) \in Nat
    <2>1. Call = 1..Len(requestCalls) /\ Len(requestCalls) \in Int /\ 1 \in Int  BY CallFacts
    <2>2. IsFiniteSet(1..Len(requestCalls))  BY <2>1, FS_Interval
    <2> QED  BY <1>2, <2>1, <2>2, FS_Subset, FS_CardinalityType
  <1>4. ASSUME NEW all \in BOOLEAN, NEW i \in Cleared(plan, all) PROVE i \in Prefix
    <2>1. i \in Call /\ i \in 1..Len(requestCalls)  BY CallFacts DEF Cleared
    <2>2. Counted(plan, all) = Call  BY <1>1 DEF Counted
    <2>3. Cardinality({j \in Call : j > i}) = Len(requestCalls) - i  BY <2>1, LaterCalls
    <2>4. i <= Cardinality(Prefix)
      <3>1. Len(requestCalls) - i >= Len(requestCalls) - Cardinality(Prefix)  BY <1>1, <2>2, <2>3 DEF Cleared
      <3> QED  BY <1>3, <2>1, <3>1, CallFacts
    <2>5. SUFFICES ASSUME i \notin Prefix PROVE FALSE  OBVIOUS
    <2>6. Prefix \subseteq 1..(i - 1)
      <3> SUFFICES ASSUME NEW j \in Prefix PROVE j \in 1..(i - 1)  OBVIOUS
      <3>1. j \in Nat /\ 1 <= j /\ \A k \in 1..j : k \in Omitted  BY <1>2, CallFacts DEF Prefix
      <3>2. ~(i <= j)
        <4> SUFFICES ASSUME i <= j PROVE FALSE  OBVIOUS
        <4>1. \A k \in 1..i : k \in Omitted  BY <2>1, <3>1
        <4> QED  BY <2>1, <2>5, <4>1 DEF Prefix
      <3> QED  BY <2>1, <3>1, <3>2
    <2>7. Cardinality(Prefix) <= i - 1
      <3>1. i - 1 \in Int /\ 1 \in Int /\ i \in Nat /\ 1 <= i  BY <2>1
      <3>2. IsFiniteSet(1..(i - 1)) /\ Cardinality(1..(i - 1)) = IF 1 > i - 1 THEN 0 ELSE (i - 1) - 1 + 1
        BY <3>1, FS_Interval
      <3>3. Cardinality(Prefix) <= Cardinality(1..(i - 1))  BY <2>6, <3>2, FS_Subset
      <3>4. Cardinality(1..(i - 1)) = i - 1  BY <3>1, <3>2
      <3> QED  BY <3>3, <3>4
    <2> QED  BY <1>3, <2>1, <2>4, <2>7
  <1> QED  BY <1>2, <1>4, ClearsWhatMayGo

(* The first call that must stay, if there is one, is kept by its number. *)
LEMMA CutoffFacts ==
  ASSUME Conversation
  PROVE  Cutoff \in 1..(Len(requestCalls) + 1) /\ \A i \in Stays : Cutoff <= i
  <1>1. Stays \subseteq 1..Len(requestCalls)  BY CallFacts DEF Stays
  <1>2. CASE Stays = {}  BY <1>2, CallFacts DEF Cutoff
  <1>3. CASE Stays # {}
    <2>1. Stays \subseteq Nat  BY <1>1
    <2>2. Cutoff = Min(Stays)  BY <1>3 DEF Cutoff
    <2>3. Cutoff \in Stays /\ \A i \in Stays : Cutoff <= i  BY <1>3, <2>1, <2>2, MinIsLeast
    <2> QED  BY <1>1, <2>3, CallFacts
  <1> QED  BY <1>2, <1>3

(* Of the tools it includes the last policy clears what comes before. *)
LEMMA BeforeIsSafe ==
  ASSUME Conversation, plan = Policy(Before, Suffix, Others(Before)), plan # NoPlan
  PROVE  ClearsOnlyJudged
  <1>1. plan.exclude = Others(Before) /\ plan.keep = Suffix  BY PolicyFacts
  <1>2. Before \subseteq Omitted  BY DEF Before
  <1>3. ASSUME NEW all \in BOOLEAN, NEW i \in Cleared(plan, all) PROVE i \in Before
    <2>1. i \in Call /\ i \in 1..Len(requestCalls) /\ Tool(i) \notin Others(Before)
      BY <1>1, CallFacts DEF Cleared
    <2>2. Tool(i) \in Tools(Before)  BY <2>1 DEF Others, Tools
    <2>3. Tool(i) \in Includable  BY <2>2 DEF Tools, Before
    <2>4. Cardinality({j \in Counted(plan, all) : j > i}) <= Len(requestCalls) - i
      <3>1. Counted(plan, all) \subseteq Call  BY DEF Counted
      <3> QED  BY <2>1, <3>1, LaterCalls
    <2>6. Cardinality({j \in Counted(plan, all) : j > i}) \in Nat
      <3>1. Counted(plan, all) \subseteq Call  BY DEF Counted
      <3> QED  BY <2>1, <3>1, LaterCalls
    <2>7. Cardinality({j \in Counted(plan, all) : j > i}) >= Len(requestCalls) - Cutoff + 1
      BY <1>1 DEF Cleared, Suffix
    <2>8. Cutoff \in Nat  BY CutoffFacts, CallFacts
    <2>9. i < Cutoff  BY <2>1, <2>4, <2>6, <2>7, <2>8, CallFacts
    <2>10. i \in Omitted
      <3> SUFFICES ASSUME i \notin Omitted PROVE FALSE  OBVIOUS
      <3>1. i \in Stays  BY <2>1, <2>3 DEF Stays
      <3> QED  BY <2>1, <2>8, <2>9, <3>1, CutoffFacts
    <2> QED  BY <2>3, <2>9, <2>10 DEF Before
  <1> QED  BY <1>2, <1>3, ClearsWhatMayGo

(* The plan of any conversation asks for nothing it may not ask for. *)
LEMMA PlanIsSafe == ServerInv => ClearsOnlyJudged
  <1> SUFFICES ASSUME Conversation, plan = Plan, plan # NoPlan PROVE ClearsOnlyJudged
    BY DEF ServerInv, ClearsOnlyJudged
  <1>1. CASE Whole = Omitted  BY <1>1, WholeIsSafe DEF Plan
  <1>2. CASE Whole # Omitted
    <2>1. plan = RecentPairs  BY <1>2 DEF Plan
    <2>2. ~(open \/ ~verified)  BY <2>1 DEF RecentPairs
    <2>3. CASE UseGlobal  BY <2>1, <2>2, <2>3, PrefixIsSafe DEF RecentPairs
    <2>4. CASE ~UseGlobal  BY <2>1, <2>2, <2>4, BeforeIsSafe DEF RecentPairs
    <2> QED  BY <2>3, <2>4
  <1> QED  BY <1>1, <1>2

(* A plan depends on nothing but the conversation. *)
LEMMA SamePlan ==
  ASSUME UNCHANGED <<requestCalls, open, carrier, verified>>
  PROVE  Plan' = Plan
  <1>1. Call' = Call  BY DEF Call
  <1>2. Answered' = Answered  BY <1>1 DEF Answered
  <1>3. Replaced' = Replaced  BY <1>2 DEF Replaced, Carried
  <1>4. Omitted' = Omitted  BY <1>2, <1>3 DEF Omitted, Protected
  <1>5. Whole' = Whole  BY <1>1, <1>4 DEF Whole, Tools, Tool
  <1>6. \A t : UNCHANGED {i \in Call : Tool(i) = t}  BY <1>1 DEF Tool
  <1>7. Includable' = Includable  BY <1>4, <1>6 DEF Includable, Tools, Tool
  <1>8. Stays' = Stays  BY <1>1, <1>4, <1>7 DEF Stays, Tool
  <1>9. Cutoff' = Cutoff  BY <1>8 DEF Cutoff
  <1>10. Before' = Before  BY <1>4, <1>7, <1>9 DEF Before, Tool
  <1>11. Suffix' = Suffix  BY <1>9 DEF Suffix
  <1>12. Prefix' = Prefix  BY <1>1, <1>4 DEF Prefix
  <1>13. UNCHANGED {j \in Call : Tool(j) \in Tools(Before)}
    BY <1>1, <1>10 DEF Tool, Tools
  <1>14. UNCHANGED Sure(Before, Suffix)
    <2> DEFINE included == {i \in Call : Tool(i) \in Tools(Before)}
    <2>1. included' = included  BY <1>13
    <2>2. Sure(Before, Suffix) = {i \in included : Cardinality({j \in included : j > i}) >= Suffix}
      BY DEF Sure
    <2>3. Sure(Before, Suffix)' = {i \in included' : Cardinality({j \in included' : j > i}) >= Suffix'}
      BY DEF Sure
    <2> HIDE DEF included
    <2> QED  BY <1>11, <2>1, <2>2, <2>3
  <1>15. UseGlobal' = UseGlobal  BY <1>10, <1>11, <1>12, <1>14 DEF UseGlobal
  <1>16. UNCHANGED <<Others(Whole), Others(Before)>>
    BY <1>1, <1>5, <1>10 DEF Others, Tools, Tool
  <1>17. UNCHANGED Policy(Whole, 0, Others(Whole))  BY <1>5, <1>16 DEF Policy
  <1>18. UNCHANGED Policy(Prefix, Len(requestCalls) - Cardinality(Prefix), {})  BY <1>12 DEF Policy
  <1>19. UNCHANGED Policy(Before, Suffix, Others(Before))  BY <1>10, <1>11, <1>16 DEF Policy
  <1>20. RecentPairs' = RecentPairs  BY <1>15, <1>18, <1>19 DEF RecentPairs
  <1> QED  BY <1>4, <1>5, <1>17, <1>20 DEF Plan

(* Each step keeps the type and forgets a plan that is no longer that of   *)
(* the conversation.                                                       *)
LEMMA ServerInvStep == ServerInv /\ [ClearingNext]_clearingVars => ServerInv'
  <1> SUFFICES ASSUME ServerInv, [ClearingNext]_clearingVars PROVE ServerInv'  OBVIOUS
  <1> USE DEF ServerInv
  <1>0. MaxCalls \in Nat  BY ClearingAssumption
  <1>1. ASSUME NEW t \in Name, AddCall(t) PROVE ServerInv'
    <2>1. [tool |-> t, judgment |-> "none"] \in [tool : Name, judgment : Judgment]  BY DEF Judgment
    <2>2. requestCalls' \in Seq([tool : Name, judgment : Judgment]) /\ Len(requestCalls') = Len(requestCalls) + 1
      <3> DEFINE D == [tool : Name, judgment : Judgment]
                 x == [tool |-> t, judgment |-> "none"]
      <3>1. requestCalls' = Append(requestCalls, x) /\ x \in D /\ requestCalls \in Seq(D)
        BY <1>1, <2>1 DEF AddCall, Conversation
      <3> HIDE DEF D, x
      <3>2. requestCalls' \in Seq(D) /\ Len(requestCalls') = Len(requestCalls) + 1  BY <3>1
      <3> QED  BY <3>2 DEF D
    <2>3. Len(requestCalls) \in Nat /\ Len(requestCalls) < MaxCalls  BY <1>1 DEF AddCall, Conversation
    <2> QED  BY <1>0, <1>1, <2>2, <2>3 DEF AddCall, Conversation
  <1>2. ASSUME NEW publication \in BOOLEAN, Answer(publication) PROVE ServerInv'
    <2>1. Len(requestCalls) \in 0..MaxCalls  BY <1>0, CallFacts DEF Conversation
    <2> QED  BY <1>2, <2>1 DEF Answer, Conversation
  <1>3. ASSUME NEW i \in Call, NEW j \in Judgment, Judge(i, j) PROVE ServerInv'
    <2> DEFINE D == [tool : Name, judgment : Judgment]
    <2>1. i \in 1..Len(requestCalls)  BY CallFacts
    <2>2. requestCalls \in Seq(D)  BY DEF Conversation
    <2>3. requestCalls[i] \in D
      <3> HIDE DEF D
      <3> QED  BY <2>1, <2>2
    <2>6. [requestCalls[i] EXCEPT !.judgment = j] \in D  BY <2>3
    <2>4. requestCalls' = [requestCalls EXCEPT ![i] = [requestCalls[i] EXCEPT !.judgment = j]]  BY <1>3 DEF Judge
    <2> HIDE DEF D
    <2>5. requestCalls' \in Seq(D) /\ Len(requestCalls') = Len(requestCalls)  BY <2>1, <2>2, <2>4, <2>6
    <2> QED  BY <1>3, <2>5 DEF Judge, Conversation, D
  <1>4. CASE Request
    <2>1. UNCHANGED <<requestCalls, open, carrier, verified>> /\ plan' = Plan  BY <1>4 DEF Request
    <2>2. Plan' = Plan  BY <2>1, SamePlan
    <2> QED  BY <2>1, <2>2 DEF Conversation
  <1>5. CASE UNCHANGED clearingVars
    <2>1. UNCHANGED <<requestCalls, open, carrier, verified, plan>>  BY <1>5 DEF clearingVars
    <2>2. Plan' = Plan  BY <2>1, SamePlan
    <2> QED  BY <2>1, <2>2 DEF Conversation
  <1> QED  BY <1>1, <1>2, <1>3, <1>4, <1>5 DEF ClearingNext

(* Whatever the calls of a conversation, however its results are judged    *)
(* and however the server counts the calls to keep, no policy asked of it  *)
(* clears a result or arguments that were not judged away, or a replaced   *)
(* result without its conclusions.                                         *)
THEOREM PolicyClearsJudged == ClearingSpec => []ClearsOnlyJudged
  <1>1. ClearingInit => ServerInv
    <2>1. <<>> \in Seq([tool : Name, judgment : Judgment]) /\ Len(<<>>) = 0
      BY EmptySequence
    <2>2. ASSUME ClearingInit PROVE requestCalls \in Seq([tool : Name, judgment : Judgment]) /\ Len(requestCalls) = 0
      BY <2>1, <2>2 DEF ClearingInit
    <2>3. ASSUME ClearingInit PROVE Len(requestCalls) <= MaxCalls /\ carrier \in 0..MaxCalls
      BY <2>2, <2>3, ClearingAssumption DEF ClearingInit
    <2>4. ASSUME ClearingInit PROVE open \in BOOLEAN /\ verified \in BOOLEAN /\ plan = NoPlan
      BY <2>4 DEF ClearingInit
    <2> QED  BY <2>2, <2>3, <2>4 DEF ServerInv, Conversation
  <1> QED  BY <1>1, ServerInvStep, PlanIsSafe, PTL DEF ClearingSpec

-----------------------------------------------------------------------------
(* The gateway and the hooks write their usage and failures to shared logs  *)
(* (SharedLog). Where the system takes locks, the writers that hold a log's *)
(* lock are never two, for any number of calls and under either rule,       *)
(* although the rotation changes the file at the path while others wait for *)
(* the lock of the old one.                                                 *)

(* A call past the recheck holds the flock of the file at the path. *)
Locked(p) == fd[p] \in Inode /\ holder[fd[p]] = p /\ path = fd[p]

(* The files and the locks, without the bytes. *)
PlacesOK ==
  /\ pc \in [Proc -> Place]
  /\ made \in Nat
  /\ path \in Inode \cup {NoFile}
  /\ holder \in [Inode -> Proc \cup {NoOne}]
  /\ fd \in [Proc -> Inode \cup {NoFile}]

LockInv ==
  /\ PlacesOK
  /\ CanLock => \A p \in Proc :
       /\ pc[p] \in {"wait", "check"} => fd[p] \in Inode
       /\ pc[p] = "check" => holder[fd[p]] = p
       /\ pc[p] \in Critical => Locked(p)

(* The number of inodes is bounded by a natural number. *)
LEMMA InodeBound == MaxInode \in Nat \ {0} /\ NoFile \notin Inode
  <1>1. Cardinality(Proc) \in Nat  BY LogAssumption, FS_CardinalityType
  <1>2. MaxInode \in Nat \ {0}  BY <1>1 DEF MaxInode
  <1>3. NoFile \notin Inode  BY <1>2, LogAssumption DEF Inode
  <1> QED  BY <1>2, <1>3

(* An open with O_CREAT leaves a file at the path, the old one if any. *)
LEMMA OpenGivesFile ==
  ASSUME PlacesOK, OpenOrCreate
  PROVE  /\ made' \in Nat
         /\ path' \in Inode
         /\ path # NoFile => path' = path
  <1>1. CASE path = NoFile
    <2>1. made \in Nat /\ made < MaxInode /\ made' = made + 1 /\ path' = made + 1
      BY <1>1 DEF OpenOrCreate, PlacesOK
    <2> QED  BY <1>1, <2>1, InodeBound DEF Inode
  <1>2. CASE path # NoFile  BY <1>2 DEF OpenOrCreate, PlacesOK
  <1> QED  BY <1>1, <1>2

(* A step that keeps the path, the locks and the descriptors, and takes a  *)
(* call on to the next place, or out of the critical part.                 *)
LEMMA MovesOn ==
  ASSUME LockInv, log' = log, NEW p \in Proc, NEW to \in Place, Goto(p, to),
         UNCHANGED <<holder, fd>>, made' \in Nat, path' \in Inode \cup {NoFile},
         CanLock => (path # NoFile => path' = path),
         CanLock => (to \in Critical => pc[p] \in Critical),
         to \notin {"wait", "check"}
  PROVE  LockInv'
  <1>0. CanLock' = CanLock  BY DEF CanLock
  <1>1. PlacesOK'  BY DEF LockInv, PlacesOK, Goto
  <1>2. ASSUME CanLock, NEW q \in Proc
        PROVE  /\ pc'[q] \in {"wait", "check"} => fd'[q] \in Inode
               /\ pc'[q] = "check" => holder'[fd'[q]] = q
               /\ pc'[q] \in Critical => Locked(q)'
    <2>1. pc'[q] = IF q = p THEN to ELSE pc[q]  BY DEF Goto, LockInv, PlacesOK
    <2>2. pc'[q] \in Critical => Locked(q)
      BY <1>2, <2>1 DEF LockInv
    <2>3. Locked(q) => Locked(q)'
      BY <1>2, InodeBound DEF Locked
    <2>4. pc'[q] \in {"wait", "check"} => pc[q] = pc'[q]  BY <2>1
    <2> QED  BY <1>2, <2>2, <2>3, <2>4 DEF LockInv
  <1> QED  BY <1>0, <1>1, <1>2 DEF LockInv

(* A step that frees the path, or puts another file at it, by the one call *)
(* that is past the recheck.                                               *)
LEMMA FreesPath ==
  ASSUME LockInv, log' = log, NEW p \in Proc, pc[p] \in Critical, Goto(p, "leave"),
         UNCHANGED <<made, holder, fd>>, path' \in Inode \cup {NoFile}
  PROVE  LockInv'
  <1>0. CanLock' = CanLock  BY DEF CanLock
  <1>1. PlacesOK'  BY DEF LockInv, PlacesOK, Goto, Place
  <1>2. ASSUME CanLock, NEW q \in Proc
        PROVE  /\ pc'[q] \in {"wait", "check"} => fd'[q] \in Inode
               /\ pc'[q] = "check" => holder'[fd'[q]] = q
               /\ pc'[q] \in Critical => Locked(q)'
    <2>1. pc'[q] = IF q = p THEN "leave" ELSE pc[q]  BY DEF Goto, LockInv, PlacesOK
    <2>2. Locked(p)  BY <1>2 DEF LockInv
    <2>3. pc[q] \in Critical => q = p  BY <1>2, <2>2 DEF LockInv, Locked
    <2>4. pc'[q] \notin Critical  BY <2>1, <2>3 DEF Critical
    <2> QED  BY <1>2, <2>1, <2>4 DEF LockInv
  <1> QED  BY <1>0, <1>1, <1>2 DEF LockInv

(* A call closes its descriptors and is past the critical part. *)
LEMMA Closes ==
  ASSUME LockInv, log' = log, NEW p \in Proc, NEW to \in Place, Goto(p, to), Close(p), UNCHANGED files,
         to \notin Critical \cup {"wait", "check"}
  PROVE  LockInv'
  <1>0. CanLock' = CanLock  BY DEF CanLock
  <1>1. PlacesOK'  BY DEF LockInv, PlacesOK, Goto, Close, files
  <1>2. ASSUME CanLock, NEW q \in Proc
        PROVE  /\ pc'[q] \in {"wait", "check"} => fd'[q] \in Inode
               /\ pc'[q] = "check" => holder'[fd'[q]] = q
               /\ pc'[q] \in Critical => Locked(q)'
    <2>1. CASE q = p
      <3>1. pc'[q] = to  BY <2>1 DEF Goto, LockInv, PlacesOK
      <3> QED  BY <3>1
    <2>2. CASE q # p
      <3>1. pc'[q] = pc[q] /\ fd'[q] = fd[q] /\ path' = path
        BY <2>2 DEF Goto, Close, LockInv, PlacesOK, files
      <3>2. \A i \in Inode : holder[i] = q => holder'[i] = q
        BY <2>2 DEF Close, LockInv, PlacesOK
      <3> QED  BY <1>2, <3>1, <3>2 DEF LockInv, Locked
    <2> QED  BY <2>1, <2>2
  <1> QED  BY <1>0, <1>1, <1>2 DEF LockInv

(* The steps of the lock. *)
LEMMA ExclusiveKeeps ==
  ASSUME LockInv, log' = log, NEW p \in Proc, Exclusive(p)
  PROVE  LockInv'
  <1>0. CanLock' = CanLock  BY DEF CanLock
  <1>1. CASE OpenToLock(p)
    <2>1. made' \in Nat /\ path' \in Inode /\ (path # NoFile => path' = path)
      BY <1>1, OpenGivesFile DEF OpenToLock, LockInv
    <2>2. PlacesOK'  BY <1>1, <2>1 DEF OpenToLock, LockInv, PlacesOK, Goto, Place
    <2>3. ASSUME CanLock, NEW q \in Proc
          PROVE  /\ pc'[q] \in {"wait", "check"} => fd'[q] \in Inode
                 /\ pc'[q] = "check" => holder'[fd'[q]] = q
                 /\ pc'[q] \in Critical => Locked(q)'
      <3>1. CASE q = p
        <4>1. pc'[q] = "wait" /\ fd'[q] = path'
          BY <1>1, <3>1 DEF OpenToLock, LockInv, PlacesOK, Goto
        <4> QED  BY <4>1, <2>1 DEF Critical
      <3>2. CASE q # p
        <4>1. pc'[q] = pc[q] /\ fd'[q] = fd[q] /\ holder' = holder
          BY <1>1, <3>2 DEF OpenToLock, LockInv, PlacesOK, Goto
        <4> QED  BY <2>3, <4>1, <2>1, InodeBound DEF LockInv, Locked
      <3> QED  BY <3>1, <3>2
    <2> QED  BY <1>0, <2>2, <2>3 DEF LockInv
  <1>2. CASE Lock(p)
    <2>1. PlacesOK'  BY <1>2 DEF Lock, LockInv, PlacesOK, Goto, Place, files
    <2>2. ASSUME CanLock, NEW q \in Proc
          PROVE  /\ pc'[q] \in {"wait", "check"} => fd'[q] \in Inode
                 /\ pc'[q] = "check" => holder'[fd'[q]] = q
                 /\ pc'[q] \in Critical => Locked(q)'
      <3>1. fd[p] \in Inode  BY <1>2, <2>2 DEF Lock, LockInv
      <3>2. fd' = fd /\ path' = path  BY <1>2 DEF Lock, files
      <3>3. CASE q = p
        <4>1. pc'[q] = "check" /\ holder'[fd[q]] = q
          BY <1>2, <3>1, <3>3 DEF Lock, LockInv, PlacesOK, Goto
        <4> QED  BY <3>1, <3>2, <3>3, <4>1 DEF Critical
      <3>4. CASE q # p
        <4>1. pc'[q] = pc[q]  BY <1>2, <3>4 DEF Lock, LockInv, PlacesOK, Goto
        <4>2. q # NoOne  BY LogAssumption
        <4>3. \A i \in Inode : holder[i] = q => holder'[i] = q
          BY <1>2, <3>1, <3>4, <4>2 DEF Lock, LockInv, PlacesOK
        <4> QED  BY <2>2, <3>2, <4>1, <4>3 DEF LockInv, Locked
      <3> QED  BY <3>3, <3>4
    <2> QED  BY <1>0, <2>1, <2>2 DEF LockInv
  <1>3. CASE TimeOut(p)
    <2>1. "unlocked" \in Place /\ "unlocked" \notin Critical  BY DEF Place, Critical
    <2>2. made' \in Nat /\ path' \in Inode \cup {NoFile} /\ path' = path
      BY <1>3 DEF TimeOut, files, LockInv, PlacesOK
    <2> QED  BY <1>3, <2>1, <2>2, MovesOn DEF TimeOut
  <1>4. CASE Recheck(p)
    <2>1. CASE path = fd[p]
      <3>1. PlacesOK'  BY <1>4, <2>1 DEF Recheck, LockInv, PlacesOK, Goto, Place, Critical, files
      <3>2. ASSUME CanLock, NEW q \in Proc
            PROVE  /\ pc'[q] \in {"wait", "check"} => fd'[q] \in Inode
                   /\ pc'[q] = "check" => holder'[fd'[q]] = q
                   /\ pc'[q] \in Critical => Locked(q)'
        <4>1. UNCHANGED <<path, holder, fd>>  BY <1>4, <2>1 DEF Recheck, files
        <4>2. Locked(p)  BY <1>4, <2>1, <3>2 DEF Recheck, LockInv, Locked
        <4>3. pc'[q] = IF q = p THEN "append" ELSE pc[q]
          BY <1>4, <2>1 DEF Recheck, LockInv, PlacesOK, Goto
        <4> QED  BY <3>2, <4>1, <4>2, <4>3 DEF LockInv, Locked, Critical
      <3> QED  BY <1>0, <3>1, <3>2 DEF LockInv
    <2>2. CASE path # fd[p]
      <3>1. Goto(p, "open") /\ Close(p) /\ UNCHANGED files  BY <1>4, <2>2 DEF Recheck
      <3>2. "open" \in Place /\ "open" \notin Critical \cup {"wait", "check"}  BY DEF Place, Critical
      <3> QED  BY <3>1, <3>2, Closes
    <2> QED  BY <2>1, <2>2
  <1> QED  BY <1>1, <1>2, <1>3, <1>4 DEF Exclusive

(* The steps of _append_once. *)
LEMMA AppendOnceKeeps ==
  ASSUME LockInv, log' = log, NEW p \in Proc, AppendOnce(p)
  PROVE  LockInv'
  <1>1. CASE OpenToAppend(p)
    <2> DEFINE to == IF pc[p] = "append" THEN "write" ELSE "late"
    <2>1. made' \in Nat /\ path' \in Inode /\ (path # NoFile => path' = path)
      BY <1>1, OpenGivesFile DEF OpenToAppend, LockInv
    <2>2. Goto(p, to) /\ UNCHANGED <<holder, fd>>  BY <1>1 DEF OpenToAppend
    <2>3. to \in Place /\ to \notin {"wait", "check"} /\ (to \in Critical => pc[p] \in Critical)
      BY DEF Place, Critical
    <2> HIDE DEF to
    <2> QED  BY <2>1, <2>2, <2>3, MovesOn
  <1>2. CASE Write(p)
    <2> DEFINE to == IF pc[p] = "write" /\ Method # "none" THEN "rule" ELSE "leave"
    <2>1. made' \in Nat /\ path' \in Inode \cup {NoFile} /\ path' = path
      BY <1>2 DEF Write, LockInv, PlacesOK
    <2>2. Goto(p, to) /\ UNCHANGED <<holder, fd>>  BY <1>2 DEF Write
    <2>3. to \in Place /\ to \notin {"wait", "check"} /\ (to \in Critical => pc[p] \in Critical)
      BY DEF Place, Critical
    <2> HIDE DEF to
    <2> QED  BY <2>1, <2>2, <2>3, MovesOn
  <1>3. CASE ShortWrite(p)
    <2>1. made' \in Nat /\ path' \in Inode \cup {NoFile} /\ path' = path
      BY <1>3 DEF ShortWrite, LockInv, PlacesOK
    <2>2. Goto(p, "leave") /\ UNCHANGED <<holder, fd>>  BY <1>3 DEF ShortWrite
    <2>3. "leave" \in Place /\ "leave" \notin Critical \cup {"wait", "check"}
      BY DEF Place, Critical
    <2> QED  BY <2>1, <2>2, <2>3, MovesOn
  <1> QED  BY <1>1, <1>2, <1>3 DEF AppendOnce

(* The steps of the rules. *)
LEMMA ApplyKeeps ==
  ASSUME LockInv, log' = log, NEW p \in Proc, Apply(p)
  PROVE  LockInv'
  <1> DEFINE Inner == {"truncate", "rewrite", "replace", "tail", "unlink", "leave"}
  <1>1. \A to \in Inner : to \in Place /\ to \notin {"wait", "check"}  BY DEF Place, Critical
  <1>2. pc[p] \in Critical
    BY DEF Apply, ReadLines, Truncate, WriteKept, RewriteFails, StatSize, Rotate, WriteTail, UnlinkLog,
           RuleFails, Critical
  <1>3. ASSUME NEW to \in Inner, Goto(p, to), UNCHANGED <<holder, fd>>, made' \in Nat,
               path' \in Inode \cup {NoFile}, path # NoFile => path' = path
        PROVE  LockInv'
    BY <1>1, <1>2, <1>3, MovesOn
  <1>4. CASE ReadLines(p) \/ WriteKept(p) \/ RewriteFails(p) \/ StatSize(p) \/ RuleFails(p)
    <2>1. made' \in Nat /\ path' \in Inode \cup {NoFile} /\ path' = path /\ UNCHANGED <<holder, fd>>
      BY <1>4 DEF ReadLines, WriteKept, RewriteFails, StatSize, RuleFails, files, LockInv, PlacesOK
    <2>2. \E to \in Inner : Goto(p, to)
      BY <1>4 DEF ReadLines, WriteKept, RewriteFails, StatSize, RuleFails
    <2> QED  BY <2>1, <2>2, <1>3
  <1>5. CASE Truncate(p)
    <2>1. made' \in Nat /\ path' \in Inode /\ (path # NoFile => path' = path)
      BY <1>5, OpenGivesFile DEF Truncate, LockInv
    <2>2. Goto(p, "rewrite") /\ UNCHANGED <<holder, fd>>  BY <1>5 DEF Truncate
    <2> QED  BY <2>1, <2>2, <1>3
  <1>6. CASE WriteTail(p)
    <2>1. made' \in Nat /\ path' \in Inode \cup {NoFile} /\ path' = path /\ UNCHANGED <<holder, fd>>
      BY <1>6 DEF WriteTail, LockInv, PlacesOK
    <2>2. \E to \in Inner : Goto(p, to)  BY <1>6 DEF WriteTail
    <2> QED  BY <2>1, <2>2, <1>3
  <1>7. CASE Rotate(p) \/ UnlinkLog(p)
    <2>1. Goto(p, "leave") /\ UNCHANGED <<made, holder, fd>> /\ path' \in Inode \cup {NoFile}
      BY <1>7 DEF Rotate, UnlinkLog, LockInv, PlacesOK
    <2> QED  BY <1>2, <2>1, FreesPath
  <1> QED  BY <1>4, <1>5, <1>6, <1>7 DEF Apply

(* Every step keeps the invariant. *)
LEMMA LockInvInit == LogInit => LockInv
  <1>1. 0 \in Nat /\ "start" \in Place /\ "start" \notin Critical  BY DEF Place, Critical
  <1>2. 1 \in Inode  BY InodeBound DEF Inode
  <1> QED  BY <1>1, <1>2 DEF LogInit, LockInv, PlacesOK

LEMMA LockInvStep == LockInv /\ [LogNext]_logVars => LockInv'
  <1> SUFFICES ASSUME LockInv, [LogNext]_logVars PROVE LockInv'  OBVIOUS
  <1>1. CASE UNCHANGED logVars
    BY <1>1 DEF logVars, LockInv, PlacesOK, Locked, CanLock
  <1>2. ASSUME NEW p \in Proc, Start(p), log' = log PROVE LockInv'
    <2> DEFINE to == IF CanLock THEN "open" ELSE "append"
    <2>1. Goto(p, to) /\ UNCHANGED <<holder, fd>>  BY <1>2 DEF Start
    <2>2. made' \in Nat /\ path' \in Inode \cup {NoFile} /\ path' = path
      BY <1>2 DEF Start, files, LockInv, PlacesOK
    <2>3. to \in Place /\ to \notin {"wait", "check"} /\ (CanLock => to \notin Critical)
      BY DEF Place, Critical
    <2> HIDE DEF to
    <2>4. CanLock => (to \in Critical => pc[p] \in Critical)  BY <2>3
    <2> QED  BY <1>2, <2>1, <2>2, <2>3, <2>4, MovesOn
  <1>3. ASSUME NEW p \in Proc, Leave(p), log' = log PROVE LockInv'
    <2>1. "done" \in Place /\ "done" \notin Critical \cup {"wait", "check"}  BY DEF Place, Critical
    <2> QED  BY <1>3, <2>1, Closes DEF Leave
  <1>4. ASSUME NEW p \in Proc, Die(p), log' = log PROVE LockInv'
    <2>1. "gone" \in Place /\ "gone" \notin Critical \cup {"wait", "check"}  BY DEF Place, Critical
    <2> QED  BY <1>4, <2>1, Closes DEF Die
  <1>5. ASSUME NEW p \in Proc, Hang(p), log' = log PROVE LockInv'
    <2>1. "hung" \in Place /\ "hung" \notin Critical \cup {"wait", "check"}  BY DEF Place, Critical
    <2>2. made' \in Nat /\ path' \in Inode \cup {NoFile} /\ path' = path
      BY <1>5 DEF Hang, files, LockInv, PlacesOK
    <2> QED  BY <1>5, <2>1, <2>2, MovesOn DEF Hang
  <1> QED
    BY <1>1, <1>2, <1>3, <1>4, <1>5, ExclusiveKeeps, AppendOnceKeeps, ApplyKeeps DEF LogNext, LogStep, Ended

(* Where the system takes locks, at most one call at a time is between the *)
(* recheck of the log's lock and the end of its write and its rule, for    *)
(* any number of calls, with timeouts, deaths and cut writes.              *)
THEOREM LogHasOneWriter == LogSpec => []OneWriter
  <1>1. LogInit => LockInv  BY LockInvInit
  <1>2. LockInv => OneWriter  BY DEF LockInv, OneWriter, Locked
  <1> QED  BY <1>1, <1>2, LockInvStep, PTL DEF LogSpec

-----------------------------------------------------------------------------
(* NewestKept for any number of calls, any limits and whatever a full disk     *)
(* leaves of a line.                                                           *)
(*                                                                             *)
(* A line is where its bytes are: an append moves none of those before it and  *)
(* adds one at the end (WholeLine, PartLine), and what a rule drops from the   *)
(* start leaves the rest in its order (Dropped), so all that matters is where  *)
(* a rule cuts: at the end of a line that is not the newest (TrimKeeps,        *)
(* TailKeeps).  The property is not inductive: NewestInv adds that no byte of  *)
(* a written line is outside its line (Uncut), without which a cut line could  *)
(* be completed to one that was never written; that a rule starts with the     *)
(* newest line at the log's end, and that what waits to be written back, or    *)
(* became the previous file, already shows what the log did.  Its steps use    *)
(* LockInv: a call past the recheck is alone.                                  *)

(* What a text shows of the lines of the calls in w, oldest first. *)
Shown(b, p) == {i \in DOMAIN b : LineEnds(b, i, p)}
InOrder(w, b) == \A k, l \in DOMAIN w : \A i \in Shown(b, w[k]), j \in Shown(b, w[l]) : k < l <=> i < j
Newest(w, b) ==
  /\ \A k, l \in DOMAIN w : k < l /\ Shown(b, w[k]) # {} => Shown(b, w[l]) # {}
  /\ w # <<>> => Shown(b, w[Len(w)]) # {}
(* No byte of such a line is left outside its line. *)
Uncut(w, b) == \A i \in DOMAIN b, k \in DOMAIN w :
  b[i] = w[k] => LineEnds(b, i + 1, w[k]) \/ LineEnds(b, i + 2, w[k])
Shows(w, b) == InOrder(w, b) /\ Newest(w, b) /\ Uncut(w, b)
AllShown(w, b) == \A k \in DOMAIN w : Shown(b, w[k]) # {}
Closed(b) == b = <<>> \/ b[Len(b)] = Newline

(* What an append leaves at each place of a file. *)
LEMMA Appended ==
  ASSUME NEW S, NEW b \in Seq(S), NEW c \in Seq(S)
  PROVE  /\ b \o c \in Seq(S) /\ Len(b) \in Nat /\ Len(c) \in Nat /\ Len(b \o c) = Len(b) + Len(c)
         /\ \A i \in 1 .. Len(b) : (b \o c)[i] = b[i]
         /\ \A i \in 1 .. Len(c) : (b \o c)[Len(b) + i] = c[i]
  OBVIOUS

(* The lines of a file stay where they are when something is appended. *)
LEMMA LineStays ==
  ASSUME NEW S, NEW b \in Seq(S), NEW c \in Seq(S), NEW p, NEW i \in 1 .. Len(b)
  PROVE  LineEnds(b \o c, i, p) <=> LineEnds(b, i, p)
  <1> DEFINE t == b \o c
  <1>1. Len(b) \in Nat /\ Len(t) \in Nat /\ Len(b) <= Len(t) /\ \A j \in 1 .. Len(b) : t[j] = b[j]
    BY Appended
  <1> HIDE DEF t
  <1>2. LineEnds(t, i, p) <=> LineEnds(b, i, p)  BY <1>1 DEF LineEnds
  <1> QED  BY <1>2 DEF t

(* The line of a call, and the end of a cut line before it. *)
LEMMA LineForIs ==
  ASSUME NEW S, NEW b \in Seq(S), NEW p
  PROVE  \/ b # <<>> /\ b[Len(b)] # Newline /\ LineFor(p, b) = <<Newline, p, p, Newline>>
         \/ (b = <<>> \/ b[Len(b)] = Newline) /\ LineFor(p, b) = <<p, p, Newline>>
  BY DEF LineFor, Last

(* It is bytes. *)
LEMMA LineBytes == ASSUME NEW S, NEW x \in S, NEW y \in S PROVE <<x, y, y, x>> \in Seq(S) /\ <<y, y, x>> \in Seq(S)
  OBVIOUS
LEMMA LineForBytes ==
  ASSUME NEW b \in Bytes, NEW p \in Proc
  PROVE  LineFor(p, b) \in Bytes /\ Len(LineFor(p, b)) \in {3, 4}
  <1>1. b \in Seq(Proc \cup {Newline})  BY DEF Bytes
  <1>2. LineFor(p, b) \in {<<Newline, p, p, Newline>>, <<p, p, Newline>>}  BY <1>1, LineForIs
  <1>3. <<Newline, p, p, Newline>> \in Bytes /\ <<p, p, Newline>> \in Bytes
    BY LineBytes, p \in Proc \cup {Newline}, Newline \in Proc \cup {Newline} DEF Bytes
  <1>4. Len(<<Newline, p, p, Newline>>) = 4 /\ Len(<<p, p, Newline>>) = 3  OBVIOUS
  <1> QED  BY <1>2, <1>3, <1>4

(* A part of a call's line ends no line but its own, and the cut one before. *)
LEMMA LineAdded ==
  ASSUME NEW b \in Bytes, NEW p \in Proc, NEW q \in Proc, NEW n \in 0 .. Len(LineFor(p, b)),
         NEW i, i > Len(b), LineEnds(b \o SubSeq(LineFor(p, b), 1, n), i, q)
  PROVE  \/ q = p /\ n = Len(LineFor(p, b)) /\ i = Len(b) + n
         \/ b # <<>> /\ b[Len(b)] = q
  <1> DEFINE c == SubSeq(LineFor(p, b), 1, n)
             t == b \o c
  <1>1. LineFor(p, b) \in Bytes  BY LineForBytes
  <1>2. c \in Bytes /\ Len(c) = n /\ \A j \in 1 .. n : c[j] = LineFor(p, b)[j]
    BY <1>1, SubSeqProperties DEF Bytes
  <1>9. b \in Seq(Proc \cup {Newline}) /\ c \in Seq(Proc \cup {Newline})  BY <1>2 DEF Bytes
  <1> HIDE DEF c
  <1>10. Len(b) \in Nat /\ Len(t) = Len(b) + Len(c) /\ (\A j \in 1 .. Len(b) : t[j] = b[j])
         /\ \A j \in 1 .. Len(c) : t[Len(b) + j] = c[j]
    BY <1>9, Appended
  <1>11. ASSUME NEW j \in 1 .. n PROVE t[Len(b) + j] = LineFor(p, b)[j]
    <2>1. c[j] = LineFor(p, b)[j]  BY <1>2
    <2>2. t[Len(b) + j] = c[j]  BY <1>2, <1>10
    <2> QED  BY <2>1, <2>2
  <1>3. Len(b) \in Nat /\ Len(t) = Len(b) + n /\ (\A j \in 1 .. Len(b) : t[j] = b[j])
        /\ \A j \in 1 .. n : t[Len(b) + j] = LineFor(p, b)[j]
    BY <1>2, <1>10, <1>11
  <1>4. p # Newline /\ q # Newline  BY LogAssumption
  <1>5. LineEnds(t, i, q)  BY DEF c
  <1> HIDE DEF t
  <1>6. CASE b # <<>> /\ b[Len(b)] # Newline /\ LineFor(p, b) = <<Newline, p, p, Newline>>
    <2>1. Len(LineFor(p, b)) = 4  BY <1>6
    <2>0. i \in 3 .. Len(t)  BY <1>5 DEF LineEnds
    <2>2. i \in {Len(b) + 1, Len(b) + 2, Len(b) + 3, Len(b) + 4} /\ i <= Len(b) + n /\ i - 1 >= 1
      BY <1>3, <2>0, <2>1
    <2>3. t[i] = Newline /\ t[i - 1] = q  BY <1>5 DEF LineEnds
    <2>4. n >= 2 => t[Len(b) + 2] = p  BY <1>3, <1>6, <2>1
    <2>5. n >= 3 => t[Len(b) + 3] = p  BY <1>3, <1>6, <2>1
    <2>6. i # Len(b) + 2 /\ i # Len(b) + 3  BY <1>3, <1>4, <2>1, <2>2, <2>3, <2>4, <2>5
    <2>7. CASE i = Len(b) + 1  BY <1>3, <1>6, <2>2, <2>3, <2>7
    <2>8. CASE i = Len(b) + 4  BY <1>3, <2>1, <2>2, <2>3, <2>5, <2>8
    <2> QED  BY <2>2, <2>6, <2>7, <2>8
  <1>7. CASE LineFor(p, b) = <<p, p, Newline>>
    <2>1. Len(LineFor(p, b)) = 3  BY <1>7
    <2>2. i \in {Len(b) + 1, Len(b) + 2, Len(b) + 3} /\ i <= Len(b) + n /\ i - 1 >= 1
      BY <1>3, <1>5, <2>1 DEF LineEnds
    <2>3. t[i] = Newline /\ t[i - 1] = q  BY <1>5 DEF LineEnds
    <2>4. n >= 1 => t[Len(b) + 1] = p  BY <1>3, <1>7, <2>1
    <2>5. n >= 2 => t[Len(b) + 2] = p  BY <1>3, <1>7, <2>1
    <2>6. i # Len(b) + 1 /\ i # Len(b) + 2  BY <1>3, <1>4, <2>1, <2>2, <2>3, <2>4, <2>5
    <2>7. CASE i = Len(b) + 3  BY <1>3, <2>1, <2>2, <2>3, <2>5, <2>7
    <2> QED  BY <2>2, <2>6, <2>7
  <1>8. b \in Seq(Proc \cup {Newline})  BY DEF Bytes
  <1> QED  BY <1>6, <1>7, <1>8, LineForIs

(* The whole line of a call ends at the end. *)
LEMMA LineWritten ==
  ASSUME NEW b \in Bytes, NEW p \in Proc
  PROVE  LET t == b \o LineFor(p, b) IN
         t \in Bytes /\ Len(t) > Len(b) + 2 /\ LineEnds(t, Len(t), p) /\ t[Len(t)] = Newline
  <1> DEFINE c == LineFor(p, b)
             t == b \o c
  <1>0. b \in Seq(Proc \cup {Newline})  BY DEF Bytes
  <1>1. c \in Bytes  BY LineForBytes
  <1>2. t \in Bytes /\ Len(b) \in Nat /\ Len(t) = Len(b) + Len(c) /\ (\A j \in 1 .. Len(b) : t[j] = b[j])
        /\ \A j \in 1 .. Len(c) : t[Len(b) + j] = c[j]
    BY <1>1, Appended DEF Bytes
  <1>3. CASE c = <<Newline, p, p, Newline>>
    <2>1. Len(c) = 4 /\ Len(t) = Len(b) + 4  BY <1>2, <1>3
    <2>2. t[Len(b) + 1] = Newline /\ t[Len(b) + 2] = p /\ t[Len(b) + 3] = p /\ t[Len(b) + 4] = Newline
      BY <1>2, <1>3
    <2> HIDE DEF t
    <2>3. LineEnds(t, Len(t), p)  BY <1>2, <2>1, <2>2 DEF LineEnds
    <2> QED  BY <1>2, <2>1, <2>2, <2>3 DEF t
  <1>4. CASE c = <<p, p, Newline>> /\ (b = <<>> \/ b[Len(b)] = Newline)
    <2>1. Len(c) = 3 /\ Len(t) = Len(b) + 3  BY <1>2, <1>4
    <2>2. t[Len(b) + 1] = p /\ t[Len(b) + 2] = p /\ t[Len(b) + 3] = Newline  BY <1>2, <1>4
    <2>3. b = <<>> => Len(b) = 0  OBVIOUS
    <2>4. b # <<>> => Len(b) > 0 /\ t[Len(b)] = Newline  BY <1>2, <1>4, <1>0
    <2> HIDE DEF t
    <2>5. LineEnds(t, Len(t), p)  BY <1>2, <2>1, <2>2, <2>3, <2>4 DEF LineEnds
    <2> QED  BY <1>2, <2>1, <2>2, <2>5 DEF t
  <1> QED  BY <1>0, <1>3, <1>4, LineForIs

(* A part of a line, up to all of it. *)
LEMMA PartIs ==
  ASSUME NEW S, NEW f \in Seq(S), NEW n \in 0 .. Len(f)
  PROVE  /\ SubSeq(f, 1, n) \in Seq(S) /\ Len(SubSeq(f, 1, n)) = n
         /\ \A j \in 1 .. n : SubSeq(f, 1, n)[j] = f[j]
         /\ n = Len(f) => SubSeq(f, 1, n) = f
  OBVIOUS

(* The newlines of a file. *)
LEMMA EndsFinite ==
  ASSUME NEW b \in Bytes
  PROVE  IsFiniteSet(Ends(b)) /\ Ends(b) \subseteq 1 .. Len(b) /\ Len(b) \in Nat /\ LineCount(b) \in Nat
  <1>1. Len(b) \in Nat /\ Ends(b) \subseteq 1 .. Len(b)  BY DEF Bytes, Ends
  <1>2. IsFiniteSet(1 .. Len(b))  BY <1>1, FS_Interval
  <1>3. IsFiniteSet(Ends(b))  BY <1>1, <1>2, FS_Subset
  <1> QED  BY <1>1, <1>3, FS_CardinalityType DEF LineCount

(* An append keeps them. *)
LEMMA MoreEnds ==
  ASSUME NEW b \in Bytes, NEW c \in Bytes
  PROVE  LineCount(b \o c) >= LineCount(b)
  <1> DEFINE t == b \o c
  <1>1. t \in Bytes /\ Len(b) \in Nat /\ Len(t) \in Nat /\ Len(b) <= Len(t) /\ \A j \in 1 .. Len(b) : t[j] = b[j]
    BY Appended DEF Bytes
  <1> HIDE DEF t
  <1>2. Ends(b) \subseteq Ends(t)
    <2>1. DOMAIN b = 1 .. Len(b) /\ DOMAIN t = 1 .. Len(t)  BY <1>1 DEF Bytes
    <2> QED  BY <1>1, <2>1 DEF Ends
  <1>3. Cardinality(Ends(b)) <= Cardinality(Ends(t))  BY <1>1, <1>2, EndsFinite, FS_Subset
  <1> QED  BY <1>1, <1>3, EndsFinite DEF LineCount, t

(* What an append of a call's line, or of a part of it, leaves of the      *)
(* lines of others: all of them, at their places.                          *)
LEMMA OthersStay ==
  ASSUME NEW w \in Seq(Proc), NEW b \in Bytes, NEW p \in Proc, NEW n \in 0 .. Len(LineFor(p, b)),
         \A k \in DOMAIN w : w[k] # p, Shows(w, b),
         NEW k \in DOMAIN w
  PROVE  Shown(b \o SubSeq(LineFor(p, b), 1, n), w[k]) = Shown(b, w[k])
  <1> DEFINE c == SubSeq(LineFor(p, b), 1, n)
             t == b \o c
             q == w[k]
  <1>0. LineFor(p, b) \in Seq(Proc \cup {Newline}) /\ b \in Seq(Proc \cup {Newline})  BY LineForBytes DEF Bytes
  <1>1. c \in Bytes /\ b \in Seq(Proc \cup {Newline}) /\ c \in Seq(Proc \cup {Newline})
    BY <1>0, PartIs DEF Bytes
  <1>2. q \in Proc /\ q # p  OBVIOUS
  <1>3. t \in Bytes /\ Len(b) \in Nat /\ Len(t) \in Nat /\ Len(b) <= Len(t)  BY <1>1, Appended DEF Bytes
  <1>4. DOMAIN b = 1 .. Len(b) /\ DOMAIN t = 1 .. Len(t)  BY <1>1, <1>3 DEF Bytes
  <1>5. ASSUME NEW i \in 1 .. Len(b) PROVE LineEnds(t, i, q) <=> LineEnds(b, i, q)  BY <1>1, LineStays
  <1>6. ASSUME NEW i \in 1 .. Len(t), i > Len(b), LineEnds(t, i, q) PROVE FALSE
    <2>1. b # <<>> /\ b[Len(b)] = q  BY <1>2, <1>6, LineAdded
    <2>2. Len(b) \in DOMAIN b  BY <2>1, <1>1, <1>4
    <2>3. LineEnds(b, Len(b) + 1, q) \/ LineEnds(b, Len(b) + 2, q)  BY <2>1, <2>2 DEF Shows, Uncut
    <2> QED  BY <2>3, <1>3 DEF LineEnds
  <1> HIDE DEF t
  <1>7. \A i : i \in Shown(t, q) <=> i \in Shown(b, q)
    BY <1>3, <1>4, <1>5, <1>6 DEF Shown
  <1>8. Shown(t, q) = Shown(b, q)  BY <1>7
  <1> QED  BY <1>8 DEF t

(* A part of a line leaves the whole lines as they are. *)
LEMMA PartLine ==
  ASSUME NEW w \in Seq(Proc), NEW b \in Bytes, NEW p \in Proc, NEW n \in 0 .. Len(LineFor(p, b)),
         \A k \in DOMAIN w : w[k] # p, Shows(w, b)
  PROVE  LET t == b \o SubSeq(LineFor(p, b), 1, n) IN
         /\ Shows(w, t)
         /\ AllShown(w, b) => AllShown(w, t)
         /\ LineCount(t) >= LineCount(b)
  <1> DEFINE c == SubSeq(LineFor(p, b), 1, n)
             t == b \o c
  <1>0. LineFor(p, b) \in Seq(Proc \cup {Newline}) /\ b \in Seq(Proc \cup {Newline})  BY LineForBytes DEF Bytes
  <1>1. LineFor(p, b) \in Bytes /\ c \in Bytes /\ Len(c) = n /\ \A j \in 1 .. n : c[j] = LineFor(p, b)[j]
    BY <1>0, PartIs DEF Bytes
  <1>2. \A k \in DOMAIN w : Shown(t, w[k]) = Shown(b, w[k])  BY OthersStay
  <1>3. LineCount(t) >= LineCount(b)  BY <1>1, MoreEnds
  <1>4. Len(b) \in Nat /\ Len(t) = Len(b) + n /\ (\A j \in 1 .. Len(b) : t[j] = b[j])
        /\ \A j \in 1 .. n : t[Len(b) + j] = c[j]
    BY <1>1, Appended DEF Bytes
  <1>5. t \in Bytes /\ DOMAIN b = 1 .. Len(b) /\ DOMAIN t = 1 .. Len(t) /\ b \in Seq(Proc \cup {Newline})
    BY <1>1, Appended DEF Bytes
  <1>6. ASSUME NEW j \in 1 .. Len(LineFor(p, b)) PROVE LineFor(p, b)[j] \in {p, Newline}
    <2>1. LineFor(p, b) \in {<<Newline, p, p, Newline>>, <<p, p, Newline>>}  BY <1>5, LineForIs
    <2>2. CASE LineFor(p, b) = <<Newline, p, p, Newline>>  BY <1>6, <2>2
    <2>3. CASE LineFor(p, b) = <<p, p, Newline>>  BY <1>6, <2>3
    <2> QED  BY <2>1, <2>2, <2>3
  <1>11. Len(LineFor(p, b)) \in Nat  BY LineForBytes
  <1> HIDE DEF t, c
  <1>7. ASSUME NEW i \in DOMAIN t, NEW k \in DOMAIN w, t[i] = w[k]
        PROVE  LineEnds(t, i + 1, w[k]) \/ LineEnds(t, i + 2, w[k])
    <2>1. w[k] \in Proc /\ w[k] # p /\ w[k] # Newline  BY LogAssumption
    <2>2. CASE i \in 1 .. Len(b)
      <3>1. b[i] = w[k] /\ i \in DOMAIN b  BY <1>4, <1>5, <1>7, <2>2
      <3>2. LineEnds(b, i + 1, w[k]) \/ LineEnds(b, i + 2, w[k])  BY <3>1 DEF Shows, Uncut
      <3>3. PICK m \in {i + 1, i + 2} : LineEnds(b, m, w[k])  BY <3>2
      <3>4. m \in Shown(b, w[k])  BY <3>3, <1>4, <1>5, <2>2 DEF Shown, LineEnds
      <3>5. LineEnds(t, m, w[k])  BY <3>4, <1>2 DEF Shown
      <3> QED  BY <3>3, <3>5
    <2>3. CASE i \notin 1 .. Len(b)
      <3>0. i - Len(b) \in 1 .. n /\ i = Len(b) + (i - Len(b))  BY <1>4, <1>5, <2>3
      <3>1. PICK j \in 1 .. n : i = Len(b) + j  BY <3>0
      <3>2. j \in 1 .. Len(LineFor(p, b))  BY <1>11
      <3>3. t[i] \in {p, Newline}  BY <1>1, <1>4, <1>6, <3>1, <3>2
      <3> QED  BY <1>7, <2>1, <3>3
    <2> QED  BY <2>2, <2>3
  <1>8. Uncut(w, t)  BY <1>7 DEF Uncut
  <1>9. InOrder(w, t) /\ Newest(w, t)
    <2>1. InOrder(w, t)  BY <1>2 DEF Shows, InOrder
    <2>2. w # <<>> => Len(w) \in DOMAIN w  OBVIOUS
    <2>3. Newest(w, t)  BY <1>2, <2>2 DEF Shows, Newest
    <2> QED  BY <2>1, <2>3
  <1>10. AllShown(w, b) => AllShown(w, t)  BY <1>2 DEF AllShown
  <1> QED  BY <1>3, <1>8, <1>9, <1>10 DEF Shows, t, c

(* A whole line becomes the newest of the lines shown. *)
LEMMA WholeLine ==
  ASSUME NEW w \in Seq(Proc), NEW b \in Bytes, NEW p \in Proc,
         \A k \in DOMAIN w : w[k] # p, \A i \in DOMAIN b : b[i] # p, Shows(w, b)
  PROVE  LET t == b \o LineFor(p, b)
             v == Append(w, p)
         IN  /\ t \in Bytes /\ LineEnds(t, Len(t), p)
             /\ Shows(v, t)
             /\ AllShown(w, b) => AllShown(v, t)
             /\ LineCount(t) >= LineCount(b)
  <1> DEFINE f == LineFor(p, b)
             t == b \o f
             v == Append(w, p)
             n == Len(f)
  <1>1. f \in Bytes /\ n \in Nat  BY LineForBytes DEF Bytes
  <1>0. n \in 0 .. n  BY <1>1
  <1>2. f = SubSeq(f, 1, n)  BY <1>0, <1>1, PartIs DEF Bytes
  <1>3. Shows(w, t) /\ (AllShown(w, b) => AllShown(w, t)) /\ LineCount(t) >= LineCount(b)
    BY <1>0, <1>2, PartLine
  <1>4. \A k \in DOMAIN w : Shown(t, w[k]) = Shown(b, w[k])  BY <1>0, <1>2, OthersStay
  <1>5. t \in Bytes /\ Len(b) \in Nat /\ Len(t) \in Nat /\ Len(t) = Len(b) + n /\ Len(t) > Len(b) + 2
        /\ LineEnds(t, Len(t), p)
    BY <1>1, LineWritten, Appended DEF Bytes
  <1>6. (\A j \in 1 .. Len(b) : t[j] = b[j]) /\ DOMAIN b = 1 .. Len(b) /\ DOMAIN t = 1 .. Len(t)
    BY <1>1, <1>5, Appended DEF Bytes
  <1>7. p # Newline  BY LogAssumption
  <1>16. Len(t) <= Len(b) + 4
    <2>1. n = 3 \/ n = 4  BY LineForBytes
    <2>2. Len(b) \in Nat /\ Len(t) = Len(b) + n  BY <1>5
    <2> HIDE DEF n
    <2> QED  BY <2>1, <2>2
  <1>8. ASSUME NEW i \in Shown(t, p) PROVE i = Len(t)
    <2>1. i \in 1 .. Len(t) /\ LineEnds(t, i, p) /\ i \in 3 .. Len(t) /\ t[i - 1] = p  BY <1>6 DEF Shown, LineEnds
    <2>2. CASE i <= Len(b)
      <3>1. i - 1 \in 1 .. Len(b)  BY <2>1, <2>2, <1>5
      <3>2. b[i - 1] = p /\ i - 1 \in DOMAIN b  BY <2>1, <3>1, <1>6
      <3> QED  BY <3>2
    <2>3. CASE i > Len(b)
      <3>1. n \in 0 .. Len(LineFor(p, b)) /\ LineEnds(b \o SubSeq(LineFor(p, b), 1, n), i, p)  BY <1>0, <1>2, <2>1
      <3>2. i = Len(b) + n \/ (b # <<>> /\ b[Len(b)] = p)  BY <2>3, <3>1, LineAdded
      <3>3. b # <<>> => Len(b) \in DOMAIN b  BY <1>5 DEF Bytes
      <3> QED  BY <1>5, <3>2, <3>3
    <2> QED  BY <2>1, <2>2, <2>3, <1>5
  <1>9. Len(t) \in Shown(t, p)  BY <1>5, <1>6 DEF Shown
  <1>10. Len(w) \in Nat /\ DOMAIN w = 1 .. Len(w) /\ Len(v) = Len(w) + 1 /\ DOMAIN v = 1 .. Len(w) + 1 /\ v[Len(w) + 1] = p
         /\ (\A k \in 1 .. Len(w) : v[k] = w[k]) /\ v # <<>>
    OBVIOUS
  <1> HIDE DEF t, v, f
  <1>11. ASSUME NEW k \in DOMAIN v, NEW l \in DOMAIN v, NEW i \in Shown(t, v[k]), NEW j \in Shown(t, v[l])
         PROVE  k < l <=> i < j
    <2>1. \A m \in 1 .. Len(w) : \A x \in Shown(t, w[m]) : x \in Nat /\ x < Len(t)
      BY <1>4, <1>5, <1>6, <1>10 DEF Shown
    <2>2. CASE k \in 1 .. Len(w) /\ l \in 1 .. Len(w)
      <3>1. i \in Shown(t, w[k]) /\ j \in Shown(t, w[l])  BY <2>2, <1>10
      <3> QED  BY <2>2, <3>1, <1>3, <1>10 DEF Shows, InOrder
    <2>3. CASE k \in 1 .. Len(w) /\ l = Len(w) + 1
      <3>1. i < Len(t) /\ j = Len(t)  BY <2>1, <2>3, <1>8, <1>10
      <3> QED  BY <2>3, <3>1, <1>10
    <2>4. CASE k = Len(w) + 1 /\ l \in 1 .. Len(w)
      <3>1. j < Len(t) /\ i = Len(t) /\ j \in Nat  BY <2>1, <2>4, <1>8, <1>10
      <3> QED  BY <2>4, <3>1, <1>5, <1>10
    <2>5. CASE k = Len(w) + 1 /\ l = Len(w) + 1
      <3>1. i = Len(t) /\ j = Len(t)  BY <2>5, <1>8, <1>10
      <3> QED  BY <2>5, <3>1, <1>5, <1>10
    <2>6. k \in 1 .. Len(w) \/ k = Len(w) + 1  BY <1>10
    <2>7. l \in 1 .. Len(w) \/ l = Len(w) + 1  BY <1>10
    <2> QED  BY <2>2, <2>3, <2>4, <2>5, <2>6, <2>7
  <1>12. InOrder(v, t)  BY <1>11 DEF InOrder
  <1>13. Newest(v, t)
    <2>1. ASSUME NEW k \in DOMAIN v, NEW l \in DOMAIN v, k < l, Shown(t, v[k]) # {} PROVE Shown(t, v[l]) # {}
      <3>1. k \in 1 .. Len(w)  BY <2>1, <1>10
      <3>2. CASE l \in 1 .. Len(w)  BY <2>1, <3>1, <3>2, <1>3, <1>10 DEF Shows, Newest
      <3>3. CASE l = Len(w) + 1  BY <3>3, <1>9, <1>10
      <3> QED  BY <3>2, <3>3, <1>10
    <2>2. Shown(t, v[Len(v)]) # {}  BY <1>9, <1>10
    <2> QED  BY <2>1, <2>2 DEF Newest
  <1>14. Uncut(v, t)
    <2>1. ASSUME NEW i \in DOMAIN t, NEW k \in DOMAIN v, t[i] = v[k]
          PROVE  LineEnds(t, i + 1, v[k]) \/ LineEnds(t, i + 2, v[k])
      <3>1. CASE k \in 1 .. Len(w)  BY <2>1, <3>1, <1>3, <1>10 DEF Shows, Uncut
      <3>2. CASE k = Len(w) + 1
        <4>1. t[i] = p /\ i \in 1 .. Len(t)  BY <2>1, <3>2, <1>6, <1>10
        <4>2. i > Len(b)  BY <4>1, <1>5, <1>6
        <4>3. t[Len(t)] = Newline /\ i # Len(t)  BY <4>1, <1>7, <1>5 DEF LineEnds
        <4>4. Len(t) <= Len(b) + 4  BY <1>16
        <4>5. i = Len(t) - 1 \/ i = Len(t) - 2 \/ i = Len(t) - 3  BY <1>5, <4>1, <4>2, <4>3, <4>4
        <4>6. i = Len(t) - 3 => t[i] = Newline  BY <1>5, <4>1 DEF LineEnds
        <4> QED  BY <1>5, <1>7, <1>10, <3>2, <4>1, <4>5, <4>6
      <3> QED  BY <3>1, <3>2, <1>10
    <2> QED  BY <2>1 DEF Uncut
  <1>15. AllShown(w, b) => AllShown(v, t)
    <2>1. ASSUME AllShown(w, t), NEW k \in DOMAIN v PROVE Shown(t, v[k]) # {}
      <3>1. CASE k \in 1 .. Len(w)  BY <2>1, <3>1, <1>10 DEF AllShown
      <3>2. CASE k = Len(w) + 1  BY <3>2, <1>9, <1>10
      <3> QED  BY <3>1, <3>2, <1>10
    <2> QED  BY <2>1, <1>3 DEF AllShown
  <1> QED  BY <1>3, <1>5, <1>12, <1>13, <1>14, <1>15 DEF Shows, t, v, f

(* What a rule that drops the start of a file leaves. *)
LEMMA RestIs ==
  ASSUME NEW S, NEW b \in Seq(S), NEW e \in 0 .. Len(b)
  PROVE  /\ Rest(b, e) \in Seq(S) /\ Len(b) \in Nat /\ Len(Rest(b, e)) = Len(b) - e
         /\ \A j \in 1 .. Len(b) - e : Rest(b, e)[j] = b[e + j]
  BY DEF Rest

LEMMA RestOfTwo ==
  ASSUME NEW S, NEW b \in Seq(S), NEW c \in Seq(S)
  PROVE  Rest(b \o c, Len(b)) = c
  <1> DEFINE t == b \o c
             r == Rest(t, Len(b))
  <1>1. t \in Seq(S) /\ Len(b) \in Nat /\ Len(c) \in Nat /\ Len(t) = Len(b) + Len(c)
        /\ \A i \in 1 .. Len(c) : t[Len(b) + i] = c[i]
    BY Appended
  <1>2. Len(b) \in 0 .. Len(t)  BY <1>1
  <1> HIDE DEF t
  <1>3. r \in Seq(S) /\ Len(r) = Len(t) - Len(b) /\ \A j \in 1 .. Len(t) - Len(b) : r[j] = t[Len(b) + j]
    BY <1>1, <1>2, RestIs
  <1> HIDE DEF r
  <1>4. Len(r) = Len(c) /\ \A j \in 1 .. Len(c) : r[j] = c[j]  BY <1>1, <1>3
  <1>5. r = c  BY <1>3, <1>4
  <1> QED  BY <1>5 DEF r, t

(* Cut at a line's end, it shows the lines after the cut, in their places. *)
LEMMA LineMoves ==
  ASSUME NEW b \in Bytes, NEW e \in 0 .. Len(b), e = 0 \/ b[e] = Newline, NEW q \in Proc,
         NEW i \in 1 .. Len(b) - e
  PROVE  LineEnds(Rest(b, e), i, q) <=> LineEnds(b, e + i, q)
  <1> DEFINE r == Rest(b, e)
  <1>1. r \in Bytes /\ Len(b) \in Nat /\ Len(r) = Len(b) - e /\ \A j \in 1 .. Len(b) - e : r[j] = b[e + j]
    BY RestIs DEF Bytes
  <1>2. q # Newline  BY LogAssumption
  <1> HIDE DEF r
  <1>3. ASSUME LineEnds(r, i, q) PROVE LineEnds(b, e + i, q)
    <2>1. i \in 3 .. Len(r) /\ r[i - 2] = q /\ r[i - 1] = q /\ r[i] = Newline  BY <1>3 DEF LineEnds
    <2>2. b[e + i - 2] = q /\ b[e + i - 1] = q /\ b[e + i] = Newline
      <3>1. i - 2 \in 1 .. Len(b) - e /\ i - 1 \in 1 .. Len(b) - e  BY <1>1, <2>1
      <3>2. e + (i - 2) = e + i - 2 /\ e + (i - 1) = e + i - 1  OBVIOUS
      <3> QED  BY <1>1, <2>1, <3>1, <3>2
    <2>3. e + i = 3 \/ b[e + i - 3] = Newline
      <3>1. CASE i = 3  BY <3>1
      <3>2. CASE i # 3
        <4>1. r[i - 3] = Newline  BY <1>3, <3>2 DEF LineEnds
        <4>2. i - 3 \in 1 .. Len(b) - e /\ e + (i - 3) = e + i - 3  BY <1>1, <2>1, <3>2
        <4> QED  BY <1>1, <4>1, <4>2
      <3> QED  BY <3>1, <3>2
    <2>4. e + i \in 3 .. Len(b)  BY <1>1, <2>1
    <2> QED  BY <2>2, <2>3, <2>4 DEF LineEnds
  <1>4. ASSUME LineEnds(b, e + i, q) PROVE LineEnds(r, i, q)
    <2>1. e + i \in 3 .. Len(b) /\ b[e + i - 2] = q /\ b[e + i - 1] = q /\ b[e + i] = Newline
      BY <1>4 DEF LineEnds
    <2>2. i # 1 /\ i # 2
      <3>1. i = 1 => e = e + i - 1 /\ e # 0  BY <2>1
      <3>2. i = 2 => e = e + i - 2 /\ e # 0  BY <2>1
      <3> QED  BY <1>2, <2>1, <3>1, <3>2
    <2>3. i - 2 \in 1 .. Len(b) - e /\ i - 1 \in 1 .. Len(b) - e /\ i \in 3 .. Len(r)  BY <1>1, <2>2
    <2>4. r[i - 2] = q /\ r[i - 1] = q /\ r[i] = Newline
      <3>1. e + (i - 2) = e + i - 2 /\ e + (i - 1) = e + i - 1  OBVIOUS
      <3> QED  BY <1>1, <2>1, <2>3, <3>1
    <2>5. i = 3 \/ r[i - 3] = Newline
      <3>1. CASE i # 3
        <4>1. i - 3 \in 1 .. Len(b) - e /\ e + (i - 3) = e + i - 3 /\ e + i # 3  BY <1>1, <2>3, <3>1
        <4>2. b[e + i - 3] = Newline  BY <1>4, <4>1 DEF LineEnds
        <4> QED  BY <1>1, <4>1, <4>2
      <3> QED  BY <3>1
    <2> QED  BY <2>3, <2>4, <2>5 DEF LineEnds
  <1> QED  BY <1>3, <1>4 DEF r

(* Dropping the start of a text, up to the end of a line that is not the   *)
(* newest, keeps what the text shows in order.                             *)
LEMMA Dropped ==
  ASSUME NEW w \in Seq(Proc), NEW b \in Bytes, NEW e \in 0 .. Len(b), e = 0 \/ b[e] = Newline,
         Shows(w, b), w # <<>>, LineEnds(b, Len(b), w[Len(w)]), e < Len(b)
  PROVE  /\ Rest(b, e) \in Bytes
         /\ LineEnds(Rest(b, e), Len(Rest(b, e)), w[Len(w)])
         /\ Shows(w, Rest(b, e))
  <1> DEFINE r == Rest(b, e)
             d == Len(b) - e
  <1>1. r \in Bytes /\ Len(b) \in Nat /\ Len(r) = d /\ \A j \in 1 .. d : r[j] = b[e + j]
    BY RestIs DEF Bytes
  <1>2. DOMAIN b = 1 .. Len(b) /\ DOMAIN r = 1 .. d  BY <1>1 DEF Bytes
  <1>3. ASSUME NEW q \in Proc, NEW i \in 1 .. d PROVE LineEnds(r, i, q) <=> LineEnds(b, e + i, q)
    BY LineMoves
  <1>4. \A k \in DOMAIN w : w[k] \in Proc  OBVIOUS
  <1>5. Len(w) \in DOMAIN w  OBVIOUS
  <1>6. d \in 1 .. d /\ e + d = Len(b)  BY <1>1
  <1>7. LineEnds(r, d, w[Len(w)])  BY <1>3, <1>4, <1>5, <1>6
  <1> HIDE DEF r
  <1>8. ASSUME NEW k \in DOMAIN w, NEW i \in Shown(r, w[k]) PROVE i \in 1 .. d /\ e + i \in Shown(b, w[k])
    <2>1. i \in 1 .. d /\ LineEnds(r, i, w[k])  BY <1>2 DEF Shown
    <2>2. LineEnds(b, e + i, w[k])  BY <2>1, <1>3, <1>4
    <2>3. e + i \in 1 .. Len(b)  BY <2>1, <1>1
    <2> QED  BY <2>1, <2>2, <2>3, <1>2 DEF Shown
  <1>9. ASSUME NEW k \in DOMAIN w, NEW x \in Shown(b, w[k]), x > e PROVE Shown(r, w[k]) # {}
    <2>1. x \in 1 .. Len(b) /\ LineEnds(b, x, w[k])  BY <1>2 DEF Shown
    <2>2. x - e \in 1 .. d /\ e + (x - e) = x  BY <2>1, <1>9, <1>1
    <2>3. LineEnds(r, x - e, w[k])  BY <2>1, <2>2, <1>3, <1>4
    <2> QED  BY <2>2, <2>3, <1>2 DEF Shown
  <1>10. InOrder(w, r)
    <2>1. ASSUME NEW k \in DOMAIN w, NEW l \in DOMAIN w, NEW i \in Shown(r, w[k]), NEW j \in Shown(r, w[l])
          PROVE  k < l <=> i < j
      <3>1. i \in 1 .. d /\ j \in 1 .. d /\ e + i \in Shown(b, w[k]) /\ e + j \in Shown(b, w[l])  BY <1>8
      <3>2. k < l <=> e + i < e + j  BY <3>1 DEF Shows, InOrder
      <3> QED  BY <3>1, <3>2
    <2> QED  BY <2>1 DEF InOrder
  <1>11. Newest(w, r)
    <2>1. ASSUME NEW k \in DOMAIN w, NEW l \in DOMAIN w, k < l, Shown(r, w[k]) # {} PROVE Shown(r, w[l]) # {}
      <3>1. PICK i : i \in Shown(r, w[k])  BY <2>1
      <3>2. i \in 1 .. d /\ e + i \in Shown(b, w[k])  BY <3>1, <1>8
      <3>3. Shown(b, w[l]) # {}  BY <2>1, <3>2 DEF Shows, Newest
      <3>4. PICK x : x \in Shown(b, w[l])  BY <3>3
      <3>5. e + i < x  BY <2>1, <3>2, <3>4 DEF Shows, InOrder
      <3>6. x \in 1 .. Len(b)  BY <3>4, <1>2 DEF Shown
      <3>7. x > e  BY <3>2, <3>5, <3>6
      <3> QED  BY <3>4, <3>7, <1>9
    <2>2. Shown(r, w[Len(w)]) # {}  BY <1>2, <1>6, <1>7 DEF Shown
    <2> QED  BY <2>1, <2>2 DEF Newest
  <1>12. Uncut(w, r)
    <2>1. ASSUME NEW i \in DOMAIN r, NEW k \in DOMAIN w, r[i] = w[k]
          PROVE  LineEnds(r, i + 1, w[k]) \/ LineEnds(r, i + 2, w[k])
      <3>1. i \in 1 .. d /\ b[e + i] = w[k] /\ e + i \in DOMAIN b  BY <2>1, <1>1, <1>2
      <3>2. LineEnds(b, e + i + 1, w[k]) \/ LineEnds(b, e + i + 2, w[k])  BY <3>1 DEF Shows, Uncut
      <3>3. PICK m \in {i + 1, i + 2} : LineEnds(b, e + m, w[k])  BY <3>1, <3>2
      <3>4. e + m \in 3 .. Len(b)  BY <3>3 DEF LineEnds
      <3>5. m \in 1 .. d  BY <3>1, <3>3, <3>4, <1>1
      <3>6. LineEnds(r, m, w[k])  BY <3>3, <3>5, <1>3, <1>4
      <3> QED  BY <3>3, <3>6
    <2> QED  BY <2>1 DEF Uncut
  <1> QED  BY <1>1, <1>7, <1>10, <1>11, <1>12 DEF Shows, r

(* A set of more than n numbers has one that n of them are greater than.   *)
LEMMA CutExists ==
  ASSUME NEW S, S \subseteq Nat, IsFiniteSet(S), NEW n \in Nat, Cardinality(S) > n
  PROVE  \E e \in S : Cardinality({i \in S : i > e}) = n
  <1> DEFINE Above(e) == {i \in S : i > e}
             W == {Cardinality(Above(e)) : e \in S} \cap {x \in Nat : x >= n}
  <1>1. ASSUME NEW e PROVE IsFiniteSet(Above(e)) /\ Cardinality(Above(e)) \in Nat
    BY FS_Subset, FS_CardinalityType
  <1>2. S # {}  BY FS_EmptySet
  <1>3. Min(S) \in S /\ \A y \in S : Min(S) <= y  BY <1>2, MinIsLeast
  <1>4. Cardinality(Above(Min(S))) \in W
    <2>1. Above(Min(S)) = S \ {Min(S)}
      <3>1. ASSUME NEW i \in S PROVE i > Min(S) <=> i # Min(S)
        <4>1. i \in Nat /\ Min(S) \in Nat /\ Min(S) <= i  BY <1>3
        <4> QED  BY <4>1
      <3>2. \A i : i \in Above(Min(S)) <=> i \in S \ {Min(S)}  BY <3>1
      <3> QED  BY <3>2
    <2>2. Cardinality(S \ {Min(S)}) = Cardinality(S) - 1  BY <1>3, FS_RemoveElement
    <2>3. Cardinality(S) \in Nat  BY FS_CardinalityType
    <2>4. Cardinality(Above(Min(S))) >= n  BY <2>1, <2>2, <2>3
    <2> QED  BY <2>4, <1>1, <1>3
  <1>5. W \subseteq Nat /\ W # {}  BY <1>4
  <1>6. Min(W) \in W /\ \A y \in W : Min(W) <= y  BY <1>5, MinIsLeast
  <1>7. PICK e \in S : Min(W) = Cardinality(Above(e))  BY <1>6
  <1>8. Cardinality(Above(e)) \in Nat /\ Cardinality(Above(e)) >= n  BY <1>6, <1>7
  <1>9. ASSUME Cardinality(Above(e)) # n PROVE FALSE
    <2>1. Cardinality(Above(e)) > n /\ Above(e) # {}  BY <1>8, <1>9, FS_EmptySet
    <2>2. Above(e) \subseteq Nat  OBVIOUS
    <2> DEFINE m == Min(Above(e))
    <2>3. m \in Above(e) /\ \A y \in Above(e) : m <= y
      <3> HIDE DEF Above
      <3> QED  BY <2>1, <2>2, MinIsLeast
    <2> HIDE DEF m
    <2>4. m \in S /\ e < m  BY <2>3
    <2>5. Above(m) = Above(e) \ {m}
      <3>1. ASSUME NEW i \in S PROVE i > m <=> i > e /\ i # m
        <4>1. i \in Nat /\ m \in Nat /\ e \in Nat /\ e < m  BY <2>4
        <4>2. i > e => m <= i  BY <2>3
        <4> QED  BY <4>1, <4>2
      <3>2. \A i : i \in Above(m) <=> i \in Above(e) \ {m}  BY <3>1
      <3> QED  BY <3>2
    <2>6. Cardinality(Above(e) \ {m}) = Cardinality(Above(e)) - 1
      <3>1. IsFiniteSet(Above(e))  BY <1>1
      <3> HIDE DEF Above
      <3> QED  BY <3>1, <2>3, FS_RemoveElement
    <2>7. Cardinality(Above(m)) = Cardinality(Above(e)) - 1  BY <2>5, <2>6
    <2>8. Cardinality(Above(m)) \in W
      <3>1. Cardinality(Above(m)) \in Nat /\ Cardinality(Above(m)) >= n  BY <1>1, <1>8, <2>1, <2>7
      <3> QED  BY <2>4, <3>1
    <2>9. Min(W) <= Cardinality(Above(m))  BY <1>6, <2>8
    <2>10. Cardinality(Above(m)) \in Nat  BY <1>1
    <2> HIDE DEF W, Above
    <2> QED  BY <1>7, <1>8, <2>7, <2>9, <2>10
  <1> QED  BY <1>9

(* The line ends after a cut are those of what is left. *)
LEMMA RestEnds ==
  ASSUME NEW b \in Bytes, NEW e \in 0 .. Len(b)
  PROVE  LineCount(Rest(b, e)) = Cardinality({i \in Ends(b) : i > e})
  <1> DEFINE r == Rest(b, e)
             T == {i \in Ends(b) : i > e}
             f == [i \in T |-> i - e]
  <1>1. r \in Bytes /\ Len(b) \in Nat /\ Len(r) = Len(b) - e /\ \A j \in 1 .. Len(b) - e : r[j] = b[e + j]
    BY RestIs DEF Bytes
  <1>2. DOMAIN b = 1 .. Len(b) /\ DOMAIN r = 1 .. Len(b) - e  BY <1>1 DEF Bytes
  <1>3. IsFiniteSet(T)
    <2>1. T \subseteq Ends(b)  OBVIOUS
    <2> QED  BY <2>1, EndsFinite, FS_Subset
  <1> HIDE DEF r
  <1>4. \A i \in T : i \in 1 .. Len(b) /\ i > e /\ b[i] = Newline  BY <1>2 DEF Ends
  <1>5. \A i \in T : i - e \in Ends(r)
    <2>1. ASSUME NEW i \in T PROVE i - e \in Ends(r)
      <3>1. i - e \in 1 .. Len(b) - e /\ e + (i - e) = i  BY <1>1, <1>4
      <3>2. r[i - e] = Newline  BY <1>1, <1>4, <3>1
      <3> QED  BY <1>2, <3>1, <3>2 DEF Ends
    <2> QED  BY <2>1
  <1>6. \A j \in Ends(r) : e + j \in T 
    <2>1. ASSUME NEW j \in Ends(r) PROVE e + j \in T
      <3>1. j \in 1 .. Len(b) - e /\ r[j] = Newline  BY <1>2 DEF Ends
      <3>2. b[e + j] = Newline /\ e + j \in 1 .. Len(b) /\ e + j > e  BY <1>1, <3>1
      <3> QED  BY <1>2, <3>1, <3>2 DEF Ends
    <2> QED  BY <2>1
  <1> HIDE DEF T
  <1>7. f \in Bijection(T, Ends(r))
    <2>1. f \in [T -> Ends(r)]  BY <1>5
    <2>2. \A x, y \in T : f[x] = f[y] => x = y  BY <1>4
    <2>3. \A j \in Ends(r) : \E x \in T : f[x] = j
      <3>1. ASSUME NEW j \in Ends(r) PROVE \E x \in T : f[x] = j
        <4>1. e + j \in T   BY <1>6
        <4>3. \A x \in T : f[x] = x - e  OBVIOUS
        <4> HIDE DEF f
        <4>2. PICK x \in T : x = e + j  BY <4>1
        <4>5. e \in Nat /\ j \in Nat  BY <1>1, <1>2 DEF Ends
        <4>4. x - e = j  BY <4>2, <4>5
        <4> QED  BY <4>2, <4>3, <4>4
      <3> QED  BY <3>1
    <2>4. f \in Injection(T, Ends(r))  BY <2>1, <2>2 DEF Injection, IsInjective
    <2>5. f \in Surjection(T, Ends(r))  BY <2>1, <2>3 DEF Surjection
    <2> QED  BY <2>4, <2>5 DEF Bijection
  <1>8. ExistsBijection(T, Ends(r))  BY <1>7 DEF ExistsBijection
  <1>9. Cardinality(Ends(r)) = Cardinality(T)  BY <1>3, <1>8, FS_Bijection
  <1> QED  BY <1>9 DEF LineCount, r, T

(* A trim leaves the newest Keep lines: they are whole, and in order.      *)
LEMMA TrimKeeps ==
  ASSUME NEW w \in Seq(Proc), NEW b \in Bytes, log \in Logs, Method = "line-count", LineCount(b) > Limit,
         Shows(w, b), w # <<>>, LineEnds(b, Len(b), w[Len(w)])
  PROVE  /\ KeptLines(b) \in Bytes /\ Shows(w, KeptLines(b)) /\ LineCount(KeptLines(b)) >= Keep
         /\ \E e \in 0 .. Len(b) : KeptLines(b) = Rest(b, e)
  <1> DEFINE Cut(e) == e \in Ends(b) /\ Cardinality({i \in Ends(b) : i > e}) = Keep
             e == CHOOSE x \in Ends(b) : Cardinality({i \in Ends(b) : i > x}) = Keep
  <1>1. Keep \in Nat /\ Keep # 0 /\ Limit \in Nat /\ Keep <= Limit
    BY LogAssumption DEF LogKind, Keep, Limit, Method
  <1>2. IsFiniteSet(Ends(b)) /\ Ends(b) \subseteq 1 .. Len(b) /\ Len(b) \in Nat /\ Cardinality(Ends(b)) \in Nat
    BY EndsFinite DEF LineCount
  <1>3. Cardinality(Ends(b)) > Keep  BY <1>1, <1>2 DEF LineCount
  <1>4. Ends(b) \subseteq Nat  BY <1>2
  <1>5. \E x \in Ends(b) : Cardinality({i \in Ends(b) : i > x}) = Keep  BY <1>1, <1>2, <1>3, <1>4, CutExists
  <1>6. e \in Ends(b) /\ Cardinality({i \in Ends(b) : i > e}) = Keep  BY <1>5
  <1>7. KeptLines(b) = Rest(b, e)  BY DEF KeptLines
  <1> HIDE DEF e
  <1>8. e \in 0 .. Len(b) /\ b[e] = Newline  BY <1>2, <1>6 DEF Ends
  <1>9. e < Len(b)
    <2>1. {i \in Ends(b) : i > e} # {}  BY <1>1, <1>6, FS_EmptySet
    <2> QED  BY <1>2, <1>8, <2>1
  <1>10. Rest(b, e) \in Bytes /\ Shows(w, Rest(b, e))  BY <1>8, <1>9, Dropped
  <1>11. LineCount(Rest(b, e)) = Keep  BY <1>6, <1>8, RestEnds
  <1> QED  BY <1>1, <1>7, <1>8, <1>10, <1>11

(* So does a tail: it holds the newest line, and ends where that one does. *)
LEMMA TailKeeps ==
  ASSUME NEW w \in Seq(Proc), NEW b \in Bytes, log \in Logs, Method = "size-rotation", Len(b) > 2 * Limit,
         Shows(w, b), w # <<>>, LineEnds(b, Len(b), w[Len(w)])
  PROVE  /\ NewestLines(b) \in Bytes /\ Shows(w, NewestLines(b))
         /\ LineEnds(NewestLines(b), Len(NewestLines(b)), w[Len(w)])
         /\ \E e \in 0 .. Len(b) : NewestLines(b) = Rest(b, e)
  <1> DEFINE ends == {i \in Ends(b) : i >= Len(b) - Limit}
             e == Min(ends)
  <1>1. Limit \in Nat /\ Limit >= 3  BY LogAssumption DEF LogKind, Limit, Method
  <1>2. Ends(b) \subseteq 1 .. Len(b) /\ Len(b) \in Nat  BY EndsFinite
  <1>3. Len(b) # 3
    <2>1. \A x, y \in Nat : x > 2 * y /\ y >= 3 => x # 3  OBVIOUS
    <2> QED  BY <1>1, <1>2, <2>1
  <1>4. b[Len(b) - 3] = Newline  BY <1>3 DEF LineEnds
  <1>5. Len(b) - 3 \in ends
    <2>1. Len(b) - 3 \in 1 .. Len(b) /\ Len(b) - 3 >= Len(b) - Limit  BY <1>1, <1>2
    <2>2. Len(b) - 3 \in DOMAIN b  BY <2>1 DEF Bytes
    <2> QED  BY <1>4, <2>1, <2>2 DEF Ends
  <1>6. ends \subseteq Nat /\ ends # {}  BY <1>2, <1>5
  <1> HIDE DEF ends
  <1>7. e \in ends /\ \A y \in ends : e <= y  BY <1>6, MinIsLeast
  <1>8. NewestLines(b) = Rest(b, e)  BY <1>6 DEF NewestLines, ends
  <1> HIDE DEF e
  <1>9. e \in 0 .. Len(b) /\ b[e] = Newline  BY <1>2, <1>7 DEF Ends, ends
  <1>10. e < Len(b)  BY <1>2, <1>5, <1>7, <1>9
  <1> QED  BY <1>8, <1>9, <1>10, Dropped

(* The places where a call has written nothing yet, and the calls past them. *)
Unwritten == {"start", "open", "wait", "check", "append", "write"}
Past == {p \in Proc : pc[p] \notin Unwritten}
PastOnly(b) == \A i \in DOMAIN b : b[i] \in Past \cup {Newline}

(* Nothing went wrong but cut lines. *)
Undisturbed == CanLock /\ faults \subseteq {"short"}

FilesOK ==
  /\ log \in Logs /\ made \in 0 .. MaxInode
  /\ data \in [Inode -> Bytes] /\ \A i \in Inode : i > made => data[i] = <<>>
  /\ path \in (1 .. made) \cup {NoFile} /\ previous \in (1 .. made) \cup {NoFile}
  /\ path = previous => path = NoFile
  /\ Method # "size-rotation" => previous = NoFile
  /\ Closed(BytesAt(previous))
  /\ out \in [Proc -> [inode : Inode \cup {NoFile}, bytes : Bytes, size : Nat]]

(* Bytes and lines are those of calls that wrote. *)
OwnersOK ==
  /\ written \in Seq(Proc) /\ \A k \in DOMAIN written : written[k] \in Past
  /\ \A i \in Inode : PastOnly(data[i])

EndsWithNewest(b) == written # <<>> /\ LineEnds(b, Len(b), written[Len(written)])

WriterOK(p) ==
  /\ pc[p] \notin {"unlocked", "late"}
  /\ pc[p] = "write" => out[p].inode = path /\ out[p].bytes = LineFor(p, data[path])
  /\ pc[p] \in {"truncate", "rewrite"} => Method = "line-count"
  /\ pc[p] \in {"replace", "tail", "unlink"} => Method = "size-rotation"
  /\ pc[p] \in {"rule", "truncate", "replace", "tail"} => EndsWithNewest(data[path])
  /\ pc[p] = "tail" => Len(data[path]) > 2 * Limit
  /\ pc[p] \in {"truncate", "rewrite"} =>
       PastOnly(out[p].bytes) /\ Shows(written, out[p].bytes) /\ LineCount(out[p].bytes) >= Keep
  /\ pc[p] = "rewrite" => out[p].inode = path /\ data[path] = <<>>
  /\ pc[p] = "unlink" => Shows(written, BytesAt(previous))

TextOK == Settled =>
  /\ Shows(written, Text)
  /\ Method = "line-count" => LineCount(Text) >= Keep \/ AllShown(written, Text)

NewestInv == Undisturbed => FilesOK /\ OwnersOK /\ (\A p \in Proc : WriterOK(p)) /\ TextOK

(* What the steps start from. *)
Going == LockInv /\ Undisturbed /\ FilesOK /\ OwnersOK /\ (\A p \in Proc : WriterOK(p)) /\ TextOK

(* The file of a call past the recheck, which is alone. *)
LEMMA Alone ==
  ASSUME Going, NEW p \in Proc, pc[p] \in Critical
  PROVE  /\ path \in Inode /\ path \in 1 .. made /\ path # NoFile /\ data[path] \in Bytes
         /\ \A q \in Proc \ {p} : pc[q] \notin Critical
  <1>1. Locked(p)  BY DEF Going, Undisturbed, LockInv
  <1>2. path \in Inode /\ path # NoFile  BY <1>1, InodeBound DEF Locked
  <1>3. \A q \in Proc \ {p} : pc[q] \notin Critical
    <2>1. ASSUME NEW q \in Proc, q # p, pc[q] \in Critical PROVE FALSE
      <3>1. Locked(q)  BY <2>1 DEF Going, Undisturbed, LockInv
      <3> QED  BY <1>1, <2>1, <3>1 DEF Locked
    <2> QED  BY <2>1
  <1> QED  BY <1>2, <1>3 DEF Going, FilesOK

(* A step of p leaves what the others rely on. *)
LEMMA OthersOK ==
  ASSUME Going, log' = log, NEW p \in Proc, NEW to, Goto(p, to), Past \subseteq Past',
         \A q \in Proc \ {p} : out'[q] = out[q],
         pc[p] \in Critical \/ (UNCHANGED <<data, previous, written>> /\ (path # NoFile => path' = path))
  PROVE  \A q \in Proc \ {p} : WriterOK(q)'
  <1> SUFFICES ASSUME NEW q \in Proc \ {p} PROVE WriterOK(q)'  OBVIOUS
  <1>1. pc'[q] = pc[q] /\ out'[q] = out[q]  BY DEF Goto, Going, LockInv, PlacesOK
  <1>2. WriterOK(q) /\ q \in Proc  BY DEF Going
  <1>3. CASE pc[q] \notin Critical
    <2>1. pc[q] \notin {"write", "truncate", "rewrite", "replace", "tail", "unlink", "rule"}  BY <1>3 DEF Critical
    <2> QED  BY <1>1, <1>2, <2>1 DEF WriterOK
  <1>4. CASE pc[q] \in Critical
    <2>1. path # NoFile /\ pc[p] \notin Critical  BY <1>2, <1>4, Alone
    <2>2. UNCHANGED <<data, previous, written, path>>  BY <2>1
    <2>3. \A b : PastOnly(b) => PastOnly(b)'
      <3>1. ASSUME NEW b, PastOnly(b) PROVE \A i \in DOMAIN b : b[i] \in Past' \cup {Newline}
        BY <3>1 DEF PastOnly
      <3> QED  BY <3>1 DEF PastOnly
    <2>4. UNCHANGED <<Method, Limit, Keep>>  BY DEF Method, Limit, Keep
    <2>5. PastOnly(out[q].bytes) => PastOnly(out[q].bytes)'
      <3>1. PastOnly(out[q].bytes)' <=> \A i \in DOMAIN out[q].bytes : out[q].bytes[i] \in Past' \cup {Newline}
        BY <1>1 DEF PastOnly
      <3> QED  BY <3>1 DEF PastOnly
    <2>6. EndsWithNewest(data[path])' <=> EndsWithNewest(data[path])  BY <2>2 DEF EndsWithNewest
    <2>7. BytesAt(previous)' = BytesAt(previous)  BY <2>2 DEF BytesAt
    <2> QED  BY <1>1, <1>2, <2>2, <2>4, <2>5, <2>6, <2>7 DEF WriterOK
  <1> QED  BY <1>3, <1>4

(* A call goes on: those that wrote stay the same, or it joins them.       *)
LEMMA PastGrows ==
  ASSUME Going, NEW p \in Proc, NEW to, Goto(p, to), to \in Unwritten => pc[p] \in Unwritten
  PROVE  Past \subseteq Past'
  <1>1. \A q \in Proc : pc'[q] = IF q = p THEN to ELSE pc[q]  BY DEF Goto, Going, LockInv, PlacesOK
  <1> QED  BY <1>1 DEF Past

(* Steps that leave the text, and what is written, as they are.            *)
LEMMA TextStays ==
  ASSUME Going, log' = log, UNCHANGED <<Text, written>>, Settled' => Settled
  PROVE  TextOK'
  <1>1. UNCHANGED <<Method, Keep>>  BY DEF Method, Keep
  <1>2. TextOK  BY DEF Going
  <1>3. LineCount(Text)' = LineCount(Text)  BY DEF LineCount, Ends
  <1> QED  BY <1>1, <1>2, <1>3 DEF TextOK

LEMMA StaysSettled ==
  ASSUME Going, NEW p \in Proc, NEW to, Goto(p, to), pc[p] \notin {"rewrite", "unlink"}
  PROVE  Settled' => Settled
  <1>1. \A q \in Proc : pc'[q] = IF q = p THEN to ELSE pc[q]  BY DEF Goto, Going, LockInv, PlacesOK
  <1> QED  BY <1>1 DEF Settled

LEMMA OwnersStay ==
  ASSUME Going, Past \subseteq Past', UNCHANGED <<data, written>>
  PROVE  OwnersOK'
  BY DEF Going, OwnersOK, PastOnly

(* A call with the lock sees a settled log, unless it is between two       *)
(* halves itself.                                                          *)
LEMMA AloneSettled ==
  ASSUME Going, NEW p \in Proc, pc[p] \in Critical \ {"rewrite", "unlink"}
  PROVE  Settled
  BY Alone DEF Settled, Critical

(* Steps between the system calls that touch the files.                    *)
LEMMA FilesStay ==
  ASSUME Going, log' = log, NEW p \in Proc, NEW to, Goto(p, to), UNCHANGED <<files, written>>,
         out' \in [Proc -> [inode : Inode \cup {NoFile}, bytes : Bytes, size : Nat]],
         \A q \in Proc \ {p} : out'[q] = out[q],
         to \in Unwritten => pc[p] \in Unwritten, pc[p] \notin {"rewrite", "unlink"},
         WriterOK(p)'
  PROVE  NewestInv'
  <1>1. Past \subseteq Past'  BY PastGrows
  <1>2. UNCHANGED <<data, previous, path, made>>  BY DEF files
  <1>3. \A q \in Proc : WriterOK(q)'  BY <1>1, <1>2, OthersOK
  <1>4. OwnersOK'  BY <1>1, <1>2, OwnersStay
  <1>5. BytesAt(previous)' = BytesAt(previous) /\ Text' = Text  BY <1>2 DEF BytesAt, Text
  <1>6. TextOK'  BY <1>5, StaysSettled, TextStays
  <1>7. FilesOK'
    <2>1. UNCHANGED Method  BY DEF Method
    <2> QED  BY <1>2, <1>5, <2>1 DEF Going, FilesOK, Closed
  <1> QED  BY <1>3, <1>4, <1>6, <1>7 DEF NewestInv

Outs == [Proc -> [inode : Inode \cup {NoFile}, bytes : Bytes, size : Nat]]

LEMMA NothingIs == Nothing \in [inode : Inode \cup {NoFile}, bytes : Bytes, size : Nat]
  <1>1. <<>> \in Bytes  BY DEF Bytes
  <1> QED  BY <1>1 DEF Nothing

(* The place a step takes p to. *)
LEMMA NowAt ==
  ASSUME Going, NEW p \in Proc, NEW to, Goto(p, to)
  PROVE  pc'[p] = to /\ \A q \in Proc \ {p} : pc'[q] = pc[q]
  BY DEF Goto, Going, LockInv, PlacesOK

(* An append to the log is one to the text: the previous file is closed.   *)
LEMMA SameLine ==
  ASSUME NEW a \in Bytes, NEW b \in Bytes, Closed(a), NEW p
  PROVE  LineFor(p, a \o b) = LineFor(p, b)
  <1> DEFINE t == a \o b
  <1>1. a \in Seq(Proc \cup {Newline}) /\ b \in Seq(Proc \cup {Newline})  BY DEF Bytes
  <1>2. t \in Seq(Proc \cup {Newline}) /\ Len(a) \in Nat /\ Len(b) \in Nat /\ Len(t) = Len(a) + Len(b)
        /\ (\A i \in 1 .. Len(a) : t[i] = a[i]) /\ \A i \in 1 .. Len(b) : t[Len(a) + i] = b[i]
    BY <1>1, Appended
  <1> HIDE DEF t
  <1>3. CASE b = <<>>
    <2>1. Len(b) = 0  BY <1>3
    <2>2. t = <<>> \/ t[Len(t)] = Newline
      <3>1. CASE a = <<>>
        <4>1. Len(t) = 0  BY <1>2, <2>1, <3>1
        <4> QED  BY <1>2, <4>1, EmptySeq
      <3>2. CASE a # <<>>
        <4>1. Len(a) \in 1 .. Len(a) /\ Len(t) = Len(a)  BY <1>1, <1>2, <2>1, <3>2
        <4> QED  BY <1>2, <3>2, <4>1 DEF Closed
      <3> QED  BY <3>1, <3>2
    <2> QED  BY <1>1, <1>2, <1>3, <2>2 DEF LineFor, Last, t
  <1>4. CASE b # <<>>
    <2>1. Len(b) \in 1 .. Len(b)  BY <1>1, <1>2, <1>4
    <2>2. t[Len(t)] = b[Len(b)] /\ Len(t) # 0  BY <1>2, <2>1
    <2>3. t # <<>>  BY <2>2
    <2> QED  BY <1>4, <2>2, <2>3 DEF LineFor, Last, t
  <1> QED  BY <1>3, <1>4

(* The steps of the lock, and those that end a call. *)
LEMMA StartKeeps ==
  ASSUME Going, log' = log, NEW p \in Proc, Start(p) \/ Lock(p) \/ Recheck(p) \/ Leave(p)
  PROVE  NewestInv'
  <1>1. UNCHANGED <<files, written>>  BY DEF Start, Lock, Recheck, Leave
  <1>2. out' \in Outs /\ \A q \in Proc \ {p} : out'[q] = out[q]
    BY NothingIs DEF Going, FilesOK, Start, Lock, Recheck, Leave, Close, Outs
  <1>3. CanLock  BY DEF Going, Undisturbed
  <1>4. PICK to \in {"open", "check", "append", "done"} :
          Goto(p, to) /\ pc[p] \notin {"rewrite", "unlink"} /\ (to # "done" => pc[p] \in Unwritten)
    BY <1>3 DEF Start, Lock, Recheck, Leave, Unwritten
  <1>5. pc'[p] = to  BY <1>4, NowAt
  <1>6. WriterOK(p)'
    <2>1. pc'[p] \in {"open", "check", "append", "done"}  BY <1>5
    <2> QED  BY <2>1 DEF WriterOK
  <1>7. to \in Unwritten => pc[p] \in Unwritten  BY <1>4 DEF Unwritten
  <1> QED  BY <1>1, <1>2, <1>4, <1>6, <1>7, FilesStay DEF Outs

(* An open that creates the log gives it no bytes. *)
LEMMA OpenToLockKeeps ==
  ASSUME Going, log' = log, NEW p \in Proc, OpenToLock(p)
  PROVE  NewestInv'
  <1>1. UNCHANGED <<data, previous, out, written>> /\ Goto(p, "wait") /\ pc[p] = "open"  BY DEF OpenToLock
  <1>2. FilesOK /\ MaxInode \in Nat  BY InodeBound DEF Going
  <1>3. /\ made' \in 0 .. MaxInode /\ made <= made' /\ path' \in 1 .. made' /\ path' \in Inode
        /\ path # NoFile => path' = path
        /\ path = NoFile => data[path'] = <<>> /\ path' # previous
    <2>1. CASE path = NoFile
      <3>1. made < MaxInode /\ made' = made + 1 /\ path' = made + 1  BY <2>1 DEF OpenToLock, OpenOrCreate
      <3>2. path' \in Inode /\ path' > made  BY <1>2, <3>1 DEF FilesOK, Inode
      <3>3. data[path'] = <<>>  BY <1>2, <3>2 DEF FilesOK
      <3>4. previous \in 1 .. made \/ previous = NoFile  BY <1>2 DEF FilesOK
      <3>5. path' # NoFile  BY <3>2, InodeBound
      <3>6. path' # previous  BY <1>2, <3>1, <3>4, <3>5 DEF FilesOK
      <3> QED  BY <1>2, <2>1, <3>1, <3>2, <3>3, <3>6 DEF FilesOK
    <2>2. CASE path # NoFile
      <3>1. UNCHANGED <<made, path>> /\ path \in 1 .. made  BY <1>2, <2>2 DEF OpenToLock, OpenOrCreate, FilesOK
      <3> QED  BY <1>2, <2>2, <3>1 DEF FilesOK, Inode
    <2> QED  BY <2>1, <2>2
  <1>4. pc'[p] = "wait"  BY <1>1, NowAt
  <1>5. Past \subseteq Past'
    <2>1. "wait" \in Unwritten => pc[p] \in Unwritten  BY <1>1 DEF Unwritten
    <2> QED  BY <1>1, <2>1, PastGrows
  <1>6. \A q \in Proc : WriterOK(q)'
    <2>1. \A q \in Proc \ {p} : WriterOK(q)'  BY <1>1, <1>3, <1>5, OthersOK
    <2>2. WriterOK(p)'  BY <1>4 DEF WriterOK
    <2> QED  BY <2>1, <2>2
  <1>7. OwnersOK'  BY <1>1, <1>5, OwnersStay
  <1>8. BytesAt(previous)' = BytesAt(previous) /\ BytesAt(path)' = BytesAt(path)
    BY <1>1, <1>3, InodeBound DEF BytesAt
  <1>9. TextOK'
    <2>1. Text' = Text  BY <1>8 DEF Text
    <2>2. Settled' => Settled  BY <1>1, StaysSettled
    <2> QED  BY <1>1, <2>1, <2>2, TextStays
  <1>10. FilesOK'
    <2>1. UNCHANGED Method  BY DEF Method
    <2>2. previous' \in (1 .. made') \cup {NoFile}  BY <1>1, <1>2, <1>3 DEF FilesOK
    <2>3. \A i \in Inode : i > made' => data'[i] = <<>>  BY <1>1, <1>2, <1>3 DEF FilesOK, Inode
    <2>4. path' # previous'
      <3>1. path # NoFile => path # previous  BY <1>2 DEF FilesOK
      <3> QED  BY <1>1, <1>3, <3>1
    <2> QED  BY <1>1, <1>2, <1>3, <1>8, <2>1, <2>2, <2>3, <2>4 DEF FilesOK, Closed
  <1> QED  BY <1>6, <1>7, <1>9, <1>10 DEF NewestInv

(* A locked call opens the log it locked. *)
LEMMA OpenToAppendKeeps ==
  ASSUME Going, log' = log, NEW p \in Proc, OpenToAppend(p)
  PROVE  NewestInv'
  <1>1. WriterOK(p)  BY DEF Going
  <1>2. pc[p] = "append"  BY <1>1 DEF OpenToAppend, WriterOK
  <1>3. pc[p] \in Critical  BY <1>2 DEF Critical
  <1>4. path \in Inode /\ path # NoFile /\ data[path] \in Bytes  BY <1>3, Alone
  <1>5. UNCHANGED <<files, written>>  BY <1>4 DEF OpenToAppend, OpenOrCreate, files
  <1>6. path' = path /\ Goto(p, "write")  BY <1>2, <1>5 DEF OpenToAppend, files
  <1> DEFINE r == [inode |-> path, bytes |-> LineFor(p, data[path]), size |-> Len(data[path])]
  <1>7. out' = [out EXCEPT ![p] = r]  BY <1>6 DEF OpenToAppend
  <1>8. r \in [inode : Inode \cup {NoFile}, bytes : Bytes, size : Nat]
    <2>1. Len(data[path]) \in Nat  BY <1>4 DEF Bytes
    <2>2. LineFor(p, data[path]) \in Bytes  BY <1>4, LineForBytes
    <2> QED  BY <1>4, <2>1, <2>2
  <1>9. out \in Outs  BY DEF Going, FilesOK, Outs
  <1>10. out' \in Outs /\ out'[p] = r /\ \A q \in Proc \ {p} : out'[q] = out[q]
    <2> HIDE DEF r
    <2> QED  BY <1>7, <1>8, <1>9 DEF Outs
  <1>11. pc'[p] = "write"  BY <1>6, NowAt
  <1>12. WriterOK(p)'
    <2>1. data' = data  BY <1>5 DEF files
    <2>2. out'[p].inode = path' /\ out'[p].bytes = LineFor(p, data'[path'])  BY <1>6, <1>10, <2>1
    <2> QED  BY <1>11, <2>2 DEF WriterOK
  <1>13. "write" \in Unwritten => pc[p] \in Unwritten  BY <1>2 DEF Unwritten
  <1> QED  BY <1>2, <1>5, <1>6, <1>10, <1>12, <1>13, FilesStay DEF Outs

(* The text is the previous file and the log. *)
LEMMA TextIs ==
  ASSUME Going, path # NoFile
  PROVE  /\ Text = BytesAt(previous) \o data[path]
         /\ BytesAt(previous) \in Bytes /\ Closed(BytesAt(previous)) /\ Text \in Bytes
  <1>1. FilesOK  BY DEF Going
  <1>2. MaxInode \in Nat /\ made \in 0 .. MaxInode  BY <1>1, InodeBound DEF FilesOK
  <1>3. 1 .. made \subseteq Inode  BY <1>2 DEF Inode
  <1>4. <<>> \in Bytes  BY DEF Bytes
  <1>5. BytesAt(previous) \in Bytes  BY <1>1, <1>3, <1>4 DEF FilesOK, BytesAt
  <1>6. data[path] \in Bytes  BY <1>1, <1>3 DEF FilesOK
  <1>7. Text = BytesAt(previous) \o data[path]  BY DEF Text, BytesAt
  <1>8. Text \in Bytes  BY <1>5, <1>6, <1>7, Appended DEF Bytes
  <1> QED  BY <1>1, <1>5, <1>7, <1>8 DEF FilesOK

(* A call that has written nothing has no byte in the text. *)
LEMMA NoBytesYet ==
  ASSUME Going, path # NoFile, NEW p \in Proc, pc[p] \in Unwritten
  PROVE  (\A k \in DOMAIN written : written[k] # p) /\ \A i \in DOMAIN Text : Text[i] # p
  <1>1. OwnersOK /\ FilesOK  BY DEF Going
  <1>2. p \notin Past /\ p # Newline  BY LogAssumption DEF Past
  <1>3. \A k \in DOMAIN written : written[k] # p  BY <1>1, <1>2 DEF OwnersOK
  <1> DEFINE a == BytesAt(previous)
             b == data[path]
  <1>4. Text = a \o b /\ a \in Bytes /\ b \in Bytes
    <2>1. MaxInode \in Nat /\ made \in 0 .. MaxInode  BY <1>1, InodeBound DEF FilesOK
    <2>2. path \in Inode  BY <1>1, <2>1 DEF FilesOK, Inode
    <2> QED  BY <1>1, <2>2, TextIs DEF FilesOK
  <1>5. PastOnly(a) /\ PastOnly(b)
    <2>1. MaxInode \in Nat /\ made \in 0 .. MaxInode  BY <1>1, InodeBound DEF FilesOK
    <2>2. path \in Inode /\ (previous = NoFile \/ previous \in Inode)  BY <1>1, <2>1 DEF FilesOK, Inode
    <2>3. PastOnly(<<>>)  BY DEF PastOnly
    <2> QED  BY <1>1, <2>2, <2>3 DEF OwnersOK, BytesAt
  <1> HIDE DEF a, b
  <1>6. /\ Len(a) \in Nat /\ Len(b) \in Nat /\ Len(Text) = Len(a) + Len(b) /\ DOMAIN Text = 1 .. Len(Text)
        /\ DOMAIN a = 1 .. Len(a) /\ DOMAIN b = 1 .. Len(b)
        /\ (\A i \in 1 .. Len(a) : Text[i] = a[i]) /\ \A i \in 1 .. Len(b) : Text[Len(a) + i] = b[i]
    <2>1. a \in Seq(Proc \cup {Newline}) /\ b \in Seq(Proc \cup {Newline})  BY <1>4 DEF Bytes
    <2>2. a \o b \in Seq(Proc \cup {Newline})  BY <2>1, Appended
    <2> QED  BY <1>4, <2>1, <2>2, Appended
  <1>7. ASSUME NEW i \in DOMAIN Text PROVE Text[i] \in Past \cup {Newline}
    <2>1. CASE i <= Len(a)
      <3>1. i \in 1 .. Len(a)  BY <2>1, <1>6
      <3> QED  BY <3>1, <1>5, <1>6 DEF PastOnly
    <2>2. CASE i > Len(a)
      <3>1. i - Len(a) \in 1 .. Len(b) /\ Len(a) + (i - Len(a)) = i  BY <2>2, <1>6
      <3>2. Text[i] = b[i - Len(a)]  BY <3>1, <1>6
      <3>3. b[i - Len(a)] \in Past \cup {Newline}  BY <3>1, <1>5, <1>6 DEF PastOnly
      <3> QED  BY <3>2, <3>3
    <2> QED  BY <2>1, <2>2, <1>6
  <1> QED  BY <1>2, <1>3, <1>7

(* What an append of a call's line, or a part of it, adds to the bytes.    *)
LEMMA AppendedOwners ==
  ASSUME Going, NEW p \in Proc, pc[p] = "write", NEW to, Goto(p, to), to \notin Unwritten,
         NEW c \in Bytes, \A j \in DOMAIN c : c[j] \in {p, Newline}, WriteAt(p, c), UNCHANGED <<made, path, previous, out>>,
         log' = log
  PROVE  /\ Past \subseteq Past' /\ p \in Past'
         /\ \A i \in Inode : PastOnly(data[i])'
         /\ FilesOK'
         /\ data'[path] = data[path] \o c
         /\ Text' = Text \o c
  <1>1. pc[p] \in Critical  BY DEF Critical
  <1>2. path \in Inode /\ path \in 1 .. made /\ path # NoFile /\ data[path] \in Bytes  BY <1>1, Alone
  <1>3. out[p].inode = path  BY DEF Going, WriterOK
  <1>4. FilesOK /\ OwnersOK  BY DEF Going
  <1>5. data' = [data EXCEPT ![path] = data[path] \o c]  BY <1>3 DEF WriteAt
  <1>6. data[path] \o c \in Bytes  BY <1>2, Appended DEF Bytes
  <1>7. data' \in [Inode -> Bytes] /\ data'[path] = data[path] \o c /\ \A i \in Inode \ {path} : data'[i] = data[i]
    BY <1>2, <1>4, <1>5, <1>6 DEF FilesOK
  <1>8. pc'[p] = to /\ \A q \in Proc \ {p} : pc'[q] = pc[q]  BY NowAt
  <1>9. Past \subseteq Past'  BY PastGrows
  <1>10. p \in Past'  BY <1>8 DEF Past
  <1>11. ASSUME NEW i \in Inode PROVE PastOnly(data[i])'
    <2>1. CASE i = path
      <3> DEFINE b == data[path]
                 t == b \o c
      <3>1. Len(b) \in Nat /\ Len(c) \in Nat /\ Len(t) = Len(b) + Len(c) /\ DOMAIN t = 1 .. Len(t)
            /\ DOMAIN b = 1 .. Len(b) /\ DOMAIN c = 1 .. Len(c)
            /\ (\A j \in 1 .. Len(b) : t[j] = b[j]) /\ \A j \in 1 .. Len(c) : t[Len(b) + j] = c[j]
        <4>1. b \in Seq(Proc \cup {Newline}) /\ c \in Seq(Proc \cup {Newline})  BY <1>2 DEF Bytes
        <4>2. t \in Seq(Proc \cup {Newline})  BY <4>1, Appended
        <4> QED  BY <4>1, <4>2, Appended
      <3>2. PastOnly(b)  BY <1>2, <1>4 DEF OwnersOK
      <3> HIDE DEF b, t
      <3>3. ASSUME NEW j \in DOMAIN t PROVE t[j] \in Past' \cup {Newline}
        <4>1. CASE j <= Len(b)
          <5>1. j \in DOMAIN b /\ t[j] = b[j]  BY <3>1, <4>1
          <5> QED  BY <5>1, <3>2, <1>9 DEF PastOnly
        <4>2. CASE j > Len(b)
          <5>1. j - Len(b) \in 1 .. Len(c) /\ Len(b) + (j - Len(b)) = j  BY <4>2, <3>1
          <5>2. t[j] = c[j - Len(b)] /\ j - Len(b) \in DOMAIN c  BY <5>1, <3>1
          <5> QED  BY <5>2, <1>10
        <4> QED  BY <4>1, <4>2, <3>1
      <3>4. data'[i] = t  BY <2>1, <1>7 DEF t, b
      <3> QED  BY <3>3, <3>4 DEF PastOnly
    <2>2. CASE i # path
      <3>1. data'[i] = data[i] /\ PastOnly(data[i])  BY <2>2, <1>4, <1>7 DEF OwnersOK
      <3> QED  BY <3>1, <1>9 DEF PastOnly
    <2> QED  BY <2>1, <2>2
  <1>12. previous' = previous /\ previous # path /\ (previous # NoFile => previous \in Inode)
    <2>1. previous = NoFile \/ previous \in 1 .. made  BY <1>4 DEF FilesOK
    <2>2. MaxInode \in Nat /\ made \in 0 .. MaxInode  BY <1>4, InodeBound DEF FilesOK
    <2> QED  BY <1>2, <1>4, <2>1, <2>2 DEF FilesOK, Inode
  <1>13. BytesAt(previous)' = BytesAt(previous)  BY <1>7, <1>12 DEF BytesAt
  <1>14. Text = BytesAt(previous) \o data[path] /\ BytesAt(previous) \in Bytes  BY <1>2, TextIs
  <1>15. Text' = BytesAt(previous) \o (data[path] \o c)  BY <1>2, <1>7, <1>13 DEF Text, BytesAt
  <1>16. Text' = Text \o c
    <2>1. \A x, y, z \in Seq(Proc \cup {Newline}) : x \o (y \o z) = (x \o y) \o z  OBVIOUS
    <2>2. \A x, y, z \in Bytes : x \o (y \o z) = (x \o y) \o z  BY <2>1 DEF Bytes
    <2> QED  BY <1>2, <1>14, <1>15, <2>2
  <1>17. FilesOK'
    <2>1. UNCHANGED Method  BY DEF Method
    <2>2. \A i \in Inode : i > made' => data'[i] = <<>>
      <3>1. ASSUME NEW i \in Inode, i > made PROVE data'[i] = <<>>
        <4>1. i # path
          <5>1. MaxInode \in Nat /\ made \in 0 .. MaxInode  BY <1>4, InodeBound DEF FilesOK
          <5> QED  BY <1>2, <3>1, <5>1 DEF Inode
        <4> QED  BY <1>4, <1>7, <3>1, <4>1 DEF FilesOK
      <3> QED  BY <3>1
    <2> QED  BY <1>4, <1>7, <1>13, <2>1, <2>2 DEF FilesOK, Closed
  <1> QED  BY <1>7, <1>9, <1>10, <1>11, <1>16, <1>17

LEMMA WriteKeeps ==
  ASSUME Going, log' = log, NEW p \in Proc, Write(p)
  PROVE  NewestInv'
  <1>1. WriterOK(p) /\ OwnersOK  BY DEF Going
  <1>2. pc[p] = "write" /\ out[p].inode = path /\ out[p].bytes = LineFor(p, data[path])
    BY <1>1 DEF Write, WriterOK
  <1>3. pc[p] \in Critical \ {"rewrite", "unlink"} /\ pc[p] \in Unwritten  BY <1>2 DEF Critical, Unwritten
  <1>4. path \in Inode /\ path # NoFile /\ data[path] \in Bytes  BY <1>3, Alone
  <1> DEFINE f == LineFor(p, data[path])
  <1>5. f \in Bytes /\ \A j \in DOMAIN f : f[j] \in {p, Newline}
    <2>1. f \in Bytes  BY <1>4, LineForBytes
    <2>2. f = <<Newline, p, p, Newline>> \/ f = <<p, p, Newline>>  BY <1>4, LineForIs DEF Bytes
    <2>3. CASE f = <<Newline, p, p, Newline>>  BY <2>1, <2>3
    <2>4. CASE f = <<p, p, Newline>>  BY <2>1, <2>4
    <2> QED  BY <2>1, <2>2, <2>3, <2>4
  <1>6. PICK to \in {"rule", "leave"} : Goto(p, to)  BY DEF Write
  <1>7. WriteAt(p, f) /\ UNCHANGED <<made, path, previous, out>> /\ to \notin Unwritten
    BY <1>2 DEF Write, Unwritten
  <1> HIDE DEF f
  <1>8. /\ Past \subseteq Past' /\ p \in Past' /\ FilesOK' /\ Text' = Text \o f
        /\ data'[path] = data[path] \o f /\ \A i \in Inode : PastOnly(data[i])'
    BY <1>2, <1>5, <1>6, <1>7, AppendedOwners
  <1>9. written \in Seq(Proc) /\ written' = Append(written, p)  BY <1>1 DEF OwnersOK, Write
  <1>10. Text \in Bytes /\ f = LineFor(p, Text)
    BY <1>4, TextIs, SameLine DEF f
  <1>11. (\A k \in DOMAIN written : written[k] # p) /\ \A i \in DOMAIN Text : Text[i] # p  BY <1>3, <1>4, NoBytesYet
  <1>12. Settled  BY <1>3, AloneSettled
  <1>13. Shows(written, Text) /\ (Method = "line-count" => LineCount(Text) >= Keep \/ AllShown(written, Text))
    BY <1>12 DEF Going, TextOK
  <1>14. /\ Shows(written', Text') /\ (AllShown(written, Text) => AllShown(written', Text'))
         /\ LineCount(Text') >= LineCount(Text)
    BY <1>8, <1>9, <1>10, <1>11, <1>13, WholeLine
  <1>15. TextOK'
    <2>1. UNCHANGED <<Method, Keep>>  BY DEF Method, Keep
    <2>2. LineCount(Text)' = LineCount(Text') /\ Shows(written, Text)' = Shows(written', Text')
          /\ AllShown(written, Text)' = AllShown(written', Text')
      BY DEF LineCount, Ends, Shows, InOrder, Newest, Uncut, AllShown, Shown, LineEnds
    <2>3. LineCount(Text) >= Keep => LineCount(Text') >= Keep
      <3>1. LineCount(Text) \in Nat  BY <1>10, EndsFinite
      <3>2. Text' \in Bytes  BY <1>5, <1>8, <1>10, Appended DEF Bytes
      <3>3. LineCount(Text') \in Nat  BY <3>2, EndsFinite
      <3>4. Keep \in Nat  BY LogAssumption DEF Going, FilesOK, Keep, LogKind
      <3> QED  BY <1>14, <3>1, <3>3, <3>4
    <2> QED  BY <1>13, <1>14, <2>1, <2>2, <2>3 DEF TextOK
  <1>16. EndsWithNewest(data[path])'
    <2> DEFINE t == data[path] \o f
    <2>1. LineEnds(t, Len(t), p)  BY <1>4, LineWritten DEF f
    <2>2. data'[path'] = t  BY <1>7, <1>8
    <2> HIDE DEF t
    <2>3. written' # <<>> /\ written'[Len(written')] = p  BY <1>9
    <2> QED  BY <2>1, <2>2, <2>3 DEF EndsWithNewest
  <1>17. pc'[p] = to  BY <1>6, NowAt
  <1>18. WriterOK(p)'
    <2>1. to = "rule" \/ to = "leave"  OBVIOUS
    <2> QED  BY <1>16, <1>17, <2>1 DEF WriterOK
  <1>19. \A q \in Proc \ {p} : WriterOK(q)'  BY <1>3, <1>6, <1>7, <1>8, OthersOK
  <1>20. OwnersOK'
    <2>1. ASSUME NEW k \in DOMAIN written' PROVE written'[k] \in Past'
      <3>1. CASE k \in DOMAIN written
        <4>1. written'[k] = written[k] /\ written[k] \in Past  BY <1>1, <1>9, <3>1 DEF OwnersOK
        <4> QED  BY <4>1, <1>8
      <3>2. CASE k \notin DOMAIN written
        <4>1. written'[k] = p  BY <1>9, <3>2
        <4> QED  BY <4>1, <1>8
      <3> QED  BY <3>1, <3>2
    <2>2. written' \in Seq(Proc)  BY <1>9
    <2> QED  BY <1>8, <2>1, <2>2 DEF OwnersOK
  <1> QED  BY <1>8, <1>15, <1>18, <1>19, <1>20 DEF NewestInv

LEMMA ShortWriteKeeps ==
  ASSUME Going, log' = log, NEW p \in Proc, ShortWrite(p)
  PROVE  NewestInv'
  <1>1. WriterOK(p) /\ OwnersOK  BY DEF Going
  <1>2. pc[p] = "write" /\ out[p].inode = path /\ out[p].bytes = LineFor(p, data[path])
    BY <1>1 DEF ShortWrite, WriterOK
  <1>3. pc[p] \in Critical \ {"rewrite", "unlink"} /\ pc[p] \in Unwritten  BY <1>2 DEF Critical, Unwritten
  <1>4. path \in Inode /\ path # NoFile /\ data[path] \in Bytes  BY <1>3, Alone
  <1> DEFINE f == LineFor(p, data[path])
  <1>5. f \in Bytes /\ Len(f) \in Nat /\ \A j \in 1 .. Len(f) : f[j] \in {p, Newline}
    <2>1. f \in Bytes /\ Len(f) \in Nat  BY <1>4, LineForBytes
    <2>2. f = <<Newline, p, p, Newline>> \/ f = <<p, p, Newline>>  BY <1>4, LineForIs DEF Bytes
    <2>3. CASE f = <<Newline, p, p, Newline>>  BY <2>1, <2>3
    <2>4. CASE f = <<p, p, Newline>>  BY <2>1, <2>4
    <2> QED  BY <2>1, <2>2, <2>3, <2>4
  <1>6. Goto(p, "leave") /\ UNCHANGED <<made, path, previous, out>> /\ written' = written /\ "leave" \notin Unwritten
    BY DEF ShortWrite, Unwritten
  <1>7. PICK n \in 0 .. Len(f) - 1 : WriteAt(p, SubSeq(f, 1, n))  BY <1>2 DEF ShortWrite
  <1> DEFINE c == SubSeq(f, 1, n)
  <1> HIDE DEF f
  <1>8. n \in 0 .. Len(f)  BY <1>5
  <1>9. c \in Bytes /\ \A j \in DOMAIN c : c[j] \in {p, Newline}
    <2>1. c \in Bytes /\ Len(c) = n /\ \A j \in 1 .. n : c[j] = f[j]  BY <1>5, <1>8, PartIs DEF Bytes
    <2>2. DOMAIN c = 1 .. n  BY <2>1 DEF Bytes
    <2> HIDE DEF c
    <2> QED  BY <1>5, <1>8, <2>1, <2>2
  <1>10. WriteAt(p, c)  BY <1>7
  <1> HIDE DEF c
  <1>11. /\ Past \subseteq Past' /\ FilesOK' /\ Text' = Text \o c /\ \A i \in Inode : PastOnly(data[i])'
    BY <1>2, <1>6, <1>9, <1>10, AppendedOwners
  <1>12. Text \in Bytes /\ f = LineFor(p, Text)  BY <1>4, TextIs, SameLine DEF f
  <1>13. \A k \in DOMAIN written : written[k] # p  BY <1>3, <1>4, NoBytesYet
  <1>14. Settled  BY <1>3, AloneSettled
  <1>15. Shows(written, Text) /\ (Method = "line-count" => LineCount(Text) >= Keep \/ AllShown(written, Text))
    BY <1>14 DEF Going, TextOK
  <1>16. /\ Shows(written, Text') /\ (AllShown(written, Text) => AllShown(written, Text'))
         /\ LineCount(Text') >= LineCount(Text)
    BY <1>1, <1>8, <1>11, <1>12, <1>13, <1>15, PartLine DEF c, OwnersOK
  <1>17. TextOK'
    <2>1. UNCHANGED <<Method, Keep>>  BY DEF Method, Keep
    <2>2. LineCount(Text)' = LineCount(Text') /\ Shows(written, Text)' = Shows(written, Text')
          /\ AllShown(written, Text)' = AllShown(written, Text')
      BY <1>6 DEF LineCount, Ends, Shows, InOrder, Newest, Uncut, AllShown, Shown, LineEnds
    <2>3. LineCount(Text) >= Keep => LineCount(Text') >= Keep
      <3>1. LineCount(Text) \in Nat  BY <1>12, EndsFinite
      <3>2. Text' \in Bytes  BY <1>9, <1>11, <1>12, Appended DEF Bytes
      <3>3. LineCount(Text') \in Nat  BY <3>2, EndsFinite
      <3>4. Keep \in Nat  BY LogAssumption DEF Going, FilesOK, Keep, LogKind
      <3> QED  BY <1>16, <3>1, <3>3, <3>4
    <2> QED  BY <1>15, <1>16, <2>1, <2>2, <2>3 DEF TextOK
  <1>18. pc'[p] = "leave"  BY <1>6, NowAt
  <1>19. WriterOK(p)'  BY <1>18 DEF WriterOK
  <1>20. \A q \in Proc \ {p} : WriterOK(q)'  BY <1>3, <1>6, <1>11, OthersOK
  <1>21. OwnersOK'  BY <1>1, <1>6, <1>11 DEF OwnersOK
  <1> QED  BY <1>11, <1>17, <1>19, <1>20, <1>21 DEF NewestInv

(* A line ends a file. *)
LEMMA EndsClosed ==
  ASSUME NEW b \in Bytes, EndsWithNewest(b)
  PROVE  Closed(b) /\ b # <<>> /\ Len(b) >= 3
  <1>1. Len(b) \in 3 .. Len(b) /\ b[Len(b)] = Newline  BY DEF EndsWithNewest, LineEnds
  <1> QED  BY <1>1 DEF Closed

(* What a rule keeps is made of the bytes that were there. *)
LEMMA RestPast ==
  ASSUME NEW b \in Bytes, NEW e \in 0 .. Len(b), PastOnly(b)
  PROVE  PastOnly(Rest(b, e))
  <1>1. Rest(b, e) \in Bytes /\ Len(b) \in Nat /\ Len(Rest(b, e)) = Len(b) - e
        /\ \A j \in 1 .. Len(b) - e : Rest(b, e)[j] = b[e + j]
    BY RestIs DEF Bytes
  <1>2. DOMAIN b = 1 .. Len(b) /\ DOMAIN Rest(b, e) = 1 .. Len(b) - e  BY <1>1 DEF Bytes
  <1>3. ASSUME NEW j \in 1 .. Len(b) - e PROVE Rest(b, e)[j] \in Past \cup {Newline}
    <2>1. e + j \in DOMAIN b  BY <1>1, <1>2
    <2> QED  BY <1>1, <2>1 DEF PastOnly
  <1> QED  BY <1>2, <1>3 DEF PastOnly

(* The log alone shows what the text shows, once it ends with the newest   *)
(* line.                                                                   *)
LEMMA PathShows ==
  ASSUME Going, path # NoFile, Settled, EndsWithNewest(data[path])
  PROVE  Shows(written, data[path]) /\ data[path] \in Bytes
  <1> DEFINE a == BytesAt(previous)
             b == data[path]
             t == a \o b
  <1>1. FilesOK /\ OwnersOK  BY DEF Going
  <1>2. Text = t /\ a \in Bytes /\ Closed(a)  BY TextIs
  <1>3. path \in Inode
    <2>1. MaxInode \in Nat /\ made \in 0 .. MaxInode  BY <1>1, InodeBound DEF FilesOK
    <2> QED  BY <1>1, <2>1 DEF FilesOK, Inode
  <1>4. b \in Bytes  BY <1>1, <1>3 DEF FilesOK
  <1>5. Shows(written, t)  BY <1>2 DEF Going, TextOK
  <1>6. written \in Seq(Proc) /\ written # <<>> /\ LineEnds(b, Len(b), written[Len(written)])
    BY <1>1 DEF OwnersOK, EndsWithNewest
  <1> DEFINE e == Len(a)
             q == written[Len(written)]
  <1>7. q \in Proc  BY <1>6
  <1>8. Len(b) >= 3  BY <1>4, EndsClosed
  <1> HIDE DEF a, b
  <1>9. t \in Bytes /\ e \in Nat /\ Len(b) \in Nat /\ Len(t) = e + Len(b) /\ \A i \in 1 .. e : t[i] = a[i]
    BY <1>2, <1>4, Appended DEF Bytes
  <1>10. Rest(t, e) = b  BY <1>2, <1>4, RestOfTwo DEF Bytes
  <1>11. e = 0 \/ t[e] = Newline
    <2>1. a = <<>> => e = 0  OBVIOUS
    <2>2. e # 0 => e \in 1 .. e  BY <1>9
    <2> QED  BY <1>2, <1>9, <2>1, <2>2 DEF Closed
  <1> HIDE DEF e, t, q
  <1>12. e \in 0 .. Len(t) /\ Len(b) \in 1 .. Len(t) - e /\ e < Len(t)  BY <1>8, <1>9
  <1>13. LineEnds(Rest(t, e), Len(b), q) <=> LineEnds(t, e + Len(b), q)  BY <1>7, <1>9, <1>11, <1>12, LineMoves
  <1>14. LineEnds(t, Len(t), q)  BY <1>6, <1>9, <1>10, <1>13 DEF q
  <1>15. Shows(written, Rest(t, e))  BY <1>5, <1>6, <1>9, <1>11, <1>12, <1>14, Dropped DEF q
  <1> QED  BY <1>4, <1>10, <1>15 DEF b

(* What a rule starts from: it is alone with the log its line ends. *)
LEMMA RuleStarts ==
  ASSUME Going, NEW p \in Proc, pc[p] \in {"rule", "truncate", "replace", "tail"}
  PROVE  /\ pc[p] \in Critical /\ path \in Inode /\ path \in 1 .. made /\ path # NoFile /\ data[path] \in Bytes
         /\ Settled /\ EndsWithNewest(data[path]) /\ Shows(written, data[path])
         /\ \A q \in Proc \ {p} : pc[q] \notin Critical
  <1>1. pc[p] \in Critical \ {"rewrite", "unlink"}  BY DEF Critical
  <1>2. path \in Inode /\ path \in 1 .. made /\ path # NoFile /\ data[path] \in Bytes
        /\ \A q \in Proc \ {p} : pc[q] \notin Critical
    BY <1>1, Alone
  <1>3. Settled  BY <1>1, AloneSettled
  <1>4. EndsWithNewest(data[path])  BY DEF Going, WriterOK
  <1> QED  BY <1>1, <1>2, <1>3, <1>4, PathShows

(* The line count. *)
LEMMA ReadLinesKeeps ==
  ASSUME Going, log' = log, NEW p \in Proc, ReadLines(p)
  PROVE  NewestInv'
  <1>1. pc[p] = "rule" /\ Method = "line-count" /\ UNCHANGED <<files, written>>  BY DEF ReadLines
  <1>2. /\ pc[p] \in Critical /\ path \in Inode /\ path # NoFile /\ data[path] \in Bytes
        /\ EndsWithNewest(data[path]) /\ Shows(written, data[path])
    BY <1>1, RuleStarts
  <1>3. FilesOK /\ OwnersOK /\ log \in Logs  BY DEF Going, FilesOK
  <1>4. CASE LineCount(data[path]) > Limit
    <2> DEFINE k == KeptLines(data[path])
    <2>1. written \in Seq(Proc) /\ written # <<>>
          /\ LineEnds(data[path], Len(data[path]), written[Len(written)])
      BY <1>2, <1>3 DEF OwnersOK, EndsWithNewest
    <2>2. k \in Bytes /\ Shows(written, k) /\ LineCount(k) >= Keep /\ \E e \in 0 .. Len(data[path]) : k = Rest(data[path], e)
      BY <1>1, <1>2, <1>3, <1>4, <2>1, TrimKeeps
    <2>3. PastOnly(k)
      <3>1. PastOnly(data[path])  BY <1>2, <1>3 DEF OwnersOK
      <3> QED  BY <1>2, <2>2, <3>1, RestPast
    <2> HIDE DEF k
    <2>4. out' = [out EXCEPT ![p].bytes = k] /\ Goto(p, "truncate")  BY <1>2, <1>4 DEF ReadLines, k
    <2>5. out' \in Outs /\ out'[p].bytes = k /\ \A q \in Proc \ {p} : out'[q] = out[q]
      BY <1>3, <2>2, <2>4 DEF FilesOK, Outs
    <2>6. pc'[p] = "truncate"  BY <2>4, NowAt
    <2>7. WriterOK(p)'
      <3>1. UNCHANGED <<Method, Keep, written, data, path>>  BY <1>1 DEF Method, Keep, files
      <3>2. EndsWithNewest(data[path])'  BY <1>2, <3>1 DEF EndsWithNewest
      <3>3. Past \subseteq Past'
        <4>1. "truncate" \notin Unwritten  BY DEF Unwritten
        <4> QED  BY <2>4, <4>1, PastGrows
      <3>4. PastOnly(out[p].bytes)'
        <4>1. PastOnly(out[p].bytes)' <=> \A i \in DOMAIN k : k[i] \in Past' \cup {Newline}  BY <2>5 DEF PastOnly
        <4> QED  BY <2>3, <3>3, <4>1 DEF PastOnly
      <3>5. (LineCount(out[p].bytes) >= Keep)' <=> LineCount(k) >= Keep  BY <2>5, <3>1 DEF LineCount, Ends
      <3> QED  BY <1>1, <2>2, <2>5, <2>6, <3>1, <3>2, <3>4, <3>5 DEF WriterOK
    <2>8. "truncate" \notin Unwritten  BY DEF Unwritten
    <2> QED  BY <1>1, <2>4, <2>5, <2>7, <2>8, FilesStay DEF Outs
  <1>5. CASE ~(LineCount(data[path]) > Limit)
    <2>1. UNCHANGED out /\ Goto(p, "leave")  BY <1>5 DEF ReadLines
    <2>2. pc'[p] = "leave"  BY <2>1, NowAt
    <2>3. WriterOK(p)'  BY <2>2 DEF WriterOK
    <2>4. "leave" \notin Unwritten  BY DEF Unwritten
    <2> QED  BY <1>1, <1>3, <2>1, <2>3, <2>4, FilesStay DEF FilesOK
  <1> QED  BY <1>4, <1>5

(* A trim empties the log of the one writer it has ... *)
LEMMA TruncateKeeps ==
  ASSUME Going, log' = log, NEW p \in Proc, Truncate(p)
  PROVE  NewestInv'
  <1>1. pc[p] = "truncate" /\ Goto(p, "rewrite") /\ UNCHANGED <<previous, written>>  BY DEF Truncate
  <1>2. pc[p] \in Critical /\ path \in Inode /\ path \in 1 .. made /\ path # NoFile /\ data[path] \in Bytes
    BY <1>1, RuleStarts
  <1>3. FilesOK /\ OwnersOK /\ WriterOK(p)  BY DEF Going
  <1>4. UNCHANGED <<made, path>> /\ data' = [data EXCEPT ![path] = <<>>] /\ out' = [out EXCEPT ![p].inode = path]
    BY <1>2 DEF Truncate, OpenOrCreate
  <1>5. Method = "line-count" /\ previous = NoFile  BY <1>1, <1>3 DEF WriterOK, FilesOK
  <1>6. <<>> \in Bytes  BY DEF Bytes
  <1>7. data' \in [Inode -> Bytes] /\ data'[path] = <<>> /\ \A i \in Inode \ {path} : data'[i] = data[i]
    BY <1>2, <1>3, <1>4, <1>6 DEF FilesOK
  <1>8. out' \in Outs /\ out'[p].inode = path /\ out'[p].bytes = out[p].bytes /\ \A q \in Proc \ {p} : out'[q] = out[q]
    BY <1>2, <1>3, <1>4 DEF FilesOK, Outs
  <1>9. pc'[p] = "rewrite"  BY <1>1, NowAt
  <1>10. Past \subseteq Past'
    <2>1. "rewrite" \notin Unwritten  BY DEF Unwritten
    <2> QED  BY <1>1, <2>1, PastGrows
  <1>11. UNCHANGED <<Method, Keep, Limit>>  BY DEF Method, Keep, Limit
  <1>12. WriterOK(p)'
    <2>1. PastOnly(out[p].bytes) /\ Shows(written, out[p].bytes) /\ LineCount(out[p].bytes) >= Keep
      BY <1>1, <1>3 DEF WriterOK
    <2>2. PastOnly(out[p].bytes)'
      <3>1. PastOnly(out[p].bytes)' <=> \A i \in DOMAIN out[p].bytes : out[p].bytes[i] \in Past' \cup {Newline}
        BY <1>8 DEF PastOnly
      <3> QED  BY <1>10, <2>1, <3>1 DEF PastOnly
    <2>3. LineCount(out[p].bytes)' = LineCount(out[p].bytes)  BY <1>8 DEF LineCount, Ends
    <2>5. Shows(written, out[p].bytes)' = Shows(written', out'[p].bytes)
      BY DEF Shows, InOrder, Newest, Uncut, Shown, LineEnds
    <2>4. Shows(written, out[p].bytes)'  BY <1>1, <1>8, <2>1, <2>5
    <2> QED  BY <1>4, <1>5, <1>7, <1>8, <1>9, <1>11, <2>1, <2>2, <2>3, <2>4 DEF WriterOK
  <1>13. \A q \in Proc \ {p} : WriterOK(q)'  BY <1>1, <1>2, <1>8, <1>10, OthersOK
  <1>14. OwnersOK'
    <2>1. ASSUME NEW i \in Inode PROVE PastOnly(data[i])'
      <3>1. CASE i = path  BY <1>7, <3>1 DEF PastOnly
      <3>2. CASE i # path  BY <1>3, <1>7, <1>10, <3>2 DEF PastOnly, OwnersOK
      <3> QED  BY <3>1, <3>2
    <2> QED  BY <1>1, <1>3, <1>10, <2>1 DEF OwnersOK
  <1>15. TextOK'
    <2>1. ~Settled'  BY <1>9 DEF Settled
    <2> QED  BY <2>1 DEF TextOK
  <1>16. FilesOK'
    <2>1. BytesAt(previous)' = <<>>  BY <1>1, <1>5 DEF BytesAt
    <2>2. \A i \in Inode : i > made' => data'[i] = <<>>  BY <1>3, <1>4, <1>7 DEF FilesOK
    <2> QED  BY <1>1, <1>3, <1>4, <1>7, <1>8, <1>11, <2>1, <2>2 DEF FilesOK, Closed, Outs
  <1> QED  BY <1>12, <1>13, <1>14, <1>15, <1>16 DEF NewestInv

(* ... and writes what it keeps. *)
LEMMA WriteKeptKeeps ==
  ASSUME Going, log' = log, NEW p \in Proc, WriteKept(p)
  PROVE  NewestInv'
  <1>1. pc[p] = "rewrite" /\ Goto(p, "leave") /\ UNCHANGED <<made, path, previous, out, written>>  BY DEF WriteKept
  <1>2. pc[p] \in Critical  BY <1>1 DEF Critical
  <1>3. path \in Inode /\ path \in 1 .. made /\ path # NoFile  BY <1>2, Alone
  <1>4. FilesOK /\ OwnersOK /\ WriterOK(p)  BY DEF Going
  <1> DEFINE k == out[p].bytes
  <1>5. /\ out[p].inode = path /\ data[path] = <<>> /\ Method = "line-count" /\ previous = NoFile
        /\ PastOnly(k) /\ Shows(written, k) /\ LineCount(k) >= Keep
    BY <1>1, <1>4 DEF WriterOK, FilesOK
  <1>6. k \in Bytes /\ k \in Seq(Proc \cup {Newline})  BY <1>4 DEF FilesOK, Bytes
  <1> HIDE DEF k
  <1>7. data' = [data EXCEPT ![path] = k]
    <2>1. data' = [data EXCEPT ![path] = k \o SubSeq(<<>>, Len(k) + 1, 0)]
      BY <1>5 DEF WriteKept, Overwrite, k
    <2>2. k \o SubSeq(<<>>, Len(k) + 1, 0) = k
      <3>1. Len(k) \in Nat  BY <1>6
      <3>2. SubSeq(<<>>, Len(k) + 1, 0) = <<>>  BY <3>1
      <3> QED  BY <1>6, <3>2
    <2> QED  BY <2>1, <2>2
  <1>8. data' \in [Inode -> Bytes] /\ data'[path] = k /\ \A i \in Inode \ {path} : data'[i] = data[i]
    BY <1>3, <1>4, <1>6, <1>7 DEF FilesOK
  <1>9. pc'[p] = "leave"  BY <1>1, NowAt
  <1>10. Past \subseteq Past'
    <2>1. "leave" \notin Unwritten  BY DEF Unwritten
    <2> QED  BY <1>1, <2>1, PastGrows
  <1>11. UNCHANGED <<Method, Keep, Limit>>  BY DEF Method, Keep, Limit
  <1>12. WriterOK(p)'  BY <1>9 DEF WriterOK
  <1>13. \A q \in Proc \ {p} : WriterOK(q)'  BY <1>1, <1>2, <1>10, OthersOK
  <1>14. OwnersOK'
    <2>1. ASSUME NEW i \in Inode PROVE PastOnly(data[i])'
      <3>1. CASE i = path
        <4>1. PastOnly(data[i])' <=> \A j \in DOMAIN k : k[j] \in Past' \cup {Newline}  BY <1>8, <3>1 DEF PastOnly
        <4> QED  BY <1>5, <1>10, <4>1 DEF PastOnly
      <3>2. CASE i # path  BY <1>4, <1>8, <1>10, <3>2 DEF PastOnly, OwnersOK
      <3> QED  BY <3>1, <3>2
    <2> QED  BY <1>1, <1>4, <1>10, <2>1 DEF OwnersOK
  <1>15. TextOK'
    <2>1. Text' = k
      <3>1. Text' = <<>> \o k  BY <1>1, <1>3, <1>5, <1>8 DEF Text, BytesAt
      <3> QED  BY <1>6, <3>1
    <2>2. Shows(written, Text)' /\ LineCount(Text)' = LineCount(k)
      BY <1>1, <1>5, <2>1 DEF Shows, InOrder, Newest, Uncut, Shown, LineEnds, LineCount, Ends
    <2> QED  BY <1>5, <1>11, <2>2 DEF TextOK
  <1>16. FilesOK'
    <2>1. BytesAt(previous)' = <<>>  BY <1>1, <1>5 DEF BytesAt
    <2>2. \A i \in Inode : i > made' => data'[i] = <<>>
      <3>1. MaxInode \in Nat /\ made \in 0 .. MaxInode  BY <1>4, InodeBound DEF FilesOK
      <3>2. ~(path > made)  BY <1>3, <3>1
      <3> QED  BY <1>1, <1>4, <1>8, <3>2 DEF FilesOK
    <2> QED  BY <1>1, <1>4, <1>8, <1>11, <2>1, <2>2 DEF FilesOK, Closed
  <1> QED  BY <1>12, <1>13, <1>14, <1>15, <1>16 DEF NewestInv

(* The size rotation. *)
LEMMA StatSizeKeeps ==
  ASSUME Going, log' = log, NEW p \in Proc, StatSize(p)
  PROVE  NewestInv'
  <1>1. pc[p] = "rule" /\ Method = "size-rotation" /\ UNCHANGED <<files, out, written>>  BY DEF StatSize
  <1>2. path \in Inode /\ path # NoFile /\ data[path] \in Bytes /\ EndsWithNewest(data[path])
    BY <1>1, RuleStarts
  <1>3. FilesOK  BY DEF Going
  <1>4. PICK to \in {"leave", "tail", "replace"} : Goto(p, to) /\ (to = "tail" => Len(data[path]) > 2 * Limit)
    BY <1>2 DEF StatSize
  <1>5. pc'[p] = to  BY <1>4, NowAt
  <1>6. WriterOK(p)'
    <2>1. UNCHANGED <<Method, Limit, written, data, path>>  BY <1>1 DEF Method, Limit, files
    <2>2. EndsWithNewest(data[path])'  BY <1>2, <2>1 DEF EndsWithNewest
    <2> QED  BY <1>1, <1>4, <1>5, <2>1, <2>2 DEF WriterOK
  <1>7. to \notin Unwritten  BY DEF Unwritten
  <1> QED  BY <1>1, <1>3, <1>4, <1>6, <1>7, FilesStay DEF FilesOK

LEMMA RotateKeeps ==
  ASSUME Going, log' = log, NEW p \in Proc, Rotate(p)
  PROVE  NewestInv'
  <1>1. pc[p] = "replace" /\ Goto(p, "leave") /\ UNCHANGED <<made, data, out, written>>  BY DEF Rotate
  <1>2. /\ pc[p] \in Critical /\ path \in Inode /\ path \in 1 .. made /\ path # NoFile /\ data[path] \in Bytes
        /\ EndsWithNewest(data[path]) /\ Shows(written, data[path])
    BY <1>1, RuleStarts
  <1>3. path' = NoFile /\ previous' = path  BY <1>2 DEF Rotate
  <1>4. FilesOK /\ OwnersOK /\ WriterOK(p)  BY DEF Going
  <1>5. Method = "size-rotation"  BY <1>1, <1>4 DEF WriterOK
  <1>6. pc'[p] = "leave"  BY <1>1, NowAt
  <1>7. Past \subseteq Past'
    <2>1. "leave" \notin Unwritten  BY DEF Unwritten
    <2> QED  BY <1>1, <2>1, PastGrows
  <1>8. UNCHANGED Method  BY DEF Method
  <1>9. WriterOK(p)'  BY <1>6 DEF WriterOK
  <1>10. \A q \in Proc \ {p} : WriterOK(q)'  BY <1>1, <1>2, <1>7, OthersOK
  <1>11. OwnersOK'  BY <1>1, <1>7, OwnersStay
  <1>12. BytesAt(previous)' = data[path]  BY <1>1, <1>2, <1>3 DEF BytesAt
  <1>13. TextOK'
    <2>1. Text' = data[path] \o <<>>  BY <1>3, <1>12 DEF Text, BytesAt
    <2>2. data[path] \o <<>> = data[path]  BY <1>2 DEF Bytes
    <2>3. Text' = data[path]  BY <2>1, <2>2
    <2>5. Shows(written, Text)' = Shows(written', Text')
      BY DEF Shows, InOrder, Newest, Uncut, Shown, LineEnds
    <2>4. Shows(written, Text)'  BY <1>1, <1>2, <2>3, <2>5
    <2> QED  BY <1>5, <1>8, <2>4 DEF TextOK
  <1>14. FilesOK'
    <2>1. Closed(data[path])  BY <1>2, EndsClosed
    <2> QED  BY <1>1, <1>2, <1>3, <1>4, <1>5, <1>8, <1>12, <2>1 DEF FilesOK, Closed
  <1> QED  BY <1>9, <1>10, <1>11, <1>13, <1>14 DEF NewestInv

LEMMA WriteTailKeeps ==
  ASSUME Going, log' = log, NEW p \in Proc, WriteTail(p)
  PROVE  NewestInv'
  <1>1. pc[p] = "tail" /\ UNCHANGED <<path, out, written>>  BY DEF WriteTail
  <1>2. /\ pc[p] \in Critical /\ path \in Inode /\ path \in 1 .. made /\ path # NoFile /\ data[path] \in Bytes
        /\ EndsWithNewest(data[path]) /\ Shows(written, data[path])
    BY <1>1, RuleStarts
  <1>3. FilesOK /\ OwnersOK /\ WriterOK(p) /\ log \in Logs  BY DEF Going, FilesOK
  <1> DEFINE k == NewestLines(data[path])
             j == made + 1
  <1>4. /\ Goto(p, "unlink") /\ made < MaxInode /\ made' = j /\ previous' = j /\ data' = [data EXCEPT ![j] = k]
    BY <1>2 DEF WriteTail
  <1>5. Method = "size-rotation" /\ Len(data[path]) > 2 * Limit  BY <1>1, <1>3 DEF WriterOK
  <1>6. written \in Seq(Proc) /\ written # <<>> /\ LineEnds(data[path], Len(data[path]), written[Len(written)])
    BY <1>2, <1>3 DEF OwnersOK, EndsWithNewest
  <1>7. /\ k \in Bytes /\ Shows(written, k) /\ LineEnds(k, Len(k), written[Len(written)])
        /\ \E e \in 0 .. Len(data[path]) : k = Rest(data[path], e)
    BY <1>2, <1>3, <1>5, <1>6, TailKeeps
  <1>8. PastOnly(k)
    <2>1. PastOnly(data[path])  BY <1>2, <1>3 DEF OwnersOK
    <2> QED  BY <1>2, <1>7, <2>1, RestPast
  <1>9. Closed(k)
    <2>1. EndsWithNewest(k)  BY <1>6, <1>7 DEF EndsWithNewest
    <2> QED  BY <1>7, <2>1, EndsClosed
  <1> HIDE DEF k
  <1>10. MaxInode \in Nat /\ made \in 0 .. MaxInode /\ j \in Inode /\ j # path /\ j \in 1 .. made' /\ j # NoFile
    <2>1. MaxInode \in Nat /\ made \in 0 .. MaxInode  BY <1>3, InodeBound DEF FilesOK
    <2>2. j \in Inode /\ j # path /\ j \in 1 .. made'  BY <1>2, <1>4, <2>1 DEF Inode
    <2> QED  BY <2>1, <2>2, InodeBound
  <1> HIDE DEF j
  <1>11. data' \in [Inode -> Bytes] /\ data'[j] = k /\ \A i \in Inode \ {j} : data'[i] = data[i]
    BY <1>3, <1>4, <1>7, <1>10 DEF FilesOK
  <1>12. pc'[p] = "unlink"  BY <1>4, NowAt
  <1>13. Past \subseteq Past'
    <2>1. "unlink" \notin Unwritten  BY DEF Unwritten
    <2> QED  BY <1>4, <2>1, PastGrows
  <1>14. UNCHANGED Method  BY DEF Method
  <1>15. BytesAt(previous)' = k  BY <1>4, <1>10, <1>11 DEF BytesAt
  <1>16. WriterOK(p)'
    <2>2. Shows(written, BytesAt(previous))' = Shows(written', BytesAt(previous)')
      BY DEF Shows, InOrder, Newest, Uncut, Shown, LineEnds
    <2>1. Shows(written, BytesAt(previous))'  BY <1>1, <1>7, <1>15, <2>2
    <2> QED  BY <1>5, <1>12, <1>14, <2>1 DEF WriterOK
  <1>17. \A q \in Proc \ {p} : WriterOK(q)'  BY <1>1, <1>2, <1>4, <1>13, OthersOK
  <1>18. OwnersOK'
    <2>1. ASSUME NEW i \in Inode PROVE PastOnly(data[i])'
      <3>1. CASE i = j
        <4>1. PastOnly(data[i])' <=> \A x \in DOMAIN k : k[x] \in Past' \cup {Newline}  BY <1>11, <3>1 DEF PastOnly
        <4> QED  BY <1>8, <1>13, <4>1 DEF PastOnly
      <3>2. CASE i # j  BY <1>3, <1>11, <1>13, <3>2 DEF PastOnly, OwnersOK
      <3> QED  BY <3>1, <3>2
    <2> QED  BY <1>1, <1>3, <1>13, <2>1 DEF OwnersOK
  <1>19. TextOK'
    <2>1. ~Settled'  BY <1>12 DEF Settled
    <2> QED  BY <2>1 DEF TextOK
  <1>20. FilesOK'
    <2>1. made' \in 0 .. MaxInode /\ made' > made  BY <1>4, <1>10 DEF j
    <2>2. \A i \in Inode : i > made' => data'[i] = <<>>
      <3>1. ASSUME NEW i \in Inode, i > made' PROVE data'[i] = <<>>
        <4>1. i \in Nat /\ i > made /\ i # j  BY <1>4, <1>10, <2>1, <3>1 DEF Inode
        <4> QED  BY <1>3, <1>11, <4>1 DEF FilesOK
      <3> QED  BY <3>1
    <2>3. path' \in 1 .. made'  BY <1>1, <1>2, <1>10, <2>1
    <2> QED  BY <1>1, <1>3, <1>4, <1>5, <1>9, <1>10, <1>11, <1>14, <1>15, <2>1, <2>2, <2>3 DEF FilesOK, Closed
  <1> QED  BY <1>16, <1>17, <1>18, <1>19, <1>20 DEF NewestInv

LEMMA UnlinkKeeps ==
  ASSUME Going, log' = log, NEW p \in Proc, UnlinkLog(p)
  PROVE  NewestInv'
  <1>1. pc[p] = "unlink" /\ Goto(p, "leave") /\ path' = NoFile /\ UNCHANGED <<made, data, previous, out, written>>
    BY DEF UnlinkLog
  <1>2. pc[p] \in Critical  BY <1>1 DEF Critical
  <1>3. FilesOK /\ WriterOK(p)  BY DEF Going
  <1>4. Method = "size-rotation" /\ Shows(written, BytesAt(previous))  BY <1>1, <1>3 DEF WriterOK
  <1>5. pc'[p] = "leave"  BY <1>1, NowAt
  <1>6. Past \subseteq Past'
    <2>1. "leave" \notin Unwritten  BY DEF Unwritten
    <2> QED  BY <1>1, <2>1, PastGrows
  <1>7. UNCHANGED Method  BY DEF Method
  <1>8. WriterOK(p)'  BY <1>5 DEF WriterOK
  <1>9. \A q \in Proc \ {p} : WriterOK(q)'  BY <1>1, <1>2, <1>6, OthersOK
  <1>10. OwnersOK'  BY <1>1, <1>6, OwnersStay
  <1>11. BytesAt(previous)' = BytesAt(previous)  BY <1>1 DEF BytesAt
  <1>12. TextOK'
    <2>1. path # NoFile  BY <1>2, Alone
    <2>2. BytesAt(previous) \in Bytes  BY <2>1, TextIs
    <2>3. Text' = BytesAt(previous) \o <<>>  BY <1>1, <1>11 DEF Text, BytesAt
    <2>4. BytesAt(previous) \o <<>> = BytesAt(previous)  BY <2>2 DEF Bytes
    <2>5. Text' = BytesAt(previous)  BY <2>3, <2>4
    <2>7. Shows(written, Text)' = Shows(written', Text')
      BY DEF Shows, InOrder, Newest, Uncut, Shown, LineEnds
    <2>6. Shows(written, Text)'  BY <1>1, <1>4, <2>5, <2>7
    <2> QED  BY <1>4, <1>7, <2>6 DEF TextOK
  <1>13. FilesOK'  BY <1>1, <1>3, <1>7, <1>11 DEF FilesOK, Closed
  <1> QED  BY <1>8, <1>9, <1>10, <1>12, <1>13 DEF NewestInv

(* A process that ends, or stops, between the system calls. *)
LEMMA EndKeeps ==
  ASSUME Going, log' = log, NEW p \in Proc, Die(p) \/ Hang(p), Undisturbed'
  PROVE  NewestInv'
  <1>1. pc[p] \notin {"rewrite", "unlink"}
    <2>1. faults' \subseteq {"short"}  BY DEF Undisturbed
    <2> QED  BY <2>1 DEF Die, Hang, Abandoned
  <1>2. UNCHANGED <<files, written>>  BY DEF Die, Hang
  <1>3. out' \in Outs /\ \A q \in Proc \ {p} : out'[q] = out[q]
    BY NothingIs DEF Going, FilesOK, Die, Hang, Close, Outs
  <1>4. PICK to \in {"gone", "hung"} : Goto(p, to)  BY DEF Die, Hang
  <1>5. pc'[p] = to  BY <1>4, NowAt
  <1>6. WriterOK(p)'
    <2>1. pc'[p] = "gone" \/ pc'[p] = "hung"  BY <1>5
    <2> QED  BY <2>1 DEF WriterOK
  <1>7. to \notin Unwritten  BY DEF Unwritten
  <1> QED  BY <1>1, <1>2, <1>3, <1>4, <1>6, <1>7, FilesStay DEF Outs

(* The invariant, step by step. *)
LEMMA NewestInvInit == LogInit => NewestInv
  <1> SUFFICES ASSUME LogInit PROVE NewestInv  OBVIOUS
  <1> USE DEF LogInit
  <1>1. MaxInode \in Nat \ {0} /\ NoFile \notin Inode /\ 1 \in Inode  BY InodeBound DEF Inode
  <1>2. <<>> \in Bytes /\ <<Newline>> \in Bytes
    <2>1. Newline \in Proc \cup {Newline}  OBVIOUS
    <2> QED  BY <2>1 DEF Bytes
  <1>4. FilesOK  BY <1>1, <1>2, NothingIs DEF FilesOK, BytesAt, Closed
  <1>5. OwnersOK
    <2>1. written \in Seq(Proc) /\ DOMAIN written = {}  OBVIOUS
    <2>2. PastOnly(<<>>) /\ PastOnly(<<Newline>>)  BY DEF PastOnly
    <2> QED  BY <2>1, <2>2 DEF OwnersOK
  <1>6. \A p \in Proc : WriterOK(p)  BY DEF WriterOK
  <1>7. TextOK
    <2>1. DOMAIN written = {} /\ written = <<>>  OBVIOUS
    <2> QED  BY <2>1 DEF TextOK, Shows, InOrder, Newest, Uncut, AllShown
  <1> QED  BY <1>4, <1>5, <1>6, <1>7 DEF NewestInv

LEMMA NewestInvStep == LockInv /\ NewestInv /\ [LogNext]_logVars => NewestInv'
  <1> SUFFICES ASSUME LockInv, NewestInv, [LogNext]_logVars, Undisturbed' PROVE NewestInv'
    BY DEF NewestInv
  <1>1. CASE UNCHANGED logVars
    <2>1. UNCHANGED <<log, pc, made, data, path, previous, holder, fd, out, faults, written>>  BY <1>1 DEF logVars
    <2>2. UNCHANGED <<CanLock, Method, Limit, Keep, Past, Text, Settled>>
      BY <2>1 DEF CanLock, Method, Limit, Keep, Past, Text, BytesAt, Settled
    <2>3. Undisturbed  BY <2>1, <2>2 DEF Undisturbed
    <2>4. FilesOK /\ OwnersOK /\ (\A p \in Proc : WriterOK(p)) /\ TextOK  BY <2>3 DEF NewestInv
    <2>5. UNCHANGED BytesAt(previous)  BY <2>1 DEF BytesAt
    <2>6. FilesOK'  BY <2>1, <2>2, <2>4, <2>5 DEF FilesOK, Closed
    <2>7. OwnersOK'  BY <2>1, <2>2, <2>4 DEF OwnersOK, PastOnly
    <2>8. TextOK'
      BY <2>1, <2>2, <2>4 DEF TextOK, Shows, InOrder, Newest, Uncut, Shown, LineEnds, AllShown, LineCount, Ends
    <2>9. \A p \in Proc : WriterOK(p)'
      <3>1. ASSUME NEW p \in Proc PROVE WriterOK(p)'
        <4>1. WriterOK(p)  BY <2>4
        <4>2. UNCHANGED <<PastOnly(out[p].bytes), LineCount(out[p].bytes), EndsWithNewest(data[path])>>
          BY <2>1, <2>2 DEF PastOnly, LineCount, Ends, EndsWithNewest
        <4> QED  BY <2>1, <2>2, <2>5, <4>1, <4>2 DEF WriterOK
      <3> QED  BY <3>1
    <2> QED  BY <2>6, <2>7, <2>8, <2>9 DEF NewestInv
  <1>2. ASSUME NEW p \in Proc, Start(p) \/ LogStep(p) \/ Die(p) \/ Hang(p), log' = log
        PROVE  NewestInv'
    <2>1. faults \subseteq faults'
      BY <1>2 DEF Start, LogStep, Exclusive, OpenToLock, Lock, TimeOut, Recheck, AppendOnce, OpenToAppend, Write,
         ShortWrite, Apply, ReadLines, Truncate, WriteKept, RewriteFails, StatSize, Rotate, WriteTail, UnlinkLog,
         RuleFails, Leave, Die, Hang, Abandoned, Failed
    <2>2. Undisturbed  BY <1>2, <2>1 DEF Undisturbed, CanLock
    <2>3. Going  BY <2>2 DEF Going, NewestInv
    <2>4. ~TimeOut(p) /\ ~RuleFails(p) /\ ~RewriteFails(p)
      <3>1. faults' \subseteq {"short"}  BY DEF Undisturbed
      <3>2. ~Failed("timeout") /\ ~Failed("rule")  BY <3>1 DEF Failed
      <3> QED  BY <3>2 DEF TimeOut, RuleFails, RewriteFails
    <2>5. CASE Start(p) \/ Lock(p) \/ Recheck(p) \/ Leave(p)  BY <1>2, <2>3, <2>5, StartKeeps
    <2>6. CASE OpenToLock(p)  BY <1>2, <2>3, <2>6, OpenToLockKeeps
    <2>7. CASE OpenToAppend(p)  BY <1>2, <2>3, <2>7, OpenToAppendKeeps
    <2>8. CASE Write(p)  BY <1>2, <2>3, <2>8, WriteKeeps
    <2>9. CASE ShortWrite(p)  BY <1>2, <2>3, <2>9, ShortWriteKeeps
    <2>10. CASE ReadLines(p)  BY <1>2, <2>3, <2>10, ReadLinesKeeps
    <2>11. CASE Truncate(p)  BY <1>2, <2>3, <2>11, TruncateKeeps
    <2>12. CASE WriteKept(p)  BY <1>2, <2>3, <2>12, WriteKeptKeeps
    <2>13. CASE StatSize(p)  BY <1>2, <2>3, <2>13, StatSizeKeeps
    <2>14. CASE Rotate(p)  BY <1>2, <2>3, <2>14, RotateKeeps
    <2>15. CASE WriteTail(p)  BY <1>2, <2>3, <2>15, WriteTailKeeps
    <2>16. CASE UnlinkLog(p)  BY <1>2, <2>3, <2>16, UnlinkKeeps
    <2>17. CASE Die(p) \/ Hang(p)  BY <1>2, <2>3, <2>17, EndKeeps
    <2> QED
      BY <1>2, <2>4, <2>5, <2>6, <2>7, <2>8, <2>9, <2>10, <2>11, <2>12, <2>13, <2>14, <2>15, <2>16, <2>17
      DEF LogStep, Exclusive, AppendOnce, Apply
  <1>3. CASE Ended  BY <1>1, <1>3 DEF Ended
  <1> QED  BY <1>1, <1>2, <1>3 DEF LogNext

(* The invariant is more than the property asks. *)
LEMMA NewestInvSays == NewestInv => NewestKept
  <1> SUFFICES ASSUME NewestInv, CanLock, Settled, faults \subseteq {"short"}
               PROVE  /\ \A k, l \in DOMAIN written : \A i \in Found(written[k]), j \in Found(written[l]) : k < l <=> i < j
                      /\ \A k, l \in DOMAIN written : k < l /\ Found(written[k]) # {} => Found(written[l]) # {}
                      /\ written # <<>> => Found(Last(written)) # {}
                      /\ Method = "line-count" =>
                           LineCount(Text) >= Keep \/ \A k \in DOMAIN written : Found(written[k]) # {}
    BY DEF NewestKept
  <1>1. TextOK  BY DEF NewestInv, Undisturbed
  <1>2. \A q : Found(q) = Shown(Text, q)  BY DEF Found, Shown
  <1>3. Last(written) = written[Len(written)]  BY DEF Last
  <1> QED  BY <1>1, <1>2, <1>3 DEF TextOK, Shows, InOrder, Newest, AllShown

(* The newest lines of a log are there, each once and in the order they    *)
(* were written, for any number of locked writers under either rule.       *)
THEOREM NewestLinesStay == LogSpec => []NewestKept
  <1>1. LogInit => LockInv /\ NewestInv  BY LockInvInit, NewestInvInit
  <1>2. LockInv /\ NewestInv /\ [LogNext]_logVars => (LockInv /\ NewestInv)'  BY LockInvStep, NewestInvStep
  <1>3. LockInv /\ NewestInv => NewestKept  BY NewestInvSays
  <1> QED  BY <1>1, <1>2, <1>3, PTL DEF LogSpec
=============================================================================
