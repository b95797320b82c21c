----------------------- MODULE HookRegistration_proofs -----------------------
(* UserHandlersKept, TrustNeverGained and TrustFollows for every hooks file,   *)
(* number of hooks, commands and faults. The edits of the file are computed    *)
(* along sequences: what they keep is proved by induction on their length.     *)
EXTENDS HookRegistration, SequenceTheorems, WellFoundedInduction, TLAPS

(* Every table of t is for a suite handler or one the user allowed. *)
OnlyGranted(t, g) == \A p \in DOMAIN t : t[p].id \in User => t[p] \in g

(* The tables a failed removal puts back need it too. *)
TrustInv == /\ OnlyGranted(tables, granted)
            /\ pc # "idle" => OnlyGranted(cmd.tables, granted)

(* Tables that move keep what they allow (_reconcile_codex_hook_trust). *)
LEMMA FollowedKeeps ==
  ASSUME NEW t, NEW before, NEW after, NEW g, OnlyGranted(t, g)
  PROVE  OnlyGranted(Followed(t, before, after), g)
<1> DEFINE moves == Moves(t, before, after)
           Source(q) == (CHOOSE m \in moves : m[2] = q)[1]
           targets == {m[2] : m \in moves}
<1>1. Followed(t, before, after) = [q \in targets |-> t[Source(q)]]
  BY DEF Followed
<1>2. ASSUME NEW q \in targets
      PROVE  Source(q) \in DOMAIN t
  <2>1. PICK m \in moves : m[2] = q
    OBVIOUS
  <2>2. (CHOOSE n \in moves : n[2] = q) \in moves
    BY <2>1
  <2>3. moves \subseteq (DOMAIN t) \X (Places(after) \cup DOMAIN t)
    BY DEF Moves
  <2>4. (CHOOSE n \in moves : n[2] = q) \in (DOMAIN t) \X (Places(after) \cup DOMAIN t)
    BY <2>2, <2>3
  <2> QED
    BY <2>4
<1> HIDE DEF moves, Source, targets
<1> QED
  BY <1>1, <1>2 DEF OnlyGranted

(* So do those that a reconciliation leaves, moved or not. *)
LEMMA ReconciledKeeps ==
  ASSUME NEW t, NEW before, NEW after, NEW g, OnlyGranted(t, g),
         NEW u \in Reconciled(t, before, after)
  PROVE  OnlyGranted(u, g)
<1>1. u = t \/ u = Followed(t, before, after)
  BY DEF Reconciled
<1> QED
  BY <1>1, FollowedKeeps

(* The install allows only hooks of its own (_ensure_codex_hook_trust_state). *)
LEMMA TrustedKeeps ==
  ASSUME NEW t, NEW s, NEW v, NEW addons, NEW g, OnlyGranted(t, g)
  PROVE  OnlyGranted(Trusted(t, s, v, addons), g)
<1> DEFINE own == OwnPlaces(s, v, addons)
<1>1. \A p \in own : HandlerAt(s, p).id \notin User
  BY HooksAssumption DEF OwnPlaces
<1>2. Trusted(t, s, v, addons)
        = [p \in (DOMAIN t) \cup own |-> IF p \in own THEN HandlerAt(s, p) ELSE t[p]]
  BY DEF Trusted
<1> HIDE DEF own
<1> QED
  BY <1>1, <1>2 DEF OnlyGranted

LEMMA TrustInit == Init => TrustInv
<1> SUFFICES ASSUME Init PROVE TrustInv
  OBVIOUS
<1>1. PICK asked \in SUBSET {p \in Places(settings) : HandlerAt(settings, p).id \in User} :
        /\ tables = [p \in asked |-> HandlerAt(settings, p)]
        /\ granted = {HandlerAt(settings, p) : p \in asked}
  BY DEF Init
<1>2. OnlyGranted(tables, granted)
  BY <1>1 DEF OnlyGranted
<1>3. pc = "idle"
  BY DEF Init
<1> QED
  BY <1>2, <1>3 DEF TrustInv

LEMMA TrustEdit ==
  ASSUME TrustInv, UserStep
  PROVE  TrustInv'
<1>1. ASSUME NEW u \in User, Grant(u)
      PROVE  TrustInv'
  <2>1. PICK p \in Present(u) :
          LET x == HandlerAt(settings, p)
          IN /\ tables' = [q \in (DOMAIN tables) \cup {p} |->
                             IF q = p THEN x ELSE tables[q]]
             /\ granted' = granted \cup {x}
    BY <1>1 DEF Grant
  <2>2. OnlyGranted(tables', granted')
    BY <2>1 DEF TrustInv, OnlyGranted
  <2>3. pc' = "idle"
    BY <1>1 DEF Grant, Edit
  <2> QED
    BY <2>2, <2>3 DEF TrustInv
<1>2. ASSUME UNCHANGED <<tables, granted>>, Edit
      PROVE  TrustInv'
  BY <1>2 DEF TrustInv, OnlyGranted, Edit
<1>3. ASSUME NEW u \in User, TakeHandler(u)
      PROVE  TrustInv'
  BY <1>2, <1>3 DEF TakeHandler
<1>4. ASSUME NEW u \in User, NEW v \in Version, ChangeHandler(u, v)
      PROVE  TrustInv'
  BY <1>2, <1>4 DEF ChangeHandler
<1>5. ASSUME NEW u \in User, NEW v \in Version, NEW e \in Event, AddHandler(u, e, v)
      PROVE  TrustInv'
  BY <1>2, <1>5 DEF AddHandler
<1>6. CASE Reform
  BY <1>2, <1>6 DEF Reform, files
<1> QED
  BY <1>1, <1>3, <1>4, <1>5, <1>6 DEF UserStep

(* A command begins with a copy of the tables it found. *)
LEMMA TrustBegin ==
  ASSUME TrustInv, NoNodeRuntime \/ Install \/ Removal
  PROVE  TrustInv'
<1>1. CASE NoNodeRuntime
  BY <1>1 DEF NoNodeRuntime, Ready, TrustInv, OnlyGranted, files
<1>2. ASSUME NEW v \in Version, NEW addons, BeginInstall(v, addons)
      PROVE  TrustInv'
  <2>1. cmd'.tables = tables /\ tables' = tables /\ granted' = granted
    BY <1>2 DEF BeginInstall, files
  <2> QED
    BY <2>1 DEF TrustInv, OnlyGranted
<1>3. ASSUME NEW plan, BeginRemoval(plan)
      PROVE  TrustInv'
  <2>1. tables' = tables /\ granted' = granted /\ (pc' = "idle" \/ cmd'.tables = tables)
    BY <1>3 DEF BeginRemoval, End, files
  <2> QED
    BY <2>1 DEF TrustInv, OnlyGranted
<1>4. CASE Install
  BY <1>2, <1>4 DEF Install
<1>5. CASE Removal
  BY <1>3, <1>5 DEF Removal
<1> QED
  BY <1>1, <1>4, <1>5

LEMMA TrustStep ==
  ASSUME TrustInv, CommandStep
  PROVE  TrustInv'
<1>1. CASE NoNodeRuntime \/ Install \/ Removal
  BY <1>1, TrustBegin
<1>2. CASE Follow
  <2>1. pc # "idle" /\ tables' \in Reconciled(tables, cmd.read, cmd.plan)
    BY <1>2 DEF Follow
  <2>2. granted' = granted /\ cmd' = cmd
    BY <1>2 DEF Follow, Stays, Goto
  <2> QED
    BY <2>1, <2>2, ReconciledKeeps DEF TrustInv
<1>3. CASE Trust
  <2>1. pc # "idle" /\ tables' = Trusted(tables, cmd.plan, cmd.version, cmd.addons)
    BY <1>3 DEF Trust
  <2>2. granted' = granted /\ cmd' = cmd
    BY <1>3 DEF Trust, Stays, Goto
  <2> QED
    BY <2>1, <2>2, TrustedKeeps DEF TrustInv
<1>4. CASE Detrust
  <2>1. pc # "idle" /\ tables' \in Reconciled(tables, cmd.read, cmd.plan)
    BY <1>4 DEF Detrust
  <2>2. granted' = granted /\ cmd' = cmd
    BY <1>4 DEF Detrust, Stays, Goto
  <2> QED
    BY <2>1, <2>2, ReconciledKeeps DEF TrustInv
<1>5. CASE WriteSettings
  BY <1>5 DEF WriteSettings, Goto, Stays, TrustInv, OnlyGranted
<1>6. CASE Persist
  BY <1>6 DEF Persist, End, Stays, files, TrustInv, OnlyGranted
<1>7. CASE InstallFails
  BY <1>7 DEF InstallFails, End, Stays, files, TrustInv, OnlyGranted
<1>8. CASE PersistFails
  BY <1>8 DEF PersistFails, End, Stays, TrustInv, OnlyGranted
<1>9. CASE WriteRemoved
  BY <1>9 DEF WriteRemoved, End, Stays, TrustInv, OnlyGranted
<1>10. CASE RemovalFails
  <2>1. granted' = granted /\ pc # "idle" /\ pc' = "idle"
    BY <1>10 DEF RemovalFails, End, Stays
  <2>2. tables' = tables \/ tables' = cmd.tables
    BY <1>10 DEF RemovalFails
  <2> QED
    BY <2>1, <2>2 DEF TrustInv
<1>11. CASE Die
  BY <1>11 DEF Die, End, Stays, files, TrustInv, OnlyGranted
<1> QED
  BY <1>1, <1>2, <1>3, <1>4, <1>5, <1>6, <1>7, <1>8, <1>9, <1>10, <1>11
  DEF CommandStep

(* No table in the host's configuration allows a handler of the user's that he *)
(* did not allow himself, whatever commands run, fail or die (install_hooks.py *)
(* _follow_codex_hook_trust, _ensure_codex_hook_trust_state).                  *)
THEOREM TrustIsGranted == Spec => []TrustNeverGained
<1>1. TrustInv /\ [Next]_vars => TrustInv'
  <2>1. CASE UNCHANGED vars
    BY <2>1 DEF vars, TrustInv, OnlyGranted
  <2> QED
    BY <2>1, TrustEdit, TrustStep DEF Next
<1>2. TrustInv => TrustNeverGained
  BY DEF TrustInv, OnlyGranted, TrustNeverGained
<1> QED
  BY <1>1, <1>2, TrustInit, PTL DEF Spec

-----------------------------------------------------------------------------
(* Sequences. What is computed along a sequence is proved by induction on its  *)
(* length: the minimum principle of a well-founded relation, on a set.         *)

LEMMA SetInduction ==
  ASSUME NEW P, 0 \in P, \A n \in Nat : n \in P => n + 1 \in P
  PROVE  \A n \in Nat : n \in P
<1> DEFINE R == OpToRel(<, Nat)
           T == {n \in Nat : n \notin P}
<1>1. \A i, j \in Nat : <<i, j>> \in R <=> i < j
  BY DEF OpToRel
<1>2. SUFFICES ASSUME T # {} PROVE FALSE
  OBVIOUS
<1>3. IsWellFoundedOn(R, Nat)
  BY NatLessThanWellFounded
<1>4. PICK x \in T : \A y \in T : <<y, x>> \notin R
  <2> HIDE DEF R
  <2> QED
    BY <1>2, <1>3, WFMin
<1>5. x \in Nat /\ x # 0
  BY <1>4
<1>6. x - 1 \in Nat /\ x - 1 < x /\ x = (x - 1) + 1
  BY <1>5
<1>7. x - 1 \notin T
  BY <1>1, <1>4, <1>5, <1>6
<1> QED
  BY <1>4, <1>6, <1>7

LEMMA AppendFacts ==
  ASSUME NEW S, NEW s \in Seq(S), NEW x \in S
  PROVE  /\ Append(s, x) \in Seq(S) /\ Len(s) \in Nat /\ Len(Append(s, x)) = Len(s) + 1
         /\ DOMAIN s = 1 .. Len(s) /\ DOMAIN Append(s, x) = 1 .. Len(s) + 1
         /\ \A i \in 1 .. Len(s) : Append(s, x)[i] = s[i] /\ s[i] \in S
         /\ Append(s, x)[Len(s) + 1] = x
  OBVIOUS

LEMMA FrontLast ==
  ASSUME NEW S, NEW s \in Seq(S), NEW n \in Nat, Len(s) = n + 1
  PROVE  /\ SubSeq(s, 1, n) \in Seq(S) /\ Len(SubSeq(s, 1, n)) = n /\ s[n + 1] \in S
         /\ s = Append(SubSeq(s, 1, n), s[n + 1])
<1>1. /\ SubSeq(s, 1, n) \in Seq(S) /\ Len(SubSeq(s, 1, n)) = n
      /\ \A i \in 1 .. n : SubSeq(s, 1, n)[i] = s[i]
  <2>1. 1 \in Int /\ n \in Int /\ 1 <= n + 1 /\ \A i \in 1 .. n : s[i] \in S
    OBVIOUS
  <2> QED
    BY <2>1, SubSeqProperties
<1>2. s[n + 1] \in S
  OBVIOUS
<1> DEFINE front == SubSeq(s, 1, n)
           t == Append(front, s[n + 1])
<1> HIDE DEF front
<1>3. front \in Seq(S) /\ Len(front) = n /\ \A i \in 1 .. n : front[i] = s[i]
  BY <1>1 DEF front
<1>4. t \in Seq(S) /\ Len(t) = n + 1 /\ \A i \in 1 .. n : t[i] = s[i]
  BY <1>2, <1>3
<1>5. t[n + 1] = s[n + 1]
  BY <1>2, <1>3
<1>6. \A i \in 1 .. n + 1 : t[i] = s[i]
  BY <1>4, <1>5
<1> HIDE DEF t
<1>7. s = t
  BY <1>4, <1>6
<1> QED
  BY <1>2, <1>3, <1>7 DEF t, front

LEMMA SeqInduction ==
  ASSUME NEW S, NEW P, <<>> \in P,
         \A s \in Seq(S) : s \in P => \A x \in S : Append(s, x) \in P
  PROVE  \A s \in Seq(S) : s \in P
<1> DEFINE Q == {n \in Nat : \A s \in Seq(S) : Len(s) = n => s \in P}
<1>1. 0 \in Q
  <2>1. \A s \in Seq(S) : Len(s) = 0 => s = <<>>
    OBVIOUS
  <2> QED
    BY <2>1
<1>2. ASSUME NEW n \in Nat, n \in Q PROVE n + 1 \in Q
  <2> SUFFICES ASSUME NEW s \in Seq(S), Len(s) = n + 1 PROVE s \in P
    OBVIOUS
  <2>1. /\ SubSeq(s, 1, n) \in Seq(S) /\ Len(SubSeq(s, 1, n)) = n /\ s[n + 1] \in S
        /\ s = Append(SubSeq(s, 1, n), s[n + 1])
    BY FrontLast
  <2>2. SubSeq(s, 1, n) \in P
    BY <1>2, <2>1
  <2> QED
    BY <2>1, <2>2
<1> HIDE DEF Q
<1>3. \A n \in Nat : n \in Q
  BY <1>1, <1>2, SetInduction
<1> QED
  BY <1>3 DEF Q

(* The recursion of Kept has a solution, and only one. *)
KeptBy(f, s, K, n) ==
  f = [i \in 0 .. n |-> IF i = 0 THEN <<>>
                        ELSE IF s[i] \in K THEN Append(f[i - 1], s[i])
                        ELSE f[i - 1]]

LEMMA KeptExists ==
  ASSUME NEW s, NEW K
  PROVE  \A n \in Nat : \E f : KeptBy(f, s, K, n)
<1> DEFINE P == {n \in Nat : \E f : KeptBy(f, s, K, n)}
<1>1. 0 \in P
  <2> DEFINE f == [i \in 0 .. 0 |-> <<>>]
  <2>1. KeptBy(f, s, K, 0)
    BY DEF KeptBy
  <2> QED
    BY <2>1
<1>2. ASSUME NEW n \in Nat, n \in P PROVE n + 1 \in P
  <2>1. PICK f : KeptBy(f, s, K, n)
    BY <1>2
  <2> DEFINE last == IF s[n + 1] \in K THEN Append(f[n], s[n + 1]) ELSE f[n]
             g == [i \in 0 .. n + 1 |-> IF i = n + 1 THEN last ELSE f[i]]
  <2>2. \A i \in 0 .. n : i \in 0 .. n + 1 /\ i # n + 1 /\ g[i] = f[i]
    OBVIOUS
  <2>3. ASSUME NEW i \in 0 .. n + 1
        PROVE  g[i] = IF i = 0 THEN <<>>
                      ELSE IF s[i] \in K THEN Append(g[i - 1], s[i])
                      ELSE g[i - 1]
    <3>1. CASE i = n + 1
      <4>1. i - 1 = n /\ n \in 0 .. n /\ i # 0
        BY <3>1
      <4>2. g[i] = last /\ g[i - 1] = f[n]
        BY <2>2, <3>1, <4>1
      <4> HIDE DEF g
      <4> QED
        BY <3>1, <4>1, <4>2
    <3>2. CASE i # n + 1 /\ i # 0
      <4>1. i \in 0 .. n /\ i - 1 \in 0 .. n
        BY <3>2
      <4>2. g[i] = f[i] /\ g[i - 1] = f[i - 1]
        BY <2>2, <4>1
      <4> HIDE DEF g
      <4> QED
        BY <2>1, <3>2, <4>1, <4>2 DEF KeptBy
    <3>3. CASE i = 0
      <4>1. 0 \in 0 .. n /\ g[0] = f[0]
        BY <2>2
      <4> HIDE DEF g
      <4> QED
        BY <2>1, <3>3, <4>1 DEF KeptBy
    <3> QED
      BY <3>1, <3>2, <3>3
  <2>4. g = [i \in 0 .. n + 1 |-> g[i]]
    OBVIOUS
  <2> HIDE DEF g
  <2>5. KeptBy(g, s, K, n + 1)
    BY <2>3, <2>4 DEF KeptBy
  <2> QED
    BY <2>5
<1> HIDE DEF P
<1>3. \A n \in Nat : n \in P
  BY <1>1, <1>2, SetInduction
<1> QED
  BY <1>3 DEF P

(* How Kept goes along a sequence. *)
KeptAlong(f, s, K) ==
  /\ f[0] = <<>>
  /\ \A i \in 1 .. Len(s) : f[i] = IF s[i] \in K THEN Append(f[i - 1], s[i]) ELSE f[i - 1]

LEMMA KeptIs ==
  ASSUME NEW S, NEW s \in Seq(S), NEW K
  PROVE  \E f : KeptAlong(f, s, K) /\ Kept(s, K) = f[Len(s)]
<1> DEFINE f == CHOOSE f : KeptBy(f, s, K, Len(s))
<1>1. PICK n \in Nat : n = Len(s)
  OBVIOUS
<1>2. KeptBy(f, s, K, n)
  BY <1>1, KeptExists
<1>3. Kept(s, K) = f[n]
  BY <1>1 DEF Kept, KeptBy
<1> HIDE DEF f
<1>4. f[0] = <<>>
  <2>1. 0 \in 0 .. n
    OBVIOUS
  <2> QED
    BY <1>2, <2>1 DEF KeptBy
<1>5. ASSUME NEW i \in 1 .. n
      PROVE  f[i] = IF s[i] \in K THEN Append(f[i - 1], s[i]) ELSE f[i - 1]
  <2>1. i \in 0 .. n /\ i # 0
    OBVIOUS
  <2> QED
    BY <1>2, <2>1 DEF KeptBy
<1> QED
  BY <1>1, <1>3, <1>4, <1>5 DEF KeptAlong

LEMMA KeptOnce ==
  ASSUME NEW s, NEW t, NEW K, NEW n \in Nat, n <= Len(s), n <= Len(t),
         Len(s) \in Nat, Len(t) \in Nat,
         \A i \in 1 .. n : s[i] = t[i],
         NEW f, NEW g, KeptAlong(f, s, K), KeptAlong(g, t, K)
  PROVE  f[n] = g[n]
<1> DEFINE P == {k \in Nat : k <= n => f[k] = g[k]}
<1>1. 0 \in P
  BY DEF KeptAlong
<1>2. ASSUME NEW k \in Nat, k \in P PROVE k + 1 \in P
  <2> SUFFICES ASSUME k + 1 <= n PROVE f[k + 1] = g[k + 1]
    OBVIOUS
  <2>1. /\ k + 1 \in 1 .. n /\ k + 1 \in 1 .. Len(s) /\ k + 1 \in 1 .. Len(t)
        /\ (k + 1) - 1 = k /\ k <= n
    OBVIOUS
  <2>2. f[k] = g[k] /\ s[k + 1] = t[k + 1]
    BY <1>2, <2>1
  <2> QED
    BY <2>1, <2>2 DEF KeptAlong
<1> HIDE DEF P
<1>3. \A k \in Nat : k \in P
  BY <1>1, <1>2, SetInduction
<1> QED
  BY <1>3 DEF P

LEMMA KeptEmpty == ASSUME NEW K PROVE Kept(<<>>, K) = <<>>
<1>1. <<>> \in Seq({}) /\ Len(<<>>) = 0
  OBVIOUS
<1>2. PICK f : KeptAlong(f, <<>>, K) /\ Kept(<<>>, K) = f[Len(<<>>)]
  BY <1>1, KeptIs
<1> QED
  BY <1>1, <1>2 DEF KeptAlong

LEMMA KeptAppend ==
  ASSUME NEW S, NEW s \in Seq(S), NEW x \in S, NEW K
  PROVE  Kept(Append(s, x), K) = IF x \in K THEN Append(Kept(s, K), x) ELSE Kept(s, K)
<1> DEFINE t == Append(s, x)
<1>1. PICK n \in Nat : n = Len(s)
  OBVIOUS
<1>2. t \in Seq(S) /\ Len(t) = n + 1 /\ (\A i \in 1 .. n : t[i] = s[i]) /\ t[n + 1] = x
  BY <1>1, AppendFacts
<1> HIDE DEF t
<1>3. PICK f : KeptAlong(f, s, K) /\ Kept(s, K) = f[n]
  BY <1>1, KeptIs
<1>4. PICK g : KeptAlong(g, t, K) /\ Kept(t, K) = g[n + 1]
  BY <1>2, KeptIs
<1>5. f[n] = g[n]
  BY <1>1, <1>2, <1>3, <1>4, KeptOnce
<1>6. n + 1 \in 1 .. Len(t) /\ (n + 1) - 1 = n
  BY <1>2
<1>7. g[n + 1] = IF x \in K THEN Append(g[n], x) ELSE g[n]
  BY <1>2, <1>4, <1>6 DEF KeptAlong
<1> QED
  BY <1>3, <1>4, <1>5, <1>7 DEF t

LEMMA KeptType ==
  ASSUME NEW S, NEW K
  PROVE  \A s \in Seq(S) : Kept(s, K) \in Seq(S)
<1> DEFINE P == {s \in Seq(S) : Kept(s, K) \in Seq(S)}
<1>1. <<>> \in P
  <2>1. <<>> \in Seq(S)
    OBVIOUS
  <2> QED
    BY <2>1, KeptEmpty
<1>2. ASSUME NEW s \in Seq(S), s \in P, NEW x \in S PROVE Append(s, x) \in P
  <2>1. Kept(Append(s, x), K) = IF x \in K THEN Append(Kept(s, K), x) ELSE Kept(s, K)
    BY KeptAppend
  <2>2. Append(s, x) \in Seq(S) /\ Append(Kept(s, K), x) \in Seq(S)
    BY <1>2, AppendFacts
  <2> QED
    BY <1>2, <2>1, <2>2
<1> HIDE DEF P
<1>3. \A s \in Seq(S) : s \in P
  BY <1>1, <1>2, SeqInduction
<1> QED
  BY <1>3 DEF P

LEMMA KeptConcat ==
  ASSUME NEW S, NEW K, NEW s \in Seq(S)
  PROVE  \A t \in Seq(S) : Kept(s \o t, K) = Kept(s, K) \o Kept(t, K)
<1> DEFINE P == {t \in Seq(S) : Kept(s \o t, K) = Kept(s, K) \o Kept(t, K)}
<1>1. <<>> \in P
  <2>1. s \o <<>> = s /\ Kept(s, K) \in Seq(S)
    BY KeptType
  <2>2. Kept(s, K) \o <<>> = Kept(s, K)
    BY <2>1
  <2> QED
    BY <2>1, <2>2, KeptEmpty
<1>2. ASSUME NEW t \in Seq(S), t \in P, NEW x \in S PROVE Append(t, x) \in P
  <2>1. s \o Append(t, x) = Append(s \o t, x) /\ s \o t \in Seq(S)
    OBVIOUS
  <2>2. Kept(s \o Append(t, x), K) = IF x \in K THEN Append(Kept(s \o t, K), x)
                                      ELSE Kept(s \o t, K)
    BY <2>1, KeptAppend
  <2>3. Kept(Append(t, x), K) = IF x \in K THEN Append(Kept(t, K), x) ELSE Kept(t, K)
    BY KeptAppend
  <2>4. Kept(s, K) \in Seq(S) /\ Kept(t, K) \in Seq(S)
    BY KeptType
  <2>5. Kept(s, K) \o Append(Kept(t, K), x) = Append(Kept(s, K) \o Kept(t, K), x)
    BY <2>4
  <2>6. Kept(s \o t, K) = Kept(s, K) \o Kept(t, K)
    BY <1>2
  <2>7. Kept(s \o Append(t, x), K) = Kept(s, K) \o Kept(Append(t, x), K)
    BY <2>2, <2>3, <2>5, <2>6
  <2>8. Append(t, x) \in Seq(S)
    BY AppendFacts
  <2> QED
    BY <2>7, <2>8
<1> HIDE DEF P
<1>3. \A t \in Seq(S) : t \in P
  BY <1>1, <1>2, SeqInduction
<1> QED
  BY <1>3 DEF P

(* Keeping more first makes no difference. *)
LEMMA KeptKept ==
  ASSUME NEW S, NEW K, NEW L
  PROVE  \A s \in Seq(S) :
           (\A i \in DOMAIN s : s[i] \in K => s[i] \in L) => Kept(Kept(s, L), K) = Kept(s, K)
<1> DEFINE Fits(s) == \A i \in DOMAIN s : s[i] \in K => s[i] \in L
           P == {s \in Seq(S) : Fits(s) => Kept(Kept(s, L), K) = Kept(s, K)}
<1>1. <<>> \in P
  BY KeptEmpty
<1>2. ASSUME NEW s \in Seq(S), s \in P, NEW x \in S PROVE Append(s, x) \in P
  <2>0. Append(s, x) \in Seq(S)
    BY AppendFacts
  <2> SUFFICES ASSUME Fits(Append(s, x))
               PROVE  Kept(Kept(Append(s, x), L), K) = Kept(Append(s, x), K)
    BY <2>0
  <2>1. Fits(s) /\ (x \in K => x \in L)
    <3>1. PICK n \in Nat : n = Len(s)
      OBVIOUS
    <3>2. /\ DOMAIN s = 1 .. n /\ DOMAIN Append(s, x) = 1 .. n + 1
          /\ (\A i \in 1 .. n : Append(s, x)[i] = s[i]) /\ Append(s, x)[n + 1] = x
      BY <3>1, AppendFacts
    <3>3. n + 1 \in 1 .. n + 1 /\ \A i \in 1 .. n : i \in 1 .. n + 1
      OBVIOUS
    <3> QED
      BY <3>2, <3>3
  <2>2. Kept(Kept(s, L), K) = Kept(s, K)
    BY <1>2, <2>1
  <2>3. Kept(s, L) \in Seq(S)
    BY KeptType
  <2>4. Kept(Append(s, x), L) = IF x \in L THEN Append(Kept(s, L), x) ELSE Kept(s, L)
    BY KeptAppend
  <2>5. Kept(Append(Kept(s, L), x), K) = IF x \in K THEN Append(Kept(Kept(s, L), K), x)
                                         ELSE Kept(Kept(s, L), K)
    BY <2>3, KeptAppend
  <2>6. Kept(Append(s, x), K) = IF x \in K THEN Append(Kept(s, K), x) ELSE Kept(s, K)
    BY KeptAppend
  <2> QED
    BY <2>1, <2>2, <2>4, <2>5, <2>6
<1> HIDE DEF P
<1>3. \A s \in Seq(S) : s \in P
  BY <1>1, <1>2, SeqInduction
<1> QED
  BY <1>3 DEF P

(* What is kept are the elements in K. *)
LEMMA KeptElements ==
  ASSUME NEW S, NEW K
  PROVE  \A s \in Seq(S) : Range(Kept(s, K)) = Range(s) \cap K
<1> DEFINE P == {s \in Seq(S) : Range(Kept(s, K)) = Range(s) \cap K}
<1>0. ASSUME NEW s \in Seq(S), NEW x \in S PROVE Range(Append(s, x)) = Range(s) \cup {x}
  <2>1. PICK n \in Nat : n = Len(s)
    OBVIOUS
  <2>2. /\ DOMAIN s = 1 .. n /\ DOMAIN Append(s, x) = 1 .. n + 1
        /\ (\A i \in 1 .. n : Append(s, x)[i] = s[i]) /\ Append(s, x)[n + 1] = x
    BY <2>1, AppendFacts
  <2>3. n + 1 \in 1 .. n + 1 /\ (\A i \in 1 .. n : i \in 1 .. n + 1)
          /\ \A i \in 1 .. n + 1 : i \in 1 .. n \/ i = n + 1
    OBVIOUS
  <2> QED
    BY <2>2, <2>3 DEF Range
<1>1. <<>> \in P
  BY KeptEmpty DEF Range
<1>2. ASSUME NEW s \in Seq(S), s \in P, NEW x \in S PROVE Append(s, x) \in P
  <2>1. Kept(s, K) \in Seq(S)
    BY KeptType
  <2>2. Kept(Append(s, x), K) = IF x \in K THEN Append(Kept(s, K), x) ELSE Kept(s, K)
    BY KeptAppend
  <2>3. /\ Range(Append(s, x)) = Range(s) \cup {x}
        /\ Range(Append(Kept(s, K), x)) = Range(Kept(s, K)) \cup {x}
    BY <1>0, <2>1
  <2>4. Append(s, x) \in Seq(S)
    BY AppendFacts
  <2>5. Range(Kept(s, K)) = Range(s) \cap K
    BY <1>2
  <2>6. Range(Kept(Append(s, x), K)) = Range(Append(s, x)) \cap K
    BY <2>2, <2>3, <2>5
  <2> QED
    BY <2>4, <2>6
<1> HIDE DEF P
<1>3. \A s \in Seq(S) : s \in P
  BY <1>1, <1>2, SeqInduction
<1> QED
  BY <1>3 DEF P

LEMMA KeptNone ==
  ASSUME NEW S, NEW K, NEW s \in Seq(S), Range(s) \cap K = {}
  PROVE  Kept(s, K) = <<>>
<1>1. Range(Kept(s, K)) = {} /\ Kept(s, K) \in Seq(S)
  BY KeptElements, KeptType
<1>2. \A q \in Seq(S) : Range(q) = {} => q = <<>>
  <2> SUFFICES ASSUME NEW q \in Seq(S), q # <<>> PROVE Range(q) # {}
    OBVIOUS
  <2>1. 1 \in DOMAIN q
    OBVIOUS
  <2> QED
    BY <2>1 DEF Range
<1> QED
  BY <1>1, <1>2

-----------------------------------------------------------------------------
(* Groups of handlers, as one sequence. *)

FlattenAlong(f, gs) ==
  /\ f[1] = gs[1]
  /\ \A i \in 2 .. Len(gs) : f[i] = f[i - 1] \o gs[i]

FlattenBy(f, gs, n) ==
  f = [i \in 1 .. n |-> IF i = 1 THEN gs[i] ELSE f[i - 1] \o gs[i]]

LEMMA FlattenExists ==
  ASSUME NEW gs
  PROVE  \A n \in Nat : \E f : FlattenBy(f, gs, n)
<1> DEFINE P == {n \in Nat : \E f : FlattenBy(f, gs, n)}
<1>1. 0 \in P
  <2> DEFINE f == [i \in {} |-> gs]
  <2>1. 1 .. 0 = {}
    OBVIOUS
  <2>2. FlattenBy(f, gs, 0)
    BY <2>1 DEF FlattenBy
  <2> QED
    BY <2>2
<1>2. ASSUME NEW n \in Nat, n \in P PROVE n + 1 \in P
  <2>1. PICK f : FlattenBy(f, gs, n)
    BY <1>2
  <2> DEFINE last == IF n = 0 THEN gs[1] ELSE f[n] \o gs[n + 1]
             g == [i \in 1 .. n + 1 |-> IF i = n + 1 THEN last ELSE f[i]]
  <2>2. \A i \in 1 .. n : i \in 1 .. n + 1 /\ i # n + 1 /\ g[i] = f[i]
    OBVIOUS
  <2>3. ASSUME NEW i \in 1 .. n + 1
        PROVE  g[i] = IF i = 1 THEN gs[i] ELSE g[i - 1] \o gs[i]
    <3>1. CASE i = n + 1 /\ i # 1
      <4>1. i - 1 = n /\ n \in 1 .. n /\ n # 0
        BY <3>1
      <4>2. g[i] = last /\ g[i - 1] = f[n]
        BY <2>2, <3>1, <4>1
      <4> HIDE DEF g
      <4> QED
        BY <3>1, <4>1, <4>2
    <3>2. CASE i = n + 1 /\ i = 1
      <4>1. g[i] = last /\ n = 0
        BY <3>2
      <4> HIDE DEF g
      <4> QED
        BY <3>2, <4>1
    <3>3. CASE i # n + 1 /\ i # 1
      <4>1. i \in 1 .. n /\ i - 1 \in 1 .. n
        BY <3>3
      <4>2. g[i] = f[i] /\ g[i - 1] = f[i - 1]
        BY <2>2, <4>1
      <4> HIDE DEF g
      <4> QED
        BY <2>1, <3>3, <4>1, <4>2 DEF FlattenBy
    <3>4. CASE i # n + 1 /\ i = 1
      <4>1. i \in 1 .. n
        BY <3>4
      <4>2. g[i] = f[i]
        BY <2>2, <4>1
      <4> HIDE DEF g
      <4> QED
        BY <2>1, <3>4, <4>1, <4>2 DEF FlattenBy
    <3> QED
      BY <3>1, <3>2, <3>3, <3>4
  <2>4. g = [i \in 1 .. n + 1 |-> g[i]]
    OBVIOUS
  <2> HIDE DEF g
  <2>5. FlattenBy(g, gs, n + 1)
    BY <2>3, <2>4 DEF FlattenBy
  <2> QED
    BY <2>5
<1> HIDE DEF P
<1>3. \A n \in Nat : n \in P
  BY <1>1, <1>2, SetInduction
<1> QED
  BY <1>3 DEF P

LEMMA FlattenIs ==
  ASSUME NEW G, NEW gs \in Seq(G), gs # <<>>
  PROVE  \E f : FlattenAlong(f, gs) /\ FlattenSeq(gs) = f[Len(gs)]
<1> DEFINE f == CHOOSE f : FlattenBy(f, gs, Len(gs))
<1>1. PICK n \in Nat : n = Len(gs)
  OBVIOUS
<1>2. FlattenBy(f, gs, n)
  BY <1>1, FlattenExists
<1>3. n # 0
  BY <1>1
<1>4. FlattenSeq(gs) = f[n]
  BY <1>1, <1>3 DEF FlattenSeq, FlattenBy
<1> HIDE DEF f
<1>5. f[1] = gs[1]
  <2>1. 1 \in 1 .. n
    BY <1>3
  <2> QED
    BY <1>2, <2>1 DEF FlattenBy
<1>6. ASSUME NEW i \in 2 .. n PROVE f[i] = f[i - 1] \o gs[i]
  <2>1. i \in 1 .. n /\ i # 1
    OBVIOUS
  <2> QED
    BY <1>2, <2>1 DEF FlattenBy
<1> QED
  BY <1>1, <1>4, <1>5, <1>6 DEF FlattenAlong

LEMMA FlattenEmpty == FlattenSeq(<<>>) = <<>>
BY DEF FlattenSeq

LEMMA FlattenOne ==
  ASSUME NEW S, NEW gs \in Seq(Seq(S)), NEW g \in Seq(S)
  PROVE  FlattenSeq(Append(gs, g)) = IF gs = <<>> THEN g ELSE FlattenSeq(gs) \o g
<1> DEFINE hs == Append(gs, g)
           G == Seq(S)
<1> HIDE DEF G
<1>0. gs \in Seq(G) /\ g \in G
  BY DEF G
<1>1. PICK n \in Nat : n = Len(gs)
  BY <1>0
<1>2. hs \in Seq(G) /\ Len(hs) = n + 1 /\ (\A i \in 1 .. n : hs[i] = gs[i]) /\ hs[n + 1] = g
  BY <1>0, <1>1, AppendFacts
<1> HIDE DEF hs
<1>3. hs # <<>>
  BY <1>2
<1>4. PICK f : FlattenAlong(f, hs) /\ FlattenSeq(hs) = f[n + 1]
  BY <1>2, <1>3, FlattenIs
<1>5. CASE gs = <<>>
  <2>1. n = 0
    BY <1>1, <1>5
  <2>2. f[1] = g
    BY <1>2, <1>4, <2>1 DEF FlattenAlong
  <2> QED
    BY <1>4, <1>5, <2>1, <2>2 DEF hs
<1>6. CASE gs # <<>>
  <2>1. PICK k : FlattenAlong(k, gs) /\ FlattenSeq(gs) = k[n]
    BY <1>0, <1>1, <1>6, FlattenIs
  <2>2. n # 0
    BY <1>0, <1>1, <1>6
  <2>3. k[n] = f[n]
    <3> DEFINE P == {i \in Nat : i + 1 <= n => k[i + 1] = f[i + 1]}
    <3>1. 0 \in P
      <4>1. k[1] = gs[1] /\ f[1] = hs[1] /\ 1 \in 1 .. n
        BY <1>1, <1>4, <2>1, <2>2 DEF FlattenAlong
      <4> QED
        BY <1>2, <4>1
    <3>2. ASSUME NEW i \in Nat, i \in P PROVE i + 1 \in P
      <4> SUFFICES ASSUME (i + 1) + 1 <= n PROVE k[(i + 1) + 1] = f[(i + 1) + 1]
        OBVIOUS
      <4>1. PICK m \in Nat : m = (i + 1) + 1
        OBVIOUS
      <4>2. m \in 1 .. n /\ m \in 2 .. Len(gs) /\ m \in 2 .. Len(hs) /\ m - 1 = i + 1 /\ i + 1 <= n
        BY <1>1, <1>2, <4>1
      <4>3. k[m] = k[i + 1] \o gs[m] /\ f[m] = f[i + 1] \o hs[m]
        BY <1>4, <2>1, <4>2 DEF FlattenAlong
      <4>4. k[i + 1] = f[i + 1] /\ gs[m] = hs[m]
        BY <1>2, <3>2, <4>2
      <4>5. k[m] = f[m]
        BY <4>3, <4>4
      <4> QED
        BY <4>1, <4>5
    <3> HIDE DEF P
    <3>3. \A i \in Nat : i \in P
      BY <3>1, <3>2, SetInduction
    <3>4. n - 1 \in Nat /\ (n - 1) + 1 = n
      BY <1>1, <2>2
    <3>5. n - 1 \in P
      BY <3>3, <3>4
    <3> QED
      BY <3>4, <3>5 DEF P
  <2>4. n + 1 \in 2 .. Len(hs) /\ (n + 1) - 1 = n
    BY <1>2, <2>2
  <2>5. f[n + 1] = f[n] \o hs[n + 1]
    BY <1>4, <2>4 DEF FlattenAlong
  <2> QED
    BY <1>2, <1>4, <1>6, <2>1, <2>3, <2>5 DEF hs
<1> QED
  BY <1>5, <1>6

LEMMA FlattenAppend ==
  ASSUME NEW S, NEW gs \in Seq(Seq(S)), NEW g \in Seq(S)
  PROVE  FlattenSeq(Append(gs, g)) = FlattenSeq(gs) \o g
<1>1. CASE gs = <<>>
  <2>1. <<>> \o g = g
    OBVIOUS
  <2> QED
    BY <1>1, <2>1, FlattenOne, FlattenEmpty
<1>2. CASE gs # <<>>
  BY <1>2, FlattenOne
<1> QED
  BY <1>1, <1>2

LEMMA FlattenType ==
  ASSUME NEW S
  PROVE  \A gs \in Seq(Seq(S)) : FlattenSeq(gs) \in Seq(S)
<1> DEFINE G == Seq(S)
           P == {gs \in Seq(G) : FlattenSeq(gs) \in Seq(S)}
<1>1. <<>> \in P
  <2>1. <<>> \in Seq(G) /\ <<>> \in Seq(S)
    OBVIOUS
  <2> QED
    BY <2>1, FlattenEmpty
<1>2. ASSUME NEW gs \in Seq(G), gs \in P, NEW g \in G PROVE Append(gs, g) \in P
  <2>1. FlattenSeq(gs) \in Seq(S) /\ g \in Seq(S) /\ gs \in Seq(Seq(S))
    BY <1>2
  <2>2. FlattenSeq(Append(gs, g)) = FlattenSeq(gs) \o g
    BY <2>1, FlattenAppend
  <2>3. FlattenSeq(gs) \o g \in Seq(S)
    BY <2>1
  <2>4. Append(gs, g) \in Seq(G)
    BY AppendFacts
  <2> QED
    BY <2>2, <2>3, <2>4
<1> HIDE DEF P, G
<1>3. \A gs \in Seq(G) : gs \in P
  BY <1>1, <1>2, SeqInduction
<1> QED
  BY <1>3 DEF P, G

LEMMA RangeOfAppend ==
  ASSUME NEW S, NEW s \in Seq(S), NEW x \in S
  PROVE  Range(Append(s, x)) = Range(s) \cup {x}
<1>1. PICK n \in Nat : n = Len(s)
  OBVIOUS
<1>2. /\ DOMAIN s = 1 .. n /\ DOMAIN Append(s, x) = 1 .. n + 1
      /\ (\A i \in 1 .. n : Append(s, x)[i] = s[i]) /\ Append(s, x)[n + 1] = x
  BY <1>1, AppendFacts
<1>3. n + 1 \in 1 .. n + 1 /\ (\A i \in 1 .. n : i \in 1 .. n + 1)
        /\ \A i \in 1 .. n + 1 : i \in 1 .. n \/ i = n + 1
  OBVIOUS
<1> QED
  BY <1>2, <1>3 DEF Range

LEMMA RangeOfConcat ==
  ASSUME NEW S, NEW s \in Seq(S)
  PROVE  \A t \in Seq(S) : Range(s \o t) = Range(s) \cup Range(t)
<1> DEFINE P == {t \in Seq(S) : Range(s \o t) = Range(s) \cup Range(t)}
<1>1. <<>> \in P
  <2>1. s \o <<>> = s /\ <<>> \in Seq(S)
    OBVIOUS
  <2>2. Range(<<>>) = {}
    BY DEF Range
  <2> QED
    BY <2>1, <2>2
<1>2. ASSUME NEW t \in Seq(S), t \in P, NEW x \in S PROVE Append(t, x) \in P
  <2>1. s \o Append(t, x) = Append(s \o t, x) /\ s \o t \in Seq(S)
    OBVIOUS
  <2>2. Range(Append(s \o t, x)) = Range(s \o t) \cup {x}
    <3>1. PICK r \in Seq(S) : r = s \o t
      BY <2>1
    <3>2. Range(Append(r, x)) = Range(r) \cup {x}
      BY RangeOfAppend
    <3> QED
      BY <3>1, <3>2
  <2>3. Range(Append(t, x)) = Range(t) \cup {x}
    BY RangeOfAppend
  <2>4. Range(s \o t) = Range(s) \cup Range(t)
    BY <1>2
  <2>5. Append(t, x) \in Seq(S)
    BY AppendFacts
  <2>6. Range(s \o Append(t, x)) = Range(s) \cup Range(Append(t, x))
    BY <2>1, <2>2, <2>3, <2>4
  <2> QED
    BY <2>5, <2>6
<1> HIDE DEF P
<1>3. \A t \in Seq(S) : t \in P
  BY <1>1, <1>2, SeqInduction
<1> QED
  BY <1>3 DEF P

(* The elements of all groups. *)
LEMMA FlattenElements ==
  ASSUME NEW S
  PROVE  \A gs \in Seq(Seq(S)) : Range(FlattenSeq(gs)) = UNION {Range(g) : g \in Range(gs)}
<1> DEFINE G == Seq(S)
           All(gs) == UNION {Range(g) : g \in Range(gs)}
           P == {gs \in Seq(G) : Range(FlattenSeq(gs)) = All(gs)}
<1>1. <<>> \in P
  <2>1. <<>> \in Seq(G)
    OBVIOUS
  <2>2. Range(<<>>) = {}
    BY DEF Range
  <2> QED
    BY <2>1, <2>2, FlattenEmpty
<1>2. ASSUME NEW gs \in Seq(G), gs \in P, NEW g \in G PROVE Append(gs, g) \in P
  <2>1. /\ FlattenSeq(gs) \in Seq(S) /\ g \in Seq(S) /\ gs \in Seq(Seq(S))
        /\ Range(FlattenSeq(gs)) = All(gs)
    BY <1>2, FlattenType
  <2>2. FlattenSeq(Append(gs, g)) = FlattenSeq(gs) \o g
    BY <2>1, FlattenAppend
  <2>3. Range(FlattenSeq(gs) \o g) = All(gs) \cup Range(g)
    BY <2>1, RangeOfConcat
  <2>4. Append(gs, g) \in Seq(G)
    BY AppendFacts
  <2>5. Range(Append(gs, g)) = Range(gs) \cup {g}
    BY RangeOfAppend
  <2>6. All(Append(gs, g)) = All(gs) \cup Range(g)
    BY <2>5
  <2> HIDE DEF All
  <2> QED
    BY <2>2, <2>3, <2>4, <2>6
<1> HIDE DEF P, G
<1>3. \A gs \in Seq(G) : gs \in P
  BY <1>1, <1>2, SeqInduction
<1> QED
  BY <1>3 DEF P, G

-----------------------------------------------------------------------------
(* The user's handlers in the groups of an event, in their order. *)
Mine == {x \in Handler : x.id \in User}
Groups == Seq(Seq(Handler))
Files == [Event -> Groups]
MineIn(groups) == Kept(FlattenSeq(groups), Mine)

LEMMA MineInAppend ==
  ASSUME NEW gs \in Groups, NEW g \in Seq(Handler)
  PROVE  MineIn(Append(gs, g)) = MineIn(gs) \o Kept(g, Mine)
<1>1. gs \in Seq(Seq(Handler))
  BY DEF Groups
<1>2. FlattenSeq(gs) \in Seq(Handler) /\ FlattenSeq(Append(gs, g)) = FlattenSeq(gs) \o g
  BY <1>1, FlattenType, FlattenAppend
<1>3. Kept(FlattenSeq(gs) \o g, Mine) = Kept(FlattenSeq(gs), Mine) \o Kept(g, Mine)
  BY <1>2, KeptConcat
<1> QED
  BY <1>2, <1>3 DEF MineIn

LEMMA MineInType == \A gs \in Groups : MineIn(gs) \in Seq(Handler)
<1> SUFFICES ASSUME NEW gs \in Groups PROVE MineIn(gs) \in Seq(Handler)
  OBVIOUS
<1>1. FlattenSeq(gs) \in Seq(Handler)
  BY FlattenType DEF Groups
<1> QED
  BY <1>1, KeptType DEF MineIn

LEMMA NoGroups == <<>> \in Groups /\ MineIn(<<>>) = <<>>
<1>1. <<>> \in Seq(Seq(Handler))
  OBVIOUS
<1> QED
  BY <1>1, FlattenEmpty, KeptEmpty DEF MineIn, Groups

(* Groups without a handler of the user's can go. *)
LEMMA GroupsGo ==
  ASSUME NEW K
  PROVE  \A gs \in Groups :
           (\A i \in DOMAIN gs : gs[i] \notin K => Range(gs[i]) \cap Mine = {})
             => MineIn(Kept(gs, K)) = MineIn(gs)
<1> DEFINE G == Seq(Handler)
           Fits(gs) == \A i \in DOMAIN gs : gs[i] \notin K => Range(gs[i]) \cap Mine = {}
           P == {gs \in Seq(G) : Fits(gs) => MineIn(Kept(gs, K)) = MineIn(gs)}
<1>1. <<>> \in P
  <2>1. <<>> \in Seq(G)
    OBVIOUS
  <2> QED
    BY <2>1, KeptEmpty
<1>2. ASSUME NEW gs \in Seq(G), gs \in P, NEW g \in G PROVE Append(gs, g) \in P
  <2>0. Append(gs, g) \in Seq(G)
    BY AppendFacts
  <2> SUFFICES ASSUME Fits(Append(gs, g))
               PROVE  MineIn(Kept(Append(gs, g), K)) = MineIn(Append(gs, g))
    BY <2>0
  <2>1. Fits(gs) /\ (g \notin K => Range(g) \cap Mine = {})
    <3>1. PICK n \in Nat : n = Len(gs)
      OBVIOUS
    <3>2. /\ DOMAIN gs = 1 .. n /\ DOMAIN Append(gs, g) = 1 .. n + 1
          /\ (\A i \in 1 .. n : Append(gs, g)[i] = gs[i]) /\ Append(gs, g)[n + 1] = g
      BY <3>1, AppendFacts
    <3>3. n + 1 \in 1 .. n + 1 /\ \A i \in 1 .. n : i \in 1 .. n + 1
      OBVIOUS
    <3> QED
      BY <3>2, <3>3
  <2>2. MineIn(Kept(gs, K)) = MineIn(gs)
    BY <1>2, <2>1
  <2>3. Kept(gs, K) \in Groups /\ gs \in Groups /\ g \in Seq(Handler)
    BY KeptType DEF Groups
  <2>4. Kept(Append(gs, g), K) = IF g \in K THEN Append(Kept(gs, K), g) ELSE Kept(gs, K)
    BY KeptAppend
  <2>5. /\ MineIn(Append(gs, g)) = MineIn(gs) \o Kept(g, Mine)
        /\ MineIn(Append(Kept(gs, K), g)) = MineIn(Kept(gs, K)) \o Kept(g, Mine)
    BY <2>3, MineInAppend
  <2>6. CASE g \in K
    BY <2>2, <2>4, <2>5, <2>6
  <2>7. CASE g \notin K
    <3>1. Kept(g, Mine) = <<>>
      BY <2>1, <2>3, <2>7, KeptNone
    <3>2. MineIn(gs) \o <<>> = MineIn(gs)
      BY <2>3, MineInType
    <3> QED
      BY <2>2, <2>4, <2>5, <2>7, <3>1, <3>2
  <2> QED
    BY <2>6, <2>7
<1> HIDE DEF P, G
<1>3. \A gs \in Seq(G) : gs \in P
  BY <1>1, <1>2, SeqInduction
<1> QED
  BY <1>3 DEF P, G, Groups

(* Groups that hold the same handlers of the user's, one by one. *)
LEMMA GroupsAlike ==
  ASSUME NEW gs \in Groups, NEW hs \in Groups, Len(gs) = Len(hs),
         \A i \in 1 .. Len(gs) : Kept(hs[i], Mine) = Kept(gs[i], Mine)
  PROVE  MineIn(hs) = MineIn(gs)
<1> DEFINE G == Seq(Handler)
           Alike(a, b, n) == /\ Len(a) = n /\ Len(b) = n
                             /\ \A i \in 1 .. n : Kept(b[i], Mine) = Kept(a[i], Mine)
           P == {n \in Nat : \A a, b \in Seq(G) : Alike(a, b, n) => MineIn(b) = MineIn(a)}
<1>1. 0 \in P
  <2>1. \A a \in Seq(G) : Len(a) = 0 => a = <<>>
    OBVIOUS
  <2> QED
    BY <2>1
<1>2. ASSUME NEW n \in Nat, n \in P PROVE n + 1 \in P
  <2> SUFFICES ASSUME NEW a \in Seq(G), NEW b \in Seq(G), Alike(a, b, n + 1)
               PROVE  MineIn(b) = MineIn(a)
    OBVIOUS
  <2> DEFINE fa == SubSeq(a, 1, n)
             fb == SubSeq(b, 1, n)
  <2>1. fa \in Seq(G) /\ Len(fa) = n /\ a[n + 1] \in G /\ a = Append(fa, a[n + 1])
    BY FrontLast
  <2>2. fb \in Seq(G) /\ Len(fb) = n /\ b[n + 1] \in G /\ b = Append(fb, b[n + 1])
    BY FrontLast
  <2> HIDE DEF fa, fb, G
  <2>3. \A i \in 1 .. n : fa[i] = a[i] /\ fb[i] = b[i]
    <3>1. \A i \in 1 .. n : Append(fa, a[n + 1])[i] = fa[i] /\ Append(fb, b[n + 1])[i] = fb[i]
      BY <2>1, <2>2, AppendFacts
    <3> QED
      BY <2>1, <2>2, <3>1
  <2>4. Alike(fa, fb, n)
    BY <2>1, <2>2, <2>3
  <2>5. MineIn(fb) = MineIn(fa)
    BY <1>2, <2>1, <2>2, <2>4
  <2>6. Kept(b[n + 1], Mine) = Kept(a[n + 1], Mine)
    OBVIOUS
  <2>7. /\ MineIn(Append(fa, a[n + 1])) = MineIn(fa) \o Kept(a[n + 1], Mine)
        /\ MineIn(Append(fb, b[n + 1])) = MineIn(fb) \o Kept(b[n + 1], Mine)
    <3>1. fa \in Groups /\ fb \in Groups /\ a[n + 1] \in Seq(Handler) /\ b[n + 1] \in Seq(Handler)
      BY <2>1, <2>2 DEF G, Groups
    <3> QED
      BY <3>1, MineInAppend
  <2> QED
    BY <2>1, <2>2, <2>5, <2>6, <2>7
<1> HIDE DEF P
<1>3. \A n \in Nat : n \in P
  BY <1>1, <1>2, SetInduction
<1>4. PICK n \in Nat : n = Len(gs)
  BY DEF Groups
<1>5. n \in P /\ gs \in Seq(G) /\ hs \in Seq(G) /\ Alike(gs, hs, n)
  BY <1>3, <1>4 DEF Groups
<1> QED
  BY <1>5 DEF P

(* Handlers that are not the user's can go (_remove_hook_commands_by_command). *)
LEMMA WithoutKeepsMine ==
  ASSUME NEW groups \in Groups, NEW gone, gone \cap Mine = {}
  PROVE  Without(groups, gone) \in Groups /\ MineIn(Without(groups, gone)) = MineIn(groups)
<1> DEFINE K == {g \in Range(groups) : g = <<>> \/ Range(g) \ gone # {}}
           left == Kept(groups, K)
           rest == [i \in DOMAIN left |-> Kept(left[i], Range(left[i]) \ gone)]
<1>1. Without(groups, gone) = rest
  BY DEF Without
<1>2. \A i \in DOMAIN groups : groups[i] \in Seq(Handler) /\ groups[i] \in Range(groups)
  BY DEF Groups, Range
<1>3. \A i \in DOMAIN groups : groups[i] \notin K => Range(groups[i]) \cap Mine = {}
  BY <1>2
<1> HIDE DEF K
<1>4. left \in Groups
  BY KeptType DEF Groups
<1>5. MineIn(left) = MineIn(groups)
  BY <1>3, GroupsGo
<1> HIDE DEF left
<1>6. PICK n \in Nat : /\ n = Len(left) /\ DOMAIN left = 1 .. n
                       /\ \A i \in 1 .. n : left[i] \in Seq(Handler)
  BY <1>4 DEF Groups
<1>7. ASSUME NEW i \in 1 .. n
      PROVE  rest[i] \in Seq(Handler) /\ Kept(rest[i], Mine) = Kept(left[i], Mine)
  <2> DEFINE g == left[i]
  <2>1. g \in Seq(Handler) /\ rest[i] = Kept(g, Range(g) \ gone)
    BY <1>6
  <2> HIDE DEF g, rest
  <2>2. \A j \in DOMAIN g : g[j] \in Mine => g[j] \in Range(g) \ gone
    BY DEF Range
  <2>3. Kept(Kept(g, Range(g) \ gone), Mine) = Kept(g, Mine)
    BY <2>1, <2>2, KeptKept
  <2>4. Kept(g, Range(g) \ gone) \in Seq(Handler)
    BY <2>1, KeptType
  <2> QED
    BY <2>1, <2>3, <2>4 DEF g
<1>8. rest \in Seq(Seq(Handler)) /\ Len(rest) = n
  <2> DEFINE G == Seq(Handler)
  <2>1. rest = [i \in 1 .. n |-> rest[i]]
    BY <1>6
  <2> HIDE DEF rest
  <2>2. \A i \in 1 .. n : rest[i] \in G
    BY <1>7
  <2> HIDE DEF G
  <2>3. rest \in Seq(G) /\ Len(rest) = n
    BY <1>6, <2>1, <2>2
  <2> QED
    BY <2>3 DEF G
<1> HIDE DEF rest
<1>9. MineIn(rest) = MineIn(left)
  <2>1. rest \in Groups /\ Len(left) = Len(rest)
        /\ \A i \in 1 .. Len(left) : Kept(rest[i], Mine) = Kept(left[i], Mine)
    BY <1>6, <1>7, <1>8 DEF Groups
  <2> QED
    BY <1>4, <2>1, GroupsAlike
<1> QED
  BY <1>1, <1>5, <1>8, <1>9 DEF Groups

(* A hooks file s2 holds the user's handlers as s1 does. *)
KeepsMine(s1, s2) == s2 \in Files /\ \A e \in Event : MineIn(s2[e]) = MineIn(s1[e])

LEMMA KeepsMineIsOrder ==
  ASSUME NEW s1, NEW s2, KeepsMine(s1, s2)
  PROVE  UserOrder(s2) = UserOrder(s1)
BY DEF KeepsMine, UserOrder, MineIn, Mine

LEMMA DropKeepsMine ==
  ASSUME NEW s \in Files, NEW gone, gone \cap Mine = {}
  PROVE  KeepsMine(s, Drop(s, gone))
<1>1. ASSUME NEW e \in Event
      PROVE  Without(s[e], gone) \in Groups /\ MineIn(Without(s[e], gone)) = MineIn(s[e])
  <2>1. s[e] \in Groups
    BY DEF Files
  <2> QED
    BY <2>1, WithoutKeepsMine
<1> QED
  BY <1>1 DEF Drop, KeepsMine, Files

(* Empty groups go at the end of an edit (_remove_empty_hook_groups). *)
LEMMA NoEmptyKeepsMine ==
  ASSUME NEW s \in Files
  PROVE  KeepsMine(s, NoEmpty(s))
<1>1. ASSUME NEW e \in Event
      PROVE  /\ Kept(s[e], Range(s[e]) \ {<<>>}) \in Groups
             /\ MineIn(Kept(s[e], Range(s[e]) \ {<<>>})) = MineIn(s[e])
  <2> DEFINE gs == s[e]
             K == Range(gs) \ {<<>>}
  <2>1. gs \in Groups
    BY DEF Files
  <2> HIDE DEF gs
  <2>2. Kept(gs, K) \in Groups
    BY <2>1, KeptType DEF Groups
  <2>3. \A i \in DOMAIN gs : gs[i] \notin K => Range(gs[i]) \cap Mine = {}
    <3>1. Range(<<>>) = {}
      BY DEF Range
    <3> QED
      BY <3>1 DEF Range
  <2> HIDE DEF K
  <2>4. MineIn(Kept(gs, K)) = MineIn(gs)
    BY <2>1, <2>3, GroupsGo
  <2> QED
    BY <2>2, <2>4 DEF gs, K
<1> QED
  BY <1>1 DEF NoEmpty, KeepsMine, Files

-----------------------------------------------------------------------------
(* Edits of the hooks file keep the user's handlers. *)

LEMMA KeepsMineOn ==
  ASSUME NEW s1, NEW s2, NEW s3, KeepsMine(s1, s2), KeepsMine(s2, s3)
  PROVE  KeepsMine(s1, s3)
BY DEF KeepsMine

(* _remove_stale_hook_entries and the append, for one hook of the suite or of  *)
(* an addon.                                                                   *)
LEMMA PlacedKeepsMine ==
  ASSUME NEW s \in Files, NEW x \in Handler, x.id \notin User
  PROVE  KeepsMine(s, Placed(s, x))
<1> DEFINE e == Home[x.id]
           kept == Without(s[e], {y \in Handler : y.id = x.id /\ y # x})
           there == IF x \in HandlersOf(kept) THEN kept ELSE Append(kept, <<x>>)
<1>1. Placed(s, x) = [s EXCEPT ![e] = there]
  BY DEF Placed
<1>2. CASE e \in Event
  <2>1. s[e] \in Groups
    BY <1>2 DEF Files
  <2>2. {y \in Handler : y.id = x.id /\ y # x} \cap Mine = {}
    BY DEF Mine
  <2>3. kept \in Groups /\ MineIn(kept) = MineIn(s[e])
    BY <2>1, <2>2, WithoutKeepsMine
  <2> HIDE DEF kept
  <2>4. <<x>> \in Seq(Handler) /\ Kept(<<x>>, Mine) = <<>>
    <3>1. <<x>> \in Seq(Handler) /\ Range(<<x>>) = {x}
      BY DEF Range
    <3>2. Range(<<x>>) \cap Mine = {}
      BY <3>1 DEF Mine
    <3> QED
      BY <3>1, <3>2, KeptNone
  <2>5. MineIn(Append(kept, <<x>>)) = MineIn(kept)
    <3>1. MineIn(kept) \in Seq(Handler)
      BY <2>3, MineInType
    <3>2. MineIn(kept) \o <<>> = MineIn(kept)
      BY <3>1
    <3> QED
      BY <2>3, <2>4, <3>2, MineInAppend
  <2>6. Append(kept, <<x>>) \in Groups
    BY <2>3, <2>4 DEF Groups
  <2>7. there \in Groups /\ MineIn(there) = MineIn(s[e])
    BY <2>3, <2>5, <2>6
  <2> HIDE DEF there, e
  <2> QED
    BY <1>1, <1>2, <2>7 DEF KeepsMine, Files
<1>3. CASE e \notin Event
  <2> HIDE DEF e, there, kept
  <2>1. Placed(s, x) = s
    BY <1>1, <1>3 DEF Files
  <2> QED
    BY <2>1 DEF KeepsMine
<1> QED
  BY <1>2, <1>3

(* A set of numbers up to n that is not empty has a greatest one. *)
LEMMA MaxExists ==
  \A n \in Nat : \A S \in SUBSET (1 .. n) : S # {} => Max(S) \in S /\ \A y \in S : Max(S) >= y
<1> DEFINE HasMax(S) == \E x \in S : \A y \in S : x >= y
           P == {n \in Nat : \A S \in SUBSET (1 .. n) : S # {} => HasMax(S)}
<1>1. 0 \in P
  <2>1. 1 .. 0 = {}
    OBVIOUS
  <2> QED
    BY <2>1
<1>2. ASSUME NEW n \in Nat, n \in P PROVE n + 1 \in P
  <2> SUFFICES ASSUME NEW S \in SUBSET (1 .. n + 1), S # {} PROVE HasMax(S)
    OBVIOUS
  <2>1. CASE n + 1 \in S
    BY <2>1
  <2>2. CASE n + 1 \notin S
    <3>1. S \in SUBSET (1 .. n)
      BY <2>2
    <3> QED
      BY <1>2, <3>1
  <2> QED
    BY <2>1, <2>2
<1> HIDE DEF P
<1>3. \A n \in Nat : n \in P
  BY <1>1, <1>2, SetInduction
<1> QED
  BY <1>3 DEF P, Max

(* The recursion of FoldLeft over the hooks to place has a solution. *)
PlacesBy(f, n, s, hooks) ==
  f = [k \in SUBSET (1 .. n) |->
         IF k = {} THEN s ELSE Placed(f[k \ {Max(k)}], hooks[Max(k)])]

LEMMA PlacesExist ==
  ASSUME NEW s, NEW hooks
  PROVE  \A n \in Nat : \E f : PlacesBy(f, n, s, hooks)
<1> DEFINE P == {n \in Nat : \E f : PlacesBy(f, n, s, hooks)}
<1>1. 0 \in P
  <2> DEFINE f == [k \in {{}} |-> s]
  <2>1. SUBSET (1 .. 0) = {{}}
    OBVIOUS
  <2>2. f = [k \in SUBSET (1 .. 0) |->
               IF k = {} THEN s ELSE Placed(f[k \ {Max(k)}], hooks[Max(k)])]
    BY <2>1
  <2> QED
    BY <2>2 DEF PlacesBy
<1>2. ASSUME NEW n \in Nat, n \in P PROVE n + 1 \in P
  <2>1. PICK f : PlacesBy(f, n, s, hooks)
    BY <1>2
  <2> DEFINE next(k) == Placed(f[k \ {n + 1}], hooks[n + 1])
             g == [k \in SUBSET (1 .. n + 1) |-> IF n + 1 \in k THEN next(k) ELSE f[k]]
  <2>2. \A k \in SUBSET (1 .. n) : k \in SUBSET (1 .. n + 1) /\ n + 1 \notin k /\ g[k] = f[k]
    OBVIOUS
  <2>3. ASSUME NEW k \in SUBSET (1 .. n + 1)
        PROVE  g[k] = IF k = {} THEN s ELSE Placed(g[k \ {Max(k)}], hooks[Max(k)])
    <3>1. CASE n + 1 \in k
      <4>0. n + 1 \in Nat /\ k # {}
        BY <3>1
      <4>1. Max(k) \in k /\ Max(k) >= n + 1
        BY <3>1, <4>0, MaxExists
      <4>2. Max(k) = n + 1
        <5>1. Max(k) \in 1 .. n + 1
          BY <4>1
        <5> QED
          BY <4>1, <5>1
      <4>3. k \ {n + 1} \in SUBSET (1 .. n)
        OBVIOUS
      <4>4. g[k] = next(k) /\ g[k \ {n + 1}] = f[k \ {n + 1}]
        BY <3>1, <4>3, <2>2
      <4> HIDE DEF g
      <4> QED
        BY <4>0, <4>2, <4>4
    <3>2. CASE n + 1 \notin k /\ k # {}
      <4>1. k \in SUBSET (1 .. n)
        BY <3>2
      <4>2. k \ {Max(k)} \in SUBSET (1 .. n)
        BY <4>1
      <4>3. f[k] = Placed(f[k \ {Max(k)}], hooks[Max(k)])
        BY <2>1, <4>1, <3>2 DEF PlacesBy
      <4>4. g[k] = f[k] /\ g[k \ {Max(k)}] = f[k \ {Max(k)}]
        BY <2>2, <4>1, <4>2
      <4> HIDE DEF g
      <4> QED
        BY <3>2, <4>3, <4>4
    <3>3. CASE k = {}
      BY <2>1, <2>2, <3>3 DEF PlacesBy
    <3> QED
      BY <3>1, <3>2, <3>3
  <2>4. g = [k \in SUBSET (1 .. n + 1) |-> g[k]]
    OBVIOUS
  <2> HIDE DEF g
  <2>5. PlacesBy(g, n + 1, s, hooks)
    BY <2>3, <2>4 DEF PlacesBy
  <2> QED
    BY <2>5
<1> HIDE DEF P
<1>3. \A n \in Nat : n \in P
  BY <1>1, <1>2, SetInduction
<1> QED
  BY <1>3 DEF P

LEMMA AllPlacedKeepMine ==
  ASSUME NEW s \in Files, NEW n \in Nat, NEW hooks, DOMAIN hooks = 1 .. n,
         \A i \in 1 .. n : hooks[i] \in Handler /\ hooks[i].id \notin User
  PROVE  KeepsMine(s, FoldLeft(Placed, s, hooks))
<1> DEFINE fold == CHOOSE f : PlacesBy(f, n, s, hooks)
<1>1. PlacesBy(fold, n, s, hooks)
  BY PlacesExist
<1>2. FoldLeft(Placed, s, hooks) = fold[1 .. n]
  BY DEF FoldLeft, MapThenFoldSet, PlacesBy
<1> HIDE DEF fold
<1> DEFINE P == {k \in Nat : k <= n => KeepsMine(s, fold[1 .. k])}
<1>3. 0 \in P
  <2>1. 1 .. 0 = {} /\ {} \in SUBSET (1 .. n)
    OBVIOUS
  <2>2. fold[{}] = s
    BY <1>1, <2>1 DEF PlacesBy
  <2>3. KeepsMine(s, s)
    BY DEF KeepsMine
  <2> QED
    BY <2>1, <2>2, <2>3
<1>4. ASSUME NEW k \in Nat, k \in P PROVE k + 1 \in P
  <2> SUFFICES ASSUME k + 1 <= n PROVE KeepsMine(s, fold[1 .. k + 1])
    OBVIOUS
  <2>1. PICK m \in Nat : m = k + 1
    OBVIOUS
  <2>2. m \in 1 .. m /\ (1 .. m) \ {m} = 1 .. k /\ m \in 1 .. n /\ k <= n
    BY <2>1
  <2>3. Max(1 .. m) = m
    <3>1. Max(1 .. m) \in 1 .. m /\ Max(1 .. m) >= m
      BY <2>2, MaxExists
    <3> QED
      BY <3>1
  <2>4. 1 .. m # {} /\ 1 .. m \in SUBSET (1 .. n)
    <3>1. m <= n /\ \A i \in 1 .. m : i \in 1 .. n
      BY <2>2
    <3> QED
      BY <2>2, <3>1
  <2>5. fold[1 .. m] = Placed(fold[(1 .. m) \ {Max(1 .. m)}], hooks[Max(1 .. m)])
    BY <1>1, <2>4 DEF PlacesBy
  <2>6. fold[1 .. m] = Placed(fold[1 .. k], hooks[m])
    BY <2>2, <2>3, <2>5
  <2>7. KeepsMine(s, fold[1 .. k])
    BY <1>4, <2>2
  <2>8. KeepsMine(fold[1 .. k], Placed(fold[1 .. k], hooks[m]))
    <3>1. fold[1 .. k] \in Files
      BY <2>7 DEF KeepsMine
    <3>2. hooks[m] \in Handler /\ hooks[m].id \notin User
      BY <2>2
    <3> QED
      BY <3>1, <3>2, PlacedKeepsMine
  <2>9. KeepsMine(s, fold[1 .. m])
    BY <2>6, <2>7, <2>8, KeepsMineOn
  <2> QED
    BY <2>1, <2>9
<1> HIDE DEF P
<1>5. \A k \in Nat : k \in P
  BY <1>3, <1>4, SetInduction
<1>6. KeepsMine(s, fold[1 .. n])
  BY <1>5 DEF P
<1> QED
  BY <1>2, <1>6

(* The whole edit of an install (install_hook). *)
LEMMA EditedKeepsMine ==
  ASSUME NEW s \in Files, NEW v \in Version, NEW addons \in Seq(Addon)
  PROVE  KeepsMine(s, Edited(s, v, addons))
<1> DEFINE first == Drop(s, RetiredForms)
           hooks == Suite(v, addons)
           placed == FoldLeft(Placed, first, hooks)
<1>1. KeepsMine(s, first)
  <2>1. RetiredForms \cap Mine = {}
    BY HooksAssumption DEF RetiredForms, Mine
  <2> QED
    BY <2>1, DropKeepsMine
<1>2. PICK n \in Nat : /\ DOMAIN hooks = 1 .. n
                       /\ \A i \in 1 .. n : hooks[i] \in Handler /\ hooks[i].id \notin User
  <2> DEFINE core == [i \in 1 .. Len(CoreOrder) |-> [id |-> CoreOrder[i], version |-> v]]
             added == [i \in 1 .. Len(addons) |-> [id |-> addons[i], version |-> v]]
             Own == {x \in Handler : x.id \notin User}
  <2>1. core \in Seq(Own)
    <3>1. PICK k \in Nat : k = Len(CoreOrder) /\ \A i \in 1 .. k : CoreOrder[i] \in Core
      BY HooksAssumption
    <3>2. \A i \in 1 .. k : core[i] \in Own
      BY <3>1, HooksAssumption DEF Handler
    <3>3. core = [i \in 1 .. k |-> core[i]]
      BY <3>1
    <3> HIDE DEF core, Own
    <3> QED
      BY <3>2, <3>3
  <2>2. added \in Seq(Own)
    <3>1. PICK k \in Nat : k = Len(addons) /\ \A i \in 1 .. k : addons[i] \in Addon
      OBVIOUS
    <3>2. \A i \in 1 .. k : added[i] \in Own
      BY <3>1, HooksAssumption DEF Handler
    <3>3. added = [i \in 1 .. k |-> added[i]]
      BY <3>1
    <3> HIDE DEF added, Own
    <3> QED
      BY <3>2, <3>3
  <2>3. hooks = core \o added
    BY DEF Suite
  <2> HIDE DEF core, added, hooks
  <2>4. hooks \in Seq(Own)
    <3> HIDE DEF Own
    <3> QED
      BY <2>1, <2>2, <2>3
  <2>5. PICK n \in Nat : /\ n = Len(hooks) /\ DOMAIN hooks = 1 .. n
                         /\ \A i \in 1 .. n : hooks[i] \in Own
    <3> HIDE DEF Own
    <3> QED
      BY <2>4
  <2> QED
    BY <2>5
<1> HIDE DEF hooks
<1>3. KeepsMine(first, placed)
  <2>1. first \in Files
    BY <1>1 DEF KeepsMine
  <2> HIDE DEF first
  <2> QED
    BY <1>2, <2>1, AllPlacedKeepMine
<1>4. KeepsMine(placed, NoEmpty(placed))
  <2>1. placed \in Files
    BY <1>3 DEF KeepsMine
  <2> HIDE DEF placed
  <2> QED
    BY <2>1, NoEmptyKeepsMine
<1>5. Edited(s, v, addons) = NoEmpty(placed)
  BY DEF Edited, hooks
<1> HIDE DEF placed, first
<1> QED
  BY <1>1, <1>3, <1>4, <1>5, KeepsMineOn

(* What an uninstall takes. *)
LEMMA UninstalledKeepsMine ==
  ASSUME NEW s \in Files
  PROVE  KeepsMine(s, Uninstalled(s))
<1> DEFINE Gone(e) == {x \in Handler : \/ x.id \in Addon \cup Retired
                                       \/ x.id \in Core /\ Home[x.id] = e}
           left == [e \in Event |-> Without(s[e], Gone(e))]
<1>1. ASSUME NEW e \in Event
      PROVE  Without(s[e], Gone(e)) \in Groups /\ MineIn(Without(s[e], Gone(e))) = MineIn(s[e])
  <2>1. s[e] \in Groups
    BY DEF Files
  <2>2. Gone(e) \cap Mine = {}
    BY HooksAssumption DEF Mine
  <2> HIDE DEF Gone
  <2> QED
    BY <2>1, <2>2, WithoutKeepsMine
<1>2. KeepsMine(s, left)
  BY <1>1 DEF KeepsMine, Files
<1>3. Uninstalled(s) = NoEmpty(left)
  BY DEF Uninstalled
<1>4. left \in Files
  BY <1>2 DEF KeepsMine
<1> HIDE DEF left
<1> QED
  BY <1>2, <1>3, <1>4, NoEmptyKeepsMine, KeepsMineOn

-----------------------------------------------------------------------------
(* Where a command is, what it has done to the two files.                      *)
Running == pc # "idle"
PlanInv ==
  /\ settings \in Files /\ edits \in Nat
  /\ pc \in {"idle", "follow", "trust", "write", "persist", "keep", "detrust", "remove"}
  /\ Running => /\ cmd.read \in Files /\ KeepsMine(cmd.read, cmd.plan)
                /\ settings = IF pc = "persist" THEN cmd.plan ELSE cmd.read
  /\ pc \in {"follow", "detrust"} => tables = cmd.tables
  /\ pc \in {"trust", "remove"} => tables \in Reconciled(cmd.tables, cmd.read, cmd.plan)
  /\ pc \in {"write", "persist", "keep"} =>
       \E t \in Reconciled(cmd.tables, cmd.read, cmd.plan) :
         tables = Trusted(t, cmd.plan, cmd.version, cmd.addons)
  /\ pc = "keep" => cmd.plan = cmd.read
PlanVars == <<settings, tables, plain, pc, cmd, edits>>

(* What a reconciliation leaves depends on the form of config.toml, which only *)
(* the user changes.                                                           *)
LEMMA ReconciledStays ==
  ASSUME plain' = plain, cmd' = cmd
  PROVE  Reconciled(cmd.tables, cmd.read, cmd.plan)'
           = Reconciled(cmd.tables, cmd.read, cmd.plan)
BY DEF Reconciled

LEMMA PlanUnchanged ==
  ASSUME PlanInv, UNCHANGED PlanVars
  PROVE  PlanInv'
BY ReconciledStays DEF PlanInv, PlanVars, Running

LEMMA PlanInit == Init => PlanInv
BY SettingsAssumption DEF Init, PlanInv, Running, Files, Groups

(* What the user does to his file leaves it a hooks file. *)
LEMMA PlanEdit ==
  ASSUME PlanInv, UserStep
  PROVE  PlanInv' /\ edits' # edits
<1>0. /\ settings \in Files /\ edits \in Nat
      /\ \A e \in Event : settings[e] \in Groups
      /\ \A e \in Event : \A g \in DOMAIN settings[e] : settings[e][g] \in Seq(Handler)
  BY DEF PlanInv, Files, Groups
<1>1. ASSUME Edit, settings' \in Files
      PROVE  PlanInv' /\ edits' # edits
  BY <1>0, <1>1 DEF Edit, PlanInv, Running
<1>2. ASSUME NEW u \in User, Grant(u)
      PROVE  Edit /\ settings' \in Files
  BY <1>0, <1>2 DEF Grant
<1>3. ASSUME NEW e \in Event, NEW g \in DOMAIN settings[e], NEW hs \in Seq(Handler)
      PROVE  [settings EXCEPT ![e][g] = hs] \in Files
  <2> DEFINE gs == settings[e]
  <2>1. gs \in Seq(Seq(Handler)) /\ g \in DOMAIN gs
    BY <1>0 DEF Groups
  <2>2. [gs EXCEPT ![g] = hs] \in Groups
    <3> DEFINE G == Seq(Handler)
    <3> HIDE DEF gs, G
    <3>1. gs \in Seq(G) /\ hs \in G
      BY <2>1 DEF G
    <3>2. [gs EXCEPT ![g] = hs] \in Seq(G)
      BY <2>1, <3>1
    <3> QED
      BY <3>2 DEF Groups, G
  <2>3. [settings EXCEPT ![e] = [gs EXCEPT ![g] = hs]] \in Files
    <3> HIDE DEF gs
    <3> QED
      BY <1>0, <2>2 DEF Files
  <2> QED
    BY <2>3
<1>4. ASSUME NEW u \in User, NEW p \in Present(u)
      PROVE  /\ p[1] \in Event /\ p[2] \in DOMAIN settings[p[1]]
             /\ p[3] \in DOMAIN settings[p[1]][p[2]]
  BY DEF Present, Places
<1>5. ASSUME NEW u \in User, TakeHandler(u)
      PROVE  Edit /\ settings' \in Files
  <2>1. PICK p \in Present(u) :
          settings' = [settings EXCEPT ![p[1]][p[2]] = RemoveAt(@, p[3])]
    BY <1>5 DEF TakeHandler
  <2> DEFINE hs == settings[p[1]][p[2]]
  <2>2. hs \in Seq(Handler) /\ p[3] \in DOMAIN hs
    BY <1>0, <1>4
  <2>3. settings' = [settings EXCEPT ![p[1]][p[2]] = RemoveAt(hs, p[3])]
    BY <2>1
  <2> HIDE DEF hs
  <2>4. RemoveAt(hs, p[3]) \in Seq(Handler)
    <3>1. PICK n \in Nat : n = Len(hs) /\ DOMAIN hs = 1 .. n /\ \A i \in 1 .. n : hs[i] \in Handler
      BY <2>2
    <3>2. PICK i \in 1 .. n : i = p[3]
      BY <2>2, <3>1
    <3>3. SubSeq(hs, 1, i - 1) \in Seq(Handler)
      <4>1. 1 \in Int /\ i - 1 \in Int /\ 1 <= (i - 1) + 1 /\ \A j \in 1 .. i - 1 : hs[j] \in Handler
        BY <3>1
      <4> QED
        BY <2>2, <4>1, SubSeqProperties
    <3>4. SubSeq(hs, i + 1, n) \in Seq(Handler)
      <4>1. i + 1 \in Int /\ n \in Int /\ i + 1 <= n + 1 /\ \A j \in i + 1 .. n : hs[j] \in Handler
        BY <3>1
      <4> QED
        BY <2>2, <4>1, SubSeqProperties
    <3> QED
      BY <3>1, <3>2, <3>3, <3>4 DEF RemoveAt
  <2> QED
    BY <1>3, <1>4, <1>5, <2>3, <2>4 DEF TakeHandler
<1>6. ASSUME NEW u \in User, NEW v \in Version, ChangeHandler(u, v)
      PROVE  Edit /\ settings' \in Files
  <2>1. PICK p \in Present(u) :
          settings' = [settings EXCEPT ![p[1]][p[2]][p[3]].version = v]
    BY <1>6 DEF ChangeHandler
  <2> DEFINE hs == settings[p[1]][p[2]]
             hs2 == [hs EXCEPT ![p[3]].version = v]
  <2>2. hs \in Seq(Handler) /\ p[3] \in DOMAIN hs
    BY <1>0, <1>4
  <2>3. settings' = [settings EXCEPT ![p[1]][p[2]] = hs2]
    BY <2>1
  <2>4. hs2 \in Seq(Handler)
    <3>1. [hs[p[3]] EXCEPT !.version = v] \in Handler
      <4>1. hs[p[3]] \in Handler
        BY <2>2
      <4> QED
        BY <4>1 DEF Handler
    <3>2. hs2 = [hs EXCEPT ![p[3]] = [hs[p[3]] EXCEPT !.version = v]]
      OBVIOUS
    <3> HIDE DEF hs, hs2
    <3> QED
      BY <2>2, <3>1, <3>2
  <2> HIDE DEF hs2, hs
  <2> QED
    BY <1>3, <1>4, <1>6, <2>3, <2>4 DEF ChangeHandler
<1>7. ASSUME NEW u \in User, NEW v \in Version, NEW e \in Event, AddHandler(u, e, v)
      PROVE  Edit /\ settings' \in Files
  <2> DEFINE x == [id |-> u, version |-> v]
  <2>1. x \in Handler
    BY DEF Handler
  <2> HIDE DEF x
  <2>2. \/ settings' = [settings EXCEPT ![e] = <<<<x>>>> \o @]
        \/ \E g \in DOMAIN settings[e] : settings' = [settings EXCEPT ![e][g] = <<x>> \o @]
    BY <1>7 DEF AddHandler, x
  <2>3. CASE settings' = [settings EXCEPT ![e] = <<<<x>>>> \o @]
    <3>1. <<<<x>>>> \o settings[e] \in Groups
      <4>1. <<x>> \in Seq(Handler) /\ settings[e] \in Seq(Seq(Handler))
        BY <1>0, <2>1 DEF Groups
      <4> QED
        BY <4>1 DEF Groups
    <3>2. settings' = [settings EXCEPT ![e] = <<<<x>>>> \o settings[e]]
      BY <2>3
    <3>3. settings' \in Files
      BY <1>0, <3>1, <3>2 DEF Files
    <3> QED
      BY <1>7, <3>3 DEF AddHandler
  <2>4. CASE \E g \in DOMAIN settings[e] : settings' = [settings EXCEPT ![e][g] = <<x>> \o @]
    <3>1. PICK g \in DOMAIN settings[e] :
            settings' = [settings EXCEPT ![e][g] = <<x>> \o settings[e][g]]
      BY <2>4
    <3>2. <<x>> \o settings[e][g] \in Seq(Handler)
      BY <1>0, <2>1
    <3>3. settings' \in Files
      BY <1>3, <3>1, <3>2
    <3> QED
      BY <1>7, <3>3 DEF AddHandler
  <2> QED
    BY <2>2, <2>3, <2>4
<1>8. CASE Reform
  BY <1>0, <1>1, <1>8 DEF Reform, files
<1> QED
  BY <1>1, <1>2, <1>5, <1>6, <1>7, <1>8 DEF UserStep

(* What a command has planned when it begins. *)
LEMMA PlanBegin ==
  ASSUME PlanInv, NoNodeRuntime \/ Install \/ Removal
  PROVE  PlanInv' /\ settings' = settings
<1>0. settings \in Files
  BY DEF PlanInv
<1>1. CASE NoNodeRuntime
  BY <1>1 DEF NoNodeRuntime, Ready, files, PlanInv, Running
<1>2. CASE Install
  <2>1. PICK v \in Version, addons \in {<<>>} \cup {<<a>> : a \in Addon} : BeginInstall(v, addons)
    BY <1>2 DEF Install
  <2>2. addons \in Seq(Addon)
    <3>1. <<>> \in Seq(Addon) /\ \A a \in Addon : <<a>> \in Seq(Addon)
      OBVIOUS
    <3> QED
      BY <2>1, <3>1
  <2>3. KeepsMine(settings, Edited(settings, v, addons))
    BY <1>0, <2>2, EditedKeepsMine
  <2>4. /\ pc' = "follow" /\ tables' = tables /\ settings' = settings /\ edits' = edits
        /\ cmd'.read = settings /\ cmd'.tables = tables /\ cmd'.plan = Edited(settings, v, addons)
    BY <2>1 DEF BeginInstall, files
  <2> QED
    BY <1>0, <2>3, <2>4 DEF PlanInv, Running
<1>3. ASSUME NEW plan, BeginRemoval(plan), KeepsMine(settings, plan)
      PROVE  PlanInv' /\ settings' = settings
  <2>1. /\ tables' = tables /\ settings' = settings /\ edits' = edits
        /\ \/ pc' = "idle"
           \/ /\ pc' = "detrust"
              /\ cmd'.read = settings /\ cmd'.tables = tables /\ cmd'.plan = plan
    BY <1>3 DEF BeginRemoval, End, files
  <2> QED
    BY <1>0, <1>3, <2>1 DEF PlanInv, Running
<1>4. CASE Removal
  <2>1. KeepsMine(settings, Uninstalled(settings))
    BY <1>0, UninstalledKeepsMine
  <2>2. KeepsMine(settings, Drop(settings, RetiredForms))
    <3>1. RetiredForms \cap Mine = {}
      BY HooksAssumption DEF RetiredForms, Mine
    <3> QED
      BY <1>0, <3>1, DropKeepsMine
  <2>3. \A a \in Addon : KeepsMine(settings, Drop(settings, {x \in Handler : x.id = a}))
    <3>1. \A a \in Addon : {x \in Handler : x.id = a} \cap Mine = {}
      BY HooksAssumption DEF Mine
    <3> QED
      BY <1>0, <3>1, DropKeepsMine
  <2> QED
    BY <1>3, <1>4, <2>1, <2>2, <2>3 DEF Removal
<1> QED
  BY <1>1, <1>2, <1>4

(* The file changes only from what the command read to its plan, or back. *)
Turns == \/ settings' = settings
         \/ /\ Running
            /\ \/ settings = cmd.read /\ settings' = cmd.plan
               \/ settings = cmd.plan /\ settings' = cmd.read

LEMMA PlanStep ==
  ASSUME PlanInv, CommandStep
  PROVE  PlanInv' /\ Turns
<1>1. CASE NoNodeRuntime \/ Install \/ Removal
  BY <1>1, PlanBegin DEF Turns
<1>2. CASE Follow
  BY <1>2, ReconciledStays DEF Follow, Stays, Goto, PlanInv, Running, Turns
<1>3. CASE Trust
  BY <1>3, ReconciledStays DEF Trust, Stays, Goto, PlanInv, Running, Turns
<1>4. CASE WriteSettings
  BY <1>4, ReconciledStays DEF WriteSettings, Stays, Goto, PlanInv, Running, Turns, KeepsMine
<1>5. CASE Persist
  BY <1>5 DEF Persist, End, Stays, files, PlanInv, Running, Turns
<1>6. CASE InstallFails
  BY <1>6 DEF InstallFails, End, Stays, files, PlanInv, Running, Turns
<1>7. CASE PersistFails
  BY <1>7 DEF PersistFails, End, Stays, PlanInv, Running, Turns
<1>8. CASE Detrust
  BY <1>8, ReconciledStays DEF Detrust, Stays, Goto, PlanInv, Running, Turns
<1>9. CASE WriteRemoved
  BY <1>9 DEF WriteRemoved, End, Stays, PlanInv, Running, Turns, KeepsMine
<1>10. CASE RemovalFails
  BY <1>10 DEF RemovalFails, End, Stays, PlanInv, Running, Turns
<1>11. CASE Die
  BY <1>11 DEF Die, End, Stays, files, PlanInv, Running, Turns
<1> QED
  BY <1>1, <1>2, <1>3, <1>4, <1>5, <1>6, <1>7, <1>8, <1>9, <1>10, <1>11
  DEF CommandStep

LEMMA PlanHolds == Spec => []PlanInv
<1>1. Init => PlanInv
  BY PlanInit
<1>2. PlanInv /\ [Next]_vars => PlanInv'
  <2>1. CASE UNCHANGED vars
    BY <2>1, PlanUnchanged DEF vars, PlanVars
  <2> QED
    BY <2>1, PlanEdit, PlanStep DEF Next
<1> QED
  BY <1>1, <1>2, PTL DEF Spec

(* No command, whatever it fails or dies at, loses, changes or reorders a      *)
(* handler of the user's (install_hooks.py install_hook, uninstall_hook,       *)
(* remove_addon_hook, remove_retired_hooks).                                   *)
THEOREM UserHandlersSurvive == Spec => UserHandlersKept
<1>1. PlanInv /\ [Next]_vars
        => [edits' = edits => UserOrder(settings') = UserOrder(settings)]_vars
  <2> SUFFICES ASSUME PlanInv, Next, edits' = edits
               PROVE  UserOrder(settings') = UserOrder(settings)
    OBVIOUS
  <2>1. CommandStep
    BY PlanEdit DEF Next
  <2>2. Turns
    BY <2>1, PlanStep
  <2>3. CASE settings' = settings
    BY <2>3
  <2>4. CASE Running /\ (\/ settings = cmd.read /\ settings' = cmd.plan
                         \/ settings = cmd.plan /\ settings' = cmd.read)
    <3>1. KeepsMine(cmd.read, cmd.plan)
      BY <2>4 DEF PlanInv
    <3>2. UserOrder(cmd.plan) = UserOrder(cmd.read)
      BY <3>1, KeepsMineIsOrder
    <3> QED
      BY <2>4, <3>2
  <2> QED
    BY <2>2, <2>3, <2>4 DEF Turns
<1> QED
  BY <1>1, PlanHolds, PTL DEF Spec, UserHandlersKept

-----------------------------------------------------------------------------
(* The user's consent goes where his handlers go. *)

(* A handler of the user's that is somewhere in an event is one of MineIn. *)
LEMMA MineAreThere ==
  ASSUME NEW gs \in Groups
  PROVE  \A x : x \in Range(MineIn(gs)) <=>
           x \in Mine /\ \E g \in DOMAIN gs : \E h \in DOMAIN gs[g] : gs[g][h] = x
<1>1. gs \in Seq(Seq(Handler)) /\ FlattenSeq(gs) \in Seq(Handler)
  BY FlattenType DEF Groups
<1>2. Range(MineIn(gs)) = Range(FlattenSeq(gs)) \cap Mine
  BY <1>1, KeptElements DEF MineIn
<1>3. Range(FlattenSeq(gs)) = UNION {Range(g) : g \in Range(gs)}
  BY <1>1, FlattenElements
<1>4. \A x : x \in UNION {Range(g) : g \in Range(gs)}
               <=> \E g \in DOMAIN gs : \E h \in DOMAIN gs[g] : gs[g][h] = x
  BY DEF Range
<1> QED
  BY <1>2, <1>3, <1>4

LEMMA PlacesHold ==
  ASSUME NEW s \in Files, NEW p \in Places(s)
  PROVE  HandlerAt(s, p) \in Handler
<1>1. PICK e \in Event : \E g \in DOMAIN s[e] : \E h \in DOMAIN s[e][g] : p = <<e, g, h>>
  BY DEF Places
<1>2. PICK g \in DOMAIN s[e] : \E h \in DOMAIN s[e][g] : p = <<e, g, h>>
  BY <1>1
<1>3. PICK h \in DOMAIN s[e][g] : p = <<e, g, h>>
  BY <1>2
<1>4. s[e][g] \in Seq(Handler)
  BY DEF Files, Groups
<1> QED
  BY <1>3, <1>4 DEF HandlerAt

LEMMA MineHavePlaces ==
  ASSUME NEW s1 \in Files, NEW s2, KeepsMine(s1, s2),
         NEW p \in Places(s1), HandlerAt(s1, p) \in Mine
  PROVE  \E q \in Places(s2) : q[1] = p[1] /\ HandlerAt(s2, q) = HandlerAt(s1, p)
<1>1. PICK e \in Event : \E g \in DOMAIN s1[e] : \E h \in DOMAIN s1[e][g] : p = <<e, g, h>>
  BY DEF Places
<1>2. PICK g \in DOMAIN s1[e] : \E h \in DOMAIN s1[e][g] : p = <<e, g, h>>
  BY <1>1
<1>3. PICK h \in DOMAIN s1[e][g] : p = <<e, g, h>>
  BY <1>2
<1> DEFINE x == s1[e][g][h]
<1>4. HandlerAt(s1, p) = x /\ x \in Mine
  BY <1>3 DEF HandlerAt
<1>5. s1[e] \in Groups /\ s2[e] \in Groups /\ MineIn(s2[e]) = MineIn(s1[e])
  BY DEF KeepsMine, Files
<1>6. x \in Range(MineIn(s1[e]))
  BY <1>3, <1>4, <1>5, MineAreThere
<1> HIDE DEF x
<1>7. PICK i \in DOMAIN s2[e] : \E j \in DOMAIN s2[e][i] : s2[e][i][j] = x
  BY <1>5, <1>6, MineAreThere
<1>8. PICK j \in DOMAIN s2[e][i] : s2[e][i][j] = x
  BY <1>7
<1>9. <<e, i, j>> \in Places(s2)
  BY DEF Places
<1>10. HandlerAt(s2, <<e, i, j>>) = x
  BY <1>8 DEF HandlerAt
<1>11. <<e, i, j>>[1] = p[1]
  BY <1>3
<1> QED
  BY <1>4, <1>9, <1>10, <1>11

(* Tables that follow without a collision allow at every target what they did  *)
(* at its source.                                                              *)
LEMMA FollowedAllows ==
  ASSUME NEW s1, NEW s2, NEW t, Clean(t, s1, s2), NEW p \in DOMAIN t,
         NEW q \in Places(s2) \cup DOMAIN t, Goes(p, q, s1, s2)
  PROVE  q \in DOMAIN Followed(t, s1, s2) /\ Followed(t, s1, s2)[q] = t[p]
<1> DEFINE moves == Moves(t, s1, s2)
           targets == {m[2] : m \in moves}
           Source(r) == (CHOOSE m \in moves : m[2] = r)[1]
<1>1. Followed(t, s1, s2) = [r \in targets |-> t[Source(r)]]
  BY DEF Followed
<1>2. <<p, q>> \in moves
  <2>1. <<p, q>>[1] = p /\ <<p, q>>[2] = q
    OBVIOUS
  <2> QED
    BY <2>1 DEF Moves
<1>3. \A m, n \in moves : m[2] = n[2] => m = n
  BY DEF Clean, Collide
<1> HIDE DEF moves
<1>4. (CHOOSE m \in moves : m[2] = q) = <<p, q>>
  BY <1>2, <1>3
<1>5. q \in targets /\ Source(q) = p
  <2>1. <<p, q>>[1] = p /\ <<p, q>>[2] = q
    OBVIOUS
  <2>2. q \in targets
    BY <1>2, <2>1
  <2>3. Source(q) = p
    BY <1>4, <2>1
  <2> QED
    BY <2>2, <2>3
<1> HIDE DEF targets, Source
<1> QED
  BY <1>1, <1>5

(* What the suite allows besides changes no table that is right.               *)
LEMMA TrustedAllows ==
  ASSUME NEW t, NEW s, NEW v, NEW addons, NEW q \in DOMAIN t, t[q] = HandlerAt(s, q)
  PROVE  /\ q \in DOMAIN Trusted(t, s, v, addons)
         /\ Trusted(t, s, v, addons)[q] = HandlerAt(s, q)
<1> DEFINE own == OwnPlaces(s, v, addons)
<1>1. Trusted(t, s, v, addons)
        = [p \in DOMAIN t \cup own |-> IF p \in own THEN HandlerAt(s, p) ELSE t[p]]
  BY DEF Trusted
<1> HIDE DEF own
<1> QED
  BY <1>1

(* How a command ends well. *)
LEMMA GoodEnd ==
  ASSUME PlanInv, Next, EndsWell
  PROVE  /\ settings' = cmd.plan /\ Running
         /\ \E t \in Reconciled(cmd.tables, cmd.read, cmd.plan) :
              \/ tables' = t
              \/ tables' = Trusted(t, cmd.plan, cmd.version, cmd.addons)
<1>1. CASE UserStep
  BY <1>1 DEF UserStep, Grant, TakeHandler, ChangeHandler, AddHandler, Reform, Edit, EndsWell, Ends
<1>2. CASE Persist
  BY <1>2 DEF Persist, Stays, files, PlanInv, Running
<1>3. CASE WriteRemoved
  BY <1>3 DEF WriteRemoved, Stays, PlanInv, Running
<1>4. CASE CommandStep /\ ~Persist /\ ~WriteRemoved
  <2>1. CASE NoNodeRuntime \/ Install \/ Removal
    BY <2>1 DEF NoNodeRuntime, Install, BeginInstall, Removal, BeginRemoval, Ready, EndsWell, Ends
  <2>2. CASE Follow \/ Trust \/ WriteSettings \/ Detrust
    BY <2>2 DEF Follow, Trust, WriteSettings, Detrust, Goto, EndsWell, Ends
  <2>3. CASE InstallFails \/ PersistFails \/ RemovalFails \/ Die
    BY <2>3 DEF InstallFails, PersistFails, RemovalFails, Die, End, EndsWell, Ends
  <2> QED
    BY <1>4, <2>1, <2>2, <2>3 DEF CommandStep
<1> QED
  BY <1>1, <1>2, <1>3, <1>4 DEF Next

(* A table that stays, or that follows without a collision, still allows a     *)
(* handler of the user's that stays where it is; one that follows allows it    *)
(* wherever it goes.                                                           *)
LEMMA ConsentStays ==
  ASSUME NEW s1 \in Files, NEW s2, KeepsMine(s1, s2), NEW t, NEW p \in Consents(s1, t),
         NEW u \in Reconciled(t, s1, s2),
         \/ p \in Places(s2) /\ HandlerAt(s2, p) = HandlerAt(s1, p)
         \/ p[1] \in Followable /\ plain /\ Clean(t, s1, s2)
  PROVE  \E q \in Places(s2) : /\ HandlerAt(s2, q) = HandlerAt(s1, p)
                               /\ q \in DOMAIN u /\ u[q] = HandlerAt(s1, p)
<1>1. /\ p \in Places(s1) /\ p \in DOMAIN t /\ t[p] = HandlerAt(s1, p)
      /\ HandlerAt(s1, p).id \in User
  BY DEF Consents
<1>2. CASE p \in Places(s2) /\ HandlerAt(s2, p) = HandlerAt(s1, p)
  <2>1. CASE u = t
    BY <1>1, <1>2, <2>1
  <2>2. CASE u # t
    <3>1. u = Followed(t, s1, s2) /\ Clean(t, s1, s2)
      BY <2>2 DEF Reconciled
    <3>2. Goes(p, p, s1, s2)
      BY <1>1, <1>2 DEF Goes
    <3>3. p \in DOMAIN u /\ u[p] = t[p]
      BY <1>1, <3>1, <3>2, FollowedAllows
    <3> QED
      BY <1>1, <1>2, <3>3
  <2> QED
    BY <2>1, <2>2
<1>3. CASE p[1] \in Followable /\ plain /\ Clean(t, s1, s2)
  <2>1. u = Followed(t, s1, s2)
    BY <1>3 DEF Reconciled
  <2>2. HandlerAt(s1, p) \in Mine
    <3>1. HandlerAt(s1, p) \in Handler
      BY <1>1, PlacesHold
    <3> QED
      BY <1>1, <3>1 DEF Mine
  <2>3. PICK q \in Places(s2) : q[1] = p[1] /\ HandlerAt(s2, q) = HandlerAt(s1, p)
    BY <1>1, <2>2, MineHavePlaces
  <2>4. Goes(p, q, s1, s2)
    BY <1>1, <1>3, <2>3 DEF Goes
  <2>5. q \in DOMAIN u /\ u[q] = t[p]
    BY <1>1, <1>3, <2>1, <2>3, <2>4, FollowedAllows
  <2> QED
    BY <1>1, <2>3, <2>5
<1> QED
  BY <1>2, <1>3

(* A command that ends well takes the user's consent along: what he had        *)
(* allowed stays allowed wherever its handler is now, if the reconciliation    *)
(* knows its event and could move the tables; and in any case where the        *)
(* handler has not moved (install_hooks.py _reconcile_codex_hook_trust).       *)
THEOREM ConsentFollows == Spec => TrustFollows
<1>1. PlanInv /\ [Next]_vars =>
        [EndsWell => \A p \in Consents(cmd.read, cmd.tables) :
           Stands(p) \/ (p[1] \in Followable /\ Settled) => Keeps(p)]_vars
  <2> SUFFICES ASSUME PlanInv, Next, EndsWell,
                      NEW p \in Consents(cmd.read, cmd.tables),
                      Stands(p) \/ (p[1] \in Followable /\ Settled)
               PROVE  Keeps(p)
    OBVIOUS
  <2>1. PICK t \in Reconciled(cmd.tables, cmd.read, cmd.plan) :
          \/ tables' = t
          \/ tables' = Trusted(t, cmd.plan, cmd.version, cmd.addons)
    BY GoodEnd
  <2>2. /\ settings' = cmd.plan
        /\ cmd.read \in Files /\ KeepsMine(cmd.read, cmd.plan)
    BY GoodEnd DEF PlanInv
  <2>3. PICK q \in Places(cmd.plan) :
          /\ HandlerAt(cmd.plan, q) = HandlerAt(cmd.read, p)
          /\ q \in DOMAIN t /\ t[q] = HandlerAt(cmd.read, p)
    BY <2>2, ConsentStays DEF Stands, Settled
  <2>4. q \in DOMAIN tables' /\ tables'[q] = HandlerAt(cmd.read, p)
    BY <2>1, <2>3, TrustedAllows
  <2>5. HandlerAt(cmd.read, p) \in Handler
    BY <2>2, PlacesHold DEF Consents
  <2> QED
    BY <2>2, <2>3, <2>4, <2>5 DEF Keeps, Allowed
<1> QED
  BY <1>1, PlanHolds, PTL DEF Spec, TrustFollows
=============================================================================
