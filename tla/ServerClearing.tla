----------------------------- MODULE ServerClearing -----------------------------
(* What the context gateway asks of Claude's server when it may not rewrite a    *)
(* request itself (claude_context_adapter.py, server_context_omit). The response *)
(* model judges the results of single calls; the server's policy only knows tool *)
(* names and how many of the latest calls to keep, and does not say whether the  *)
(* calls of an excluded tool count among these. Each request is planned anew,    *)
(* while calls are added and judgments change.                                   *)
EXTENDS Integers, FiniteSets, Sequences, FiniteSetsExt

CONSTANTS Name, MaxCalls

ASSUME ClearingAssumption == IsFiniteSet(Name) /\ MaxCalls \in Nat \ {0}

\* "omit all" covers the arguments of the call as well as its result; "replace" needs a call
\* whose result shows the model the conclusions that replace the originals, the carrier.
Judgment == {"none", "omit", "omit all", "replace"}
NoPlan == [keep |-> 0, exclude |-> {}, inputs |-> FALSE, reported |-> {}]

VARIABLES
  requestCalls, \* the calls of the request, oldest first: tool, judgment of the result
  open,         \* whether the last call has no result yet
  carrier,      \* the call whose result holds the published conclusions, 0 if none
  verified,     \* whether each call and result is one of the transcript, in the same order
  plan          \* the policy of the last request, if it was given one
clearingVars == <<requestCalls, open, carrier, verified, plan>>

Call == DOMAIN requestCalls
Answered == IF open THEN Call \ {Len(requestCalls)} ELSE Call
Tool(i) == requestCalls[i].tool

-----------------------------------------------------------------------------
(* The plan.                                                                 *)

\* A replaced result needs its conclusions in a later call of the request, which is then
\* protected even from its own omission.
Carried(i) == carrier \in Answered /\ i < carrier
Replaced == {i \in Answered : requestCalls[i].judgment = "replace" /\ Carried(i)}
Protected == IF Replaced = {} THEN {} ELSE {carrier}
Omitted == ({i \in Answered : requestCalls[i].judgment \in {"omit", "omit all"}} \cup Replaced) \ Protected

Tools(S) == {Tool(i) : i \in S}
Whole == {i \in Omitted : Tool(i) \notin Tools(Call \ Omitted)}

\* A tool whose oldest call is not selected cannot be included. Of the others the calls before
\* the first that must stay can go, and everything from that one on is kept by its number.
Includable == {t \in Tools(Omitted) : Min({i \in Call : Tool(i) = t}) \in Omitted}
Stays == {i \in Call : Tool(i) \in Includable /\ i \notin Omitted}
Cutoff == IF Stays = {} THEN Len(requestCalls) + 1 ELSE Min(Stays)
Before == {i \in Omitted : Tool(i) \in Includable /\ i < Cutoff}
SuffixOfTools ==         \* mutant: the calls of excluded tools are left out of the number
  Cardinality({i \in Call : i >= Cutoff /\ Tool(i) \in Tools(Before)})
Suffix == Len(requestCalls) - Cutoff + 1

\* What the policy is sure to clear, whichever way the server counts.
Sure(S, keep) ==
  LET included == {i \in Call : Tool(i) \in Tools(S)}
  IN {i \in included : Cardinality({j \in included : j > i}) >= keep}

\* The other policy excludes no tool and keeps all but the selected calls at the start.
Prefix == {i \in Call : \A j \in 1..i : j \in Omitted}
UseGlobal ==
  /\ Prefix # {} /\ Sure(Before, Suffix) \subseteq Prefix
  /\ Prefix # Sure(Before, Suffix) \/ Before # Sure(Before, Suffix)

Policy(S, keep, exclude) ==
  LET scopes == {requestCalls[i].judgment = "omit all" : i \in S}
  IN IF Cardinality(scopes) # 1 THEN NoPlan
     ELSE [keep |-> keep, exclude |-> exclude, inputs |-> (TRUE \in scopes), reported |-> S]

Others(S) == Tools(Call) \ Tools(S)
RecentPairs ==
  IF open \/ ~verified THEN NoPlan
  ELSE IF UseGlobal THEN Policy(Prefix, Len(requestCalls) - Cardinality(Prefix), {})
  ELSE Policy(Before, Suffix, Others(Before))

Plan == IF Whole = Omitted THEN Policy(Whole, 0, Others(Whole)) ELSE RecentPairs

-----------------------------------------------------------------------------
(* The conversation and its requests.                                         *)

ClearingInit ==
  /\ requestCalls = <<>> /\ open = FALSE /\ carrier = 0
  /\ verified \in BOOLEAN /\ plan = NoPlan

AddCall(t) ==
  /\ Len(requestCalls) < MaxCalls /\ ~open
  /\ requestCalls' = Append(requestCalls, [tool |-> t, judgment |-> "none"])
  /\ open' = TRUE /\ plan' = NoPlan
  /\ UNCHANGED <<carrier, verified>>

\* The result of a publication carries its conclusions; a later publication takes its place.
Answer(publication) ==
  /\ open /\ open' = FALSE
  /\ carrier' = IF publication THEN Len(requestCalls) ELSE carrier
  /\ plan' = NoPlan
  /\ UNCHANGED <<requestCalls, verified>>

Judge(i, j) ==
  /\ i \in Answered /\ requestCalls[i].judgment # j
  /\ requestCalls' = [requestCalls EXCEPT ![i].judgment = j]
  /\ plan' = NoPlan
  /\ UNCHANGED <<open, carrier, verified>>

Request ==
  /\ plan = NoPlan /\ Omitted # {}
  /\ plan' = Plan /\ plan' # NoPlan
  /\ UNCHANGED <<requestCalls, open, carrier, verified>>

ClearingNext ==
  \/ \E t \in Name : AddCall(t)
  \/ \E p \in BOOLEAN : Answer(p)
  \/ \E i \in Call, j \in Judgment : Judge(i, j)
  \/ Request

ClearingSpec == ClearingInit /\ [][ClearingNext]_clearingVars

-----------------------------------------------------------------------------
(* Properties.                                                               *)

\* The server clears the oldest results of the tools that are not excluded and keeps the latest
\* ones; the kept number may count all calls or only those of the tools it clears.
Counted(p, all) == IF all THEN Call ELSE {i \in Call : Tool(i) \notin p.exclude}
Cleared(p, all) ==
  {i \in Answered : Tool(i) \notin p.exclude /\ Cardinality({j \in Counted(p, all) : j > i}) >= p.keep}

ClearingTypeOK ==
  /\ requestCalls \in Seq([tool : Name, judgment : Judgment]) /\ Len(requestCalls) <= MaxCalls
  /\ open \in BOOLEAN /\ carrier \in 0..MaxCalls /\ verified \in BOOLEAN
  /\ plan.keep \in 0..MaxCalls /\ plan.reported \subseteq Call

\* Whichever way the server counts, it clears no result that is not judged away, no replaced
\* one whose conclusions the request does not keep, and arguments only where that was judged.
ClearsOnlyJudged == plan # NoPlan => \A all \in BOOLEAN : \A i \in Cleared(plan, all) :
  /\ requestCalls[i].judgment # "none"
  /\ requestCalls[i].judgment = "replace" => Carried(i) /\ carrier \notin Cleared(plan, all)
  /\ plan.inputs <=> requestCalls[i].judgment = "omit all"
=============================================================================
