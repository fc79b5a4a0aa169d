-------------------------- MODULE GovernanceProofs --------------------------
(***************************************************************************)
(* Theorems about the DAO when its calls do not overlap (one thread): the  *)
(* tally is the votes and what the proposal came with, what passed had its *)
(* majority of them, a decision is paid once and out of what was           *)
(* collected.  With two threads these fail, as the run gov_spending shows. *)
(*                                                                         *)
(* Between two accesses of one call the properties do not hold: the        *)
(* invariant says what the call under way still owes (Pending, PayInv,     *)
(* RateInv).                                                               *)
(***************************************************************************)
EXTENDS Governance, SumTheorems

\* What a vote counts for choice c.
Counted(vote, c) == IF vote.choice = c THEN vote.weight ELSE 0

CallPcs == {"idle", "revoke", "record", "apply", "finalise", "set", "rate", "check", "spend", "mark"}

\* Where the thread is, and what it has established by then.
ThreadInv(th) ==
    LET call == local[th] IN
    /\ pc \in [GovThreads -> CallPcs]
    /\ local = [t \in GovThreads |-> local[t]]
    /\ pc[th] # "idle" => call.p \in Proposals
    /\ pc[th] \in {"revoke", "record", "apply"} =>
          /\ status[call.p] = "active"
          /\ call.voter \in Voters
          /\ call.vote \in [choice : Choices, weight : Weights]
    /\ pc[th] = "finalise" => status[call.p] = "active"
    /\ pc[th] = "revoke" => call.old = votes[call.p][call.voter]
    /\ pc[th] = "apply" => call.vote = votes[call.p][call.voter]
    /\ pc[th] \in {"set", "rate", "check", "spend", "mark"} => status[call.p] = "passed"
    /\ pc[th] \in {"set", "rate"} => PayloadOf[call.p].type \in {"parameter", "protocol"}
    /\ pc[th] \in {"check", "spend"} => PayloadOf[call.p].type = "treasury"
    /\ pc[th] = "spend" => PayloadOf[call.p].value <= funds

\* What the vote under way has taken out of the tally, or not yet added to it.
Pending(th, p, c) ==
    IF pc[th] \in {"record", "apply"} /\ local[th].p = p
    THEN Counted(votes[p][local[th].voter], c) ELSE 0

TallyInv(th) ==
    \A p \in Proposals, c \in Choices : tally[p][c] = Weighed(p, c) - Pending(th, p, c)

PassInv == \A p \in Proposals : status[p] \in {"passed", "executed"} => WouldPass(p, Supply)

PayInv(th) ==
    \A p \in Proposals : PayloadOf[p].type = "treasury" =>
        spends[p] = IF status[p] = "executed" \/ (pc[th] = "mark" /\ local[th].p = p)
                    THEN 1 ELSE 0

RateInv(th) ==
    IF pc[th] = "rate" /\ PayloadOf[local[th].p].key = FeeKey
    THEN parameters[FeeKey] = PayloadOf[local[th].p].value
    ELSE feePct = parameters[FeeKey]

GovInv(th) ==
    /\ GovTypeOK
    /\ ThreadInv(th)
    /\ TallyInv(th)
    /\ PassInv
    /\ PayInv(th)
    /\ TreasuryCovered
    /\ RateInv(th)

-----------------------------------------------------------------------------
(* Weights and tallies *)

\* The weights of one choice, as a sum over all voters.
WeightOf(row, c) == SumFunctionOnSet([v \in Voters |-> Counted(row[v], c)], Voters)

LEMMA CountedType ==
  ASSUME NEW vote \in Vote, NEW c
  PROVE  Counted(vote, c) \in Nat /\ vote.weight \in Nat
<1>1. CASE vote \in [choice : Choices, weight : Weights]
  <2>1. vote.weight \in Weights /\ Weights \subseteq Nat
    BY <1>1, GovernanceAssumption
  <2> QED
    BY <2>1 DEF Counted
<1>2. CASE vote = NoVote
  BY <1>2 DEF Counted, NoVote
<1> QED
  BY <1>1, <1>2 DEF Vote

LEMMA WeightIs ==
  ASSUME NEW row \in [Voters -> Vote], NEW c
  PROVE  /\ SumFunction([v \in {u \in Voters : row[u].choice = c} |-> row[v].weight])
              = WeightOf(row, c)
         /\ WeightOf(row, c) \in Nat
<1> DEFINE D == {u \in Voters : row[u].choice = c}
           f == [v \in D |-> row[v].weight]
           g == [v \in Voters |-> IF v \in D THEN f[v] ELSE 0]
           h == [v \in Voters |-> Counted(row[v], c)]
<1>1. IsFiniteSet(Voters) /\ IsFiniteSet(D)
  BY GovernanceAssumption, FS_Subset
<1>2. \A v \in D : f[v] \in Int
  BY CountedType DEF Counted
<1>3. \A v \in Voters : h[v] = g[v] /\ h[v] \in Nat
  BY CountedType DEF Counted
<1>4. SumFunction(f) = SumFunctionOnSet(f, D)
  <2>1. DOMAIN f = D
    OBVIOUS
  <2> QED
    BY <2>1 DEF SumFunction
<1>5. SumFunctionOnSet(f, D) = SumFunctionOnSet(g, Voters)
  <2>1. D \subseteq Voters
    OBVIOUS
  <2> HIDE DEF D, f
  <2> QED
    BY <1>1, <1>2, <2>1, SumPart
<1> HIDE DEF g, h
<1>6. SumFunctionOnSet(g, Voters) = SumFunctionOnSet(h, Voters)
  BY <1>1, <1>3, SumCong
<1>7. SumFunctionOnSet(h, Voters) \in Nat
  BY <1>1, <1>3, SumNat
<1> QED
  BY <1>4, <1>5, <1>6, <1>7 DEF WeightOf, h

\* The weight of a choice after one voter's vote is replaced.
LEMMA WeightUpdate ==
  ASSUME NEW row \in [Voters -> Vote], NEW v \in Voters, NEW vote \in Vote, NEW c
  PROVE  /\ WeightOf([row EXCEPT ![v] = vote], c)
              = WeightOf(row, c) - Counted(row[v], c) + Counted(vote, c)
         /\ Counted(row[v], c) <= WeightOf(row, c)
<1> DEFINE f == [u \in Voters |-> Counted(row[u], c)]
           g == [u \in Voters |-> Counted([row EXCEPT ![v] = vote][u], c)]
<1>1. IsFiniteSet(Voters) /\ IsFiniteSet(Voters \ {v})
  BY GovernanceAssumption, FS_Subset
<1>2. \A u \in Voters : f[u] \in Nat /\ g[u] \in Nat
  BY CountedType
<1>3. (\A u \in Voters \ {v} : g[u] = f[u]) /\ f[v] = Counted(row[v], c) /\ g[v] = Counted(vote, c)
  OBVIOUS
<1>4. WeightOf(row, c) = SumFunctionOnSet(f, Voters)
      /\ WeightOf([row EXCEPT ![v] = vote], c) = SumFunctionOnSet(g, Voters)
  BY DEF WeightOf
<1> HIDE DEF f, g
<1>5. SumFunctionOnSet(g, Voters) = SumFunctionOnSet(f, Voters) - f[v] + g[v]
  BY <1>1, <1>2, <1>3, SumUpdate
<1>6. SumFunctionOnSet(f, Voters) = f[v] + SumFunctionOnSet(f, Voters \ {v})
  BY <1>1, <1>2, SumRemove
<1>7. SumFunctionOnSet(f, Voters \ {v}) \in Nat
  BY <1>1, <1>2, SumNat
<1> QED
  BY <1>2, <1>3, <1>4, <1>5, <1>6, <1>7

LEMMA ApplyIs ==
  ASSUME NEW t \in [Choices -> Int], NEW vote \in Vote, NEW c \in Choices
  PROVE  /\ ApplyWeight(t, vote.choice, vote.weight)[c] = t[c] + Counted(vote, c)
         /\ ApplyWeight(t, vote.choice, - vote.weight)[c] = t[c] - Counted(vote, c)
<1>1. vote.weight \in Nat
  BY CountedType
<1>2. CASE vote.choice \in Choices
  BY <1>1, <1>2 DEF ApplyWeight, Counted
<1>3. CASE vote.choice \notin Choices
  BY <1>1, <1>3 DEF ApplyWeight, Counted
<1> QED
  BY <1>2, <1>3

LEMMA PostedIs ==
  ASSUME NEW p \in Proposals, NEW c \in Choices
  PROVE  PostedTally[p][c] \in Int
BY GovernanceAssumption DEF Choices

LEMMA WeighedIs ==
  ASSUME NEW p, NEW c
  PROVE  /\ Weighed(p, c) = PostedTally[p][c] + WeightFor(p, c)
         /\ Weighed(p, c)' = PostedTally[p][c] + WeightFor(p, c)'
BY DEF Weighed

LEMMA WeightForIs ==
  ASSUME GovTypeOK, NEW p \in Proposals, NEW c
  PROVE  WeightFor(p, c) = WeightOf(votes[p], c) /\ WeightOf(votes[p], c) \in Nat
         /\ votes[p] \in [Voters -> Vote]
<1>1. votes[p] \in [Voters -> Vote]
  BY DEF GovTypeOK
<1> QED
  BY <1>1, WeightIs DEF WeightFor

-----------------------------------------------------------------------------
(* The steps of a call *)

LEMMA GotoIs ==
  ASSUME NEW th, GovThreads = {th}, ThreadInv(th), NEW from, NEW to \in CallPcs, NEW loc,
         Goto(th, from, to, loc)
  PROVE  /\ pc[th] = from /\ pc'[th] = to /\ local'[th] = loc
         /\ pc' \in [GovThreads -> CallPcs]
         /\ local' = [t \in GovThreads |-> local'[t]]
  BY DEF Goto, ThreadInv

\* A step that leaves votes and tallies alone, between two points of a call at which the
\* tally owes nothing.
LEMMA TallyFrame ==
  ASSUME NEW th, TallyInv(th), UNCHANGED <<votes, tally>>,
         pc[th] \notin {"record", "apply"}, pc'[th] \notin {"record", "apply"}
  PROVE  TallyInv(th)'
  BY DEF TallyInv, Weighed, WeightFor, Pending

LEMMA PassFrame ==
  ASSUME PassInv, tally' = tally,
         \A p \in Proposals : status'[p] \in {"passed", "executed"}
                              => status[p] \in {"passed", "executed"}
  PROVE  PassInv'
  BY DEF PassInv, WouldPass, QuorumMet, TotalVotes

LEMMA CoverFrame ==
  ASSUME TreasuryCovered, UNCHANGED bankVars
  PROVE  TreasuryCovered'
  BY DEF TreasuryCovered, Spent, bankVars

LEMMA VoteCheckStep ==
  ASSUME NEW th, GovThreads = {th}, GovInv(th), NEW p \in Proposals, NEW v \in Voters,
         NEW vote \in [choice : Choices, weight : Weights], VoteCheck(th, p, v, vote)
  PROVE  GovInv(th)'
<1> DEFINE loc == [p |-> p, voter |-> v, vote |-> vote, old |-> votes[p][v]]
<1> USE DEF GovInv, VoteCheck
<1>1. /\ pc[th] = "idle" /\ pc'[th] = "revoke" /\ local'[th] = loc
      /\ pc' \in [GovThreads -> CallPcs] /\ local' = [t \in GovThreads |-> local'[t]]
  <2>1. "revoke" \in CallPcs
    BY DEF CallPcs
  <2> QED
    BY <2>1, GotoIs
<1>2. GovTypeOK'
  BY DEF GovTypeOK, bankVars
<1>3. ThreadInv(th)'
  BY <1>1 DEF ThreadInv
<1>4. TallyInv(th)' /\ PassInv' /\ TreasuryCovered'
  BY <1>1, TallyFrame, PassFrame, CoverFrame
<1>5. PayInv(th)' /\ RateInv(th)'
  BY <1>1 DEF PayInv, RateInv, bankVars
<1> QED
  BY <1>2, <1>3, <1>4, <1>5

LEMMA VoteRevokeStep ==
  ASSUME NEW th, GovThreads = {th}, GovInv(th), VoteRevoke(th)
  PROVE  GovInv(th)'
<1> DEFINE call == local[th]
           old == call.old
<1> USE DEF GovInv
<1>1. /\ pc[th] = "revoke" /\ pc'[th] = "record" /\ local'[th] = call
      /\ pc' \in [GovThreads -> CallPcs] /\ local' = [t \in GovThreads |-> local'[t]]
  <2>1. "record" \in CallPcs /\ Goto(th, "revoke", "record", call)
    BY DEF CallPcs, VoteRevoke
  <2> QED
    BY <2>1, GotoIs
<1>2. UNCHANGED <<status, over, votes, parameters, feePct, bankVars>>
  BY DEF VoteRevoke
<1>3. /\ call.p \in Proposals /\ call.voter \in Voters /\ status[call.p] = "active"
      /\ old = votes[call.p][call.voter]
  BY <1>1 DEF ThreadInv
<1>4. old \in Vote /\ votes[call.p] \in [Voters -> Vote] /\ tally[call.p] \in [Choices -> Int]
  BY <1>3 DEF GovTypeOK
<1>5. tally' = [tally EXCEPT ![call.p] = ApplyWeight(tally[call.p], old.choice, - old.weight)]
  BY DEF VoteRevoke
<1>6. \A c \in Choices : tally'[call.p][c] = tally[call.p][c] - Counted(old, c)
  BY <1>3, <1>4, <1>5, ApplyIs DEF GovTypeOK
<1>7. \A p \in Proposals \ {call.p} : tally'[p] = tally[p]
  BY <1>5 DEF GovTypeOK
<1>8. \A p \in Proposals, c \in Choices :
          tally[p][c] = Weighed(p, c) /\ WeightFor(p, c) \in Nat /\ PostedTally[p][c] \in Int
  BY <1>1, WeightForIs, PostedIs DEF TallyInv, Pending, Weighed
<1>9. \A c \in Choices : Counted(old, c) <= WeightFor(call.p, c) /\ Counted(old, c) \in Nat
  BY <1>3, <1>4, WeightForIs, WeightUpdate, CountedType
<1>10. TallyInv(th)'
  <2> SUFFICES ASSUME NEW p \in Proposals, NEW c \in Choices
               PROVE  tally'[p][c] = Weighed(p, c)' - Pending(th, p, c)'
    BY DEF TallyInv
  <2>1. WeightFor(p, c)' = WeightFor(p, c)
    BY <1>2 DEF WeightFor
  <2>2. Pending(th, p, c)' = IF call.p = p THEN Counted(old, c) ELSE 0
    BY <1>1, <1>2, <1>3 DEF Pending
  <2> QED
    BY <1>6, <1>7, <1>8, <1>9, <2>1, <2>2 DEF Weighed
<1>11. tally' \in [Proposals -> [Choices -> Int]]
  <2>1. \A c \in Choices : tally[call.p][c] - Counted(old, c) \in Int
    BY <1>3, <1>4, <1>9
  <2>2. DOMAIN ApplyWeight(tally[call.p], old.choice, - old.weight) = Choices
        /\ ApplyWeight(tally[call.p], old.choice, - old.weight)
             = [c \in Choices |-> ApplyWeight(tally[call.p], old.choice, - old.weight)[c]]
    BY <1>4 DEF ApplyWeight
  <2>3. ApplyWeight(tally[call.p], old.choice, - old.weight) \in [Choices -> Int]
    BY <1>4, <2>1, <2>2, ApplyIs
  <2> QED
    BY <1>5, <2>3 DEF GovTypeOK
<1>12. GovTypeOK'
  BY <1>2, <1>11 DEF GovTypeOK, bankVars
<1>13. ThreadInv(th)'
  BY <1>1, <1>2 DEF ThreadInv
<1>14. PassInv'
  BY <1>2, <1>3, <1>7 DEF PassInv, WouldPass, QuorumMet, TotalVotes
<1>15. PayInv(th)' /\ RateInv(th)' /\ TreasuryCovered'
  BY <1>1, <1>2, CoverFrame DEF PayInv, RateInv, bankVars
<1> QED
  BY <1>10, <1>12, <1>13, <1>14, <1>15

LEMMA VoteRecordStep ==
  ASSUME NEW th, GovThreads = {th}, GovInv(th), VoteRecord(th)
  PROVE  GovInv(th)'
<1> DEFINE call == local[th]
           row == votes[call.p]
           old == row[call.voter]
<1> USE DEF GovInv
<1>1. /\ pc[th] = "record" /\ pc'[th] = "apply" /\ local'[th] = call
      /\ pc' \in [GovThreads -> CallPcs] /\ local' = [t \in GovThreads |-> local'[t]]
  <2>1. "apply" \in CallPcs /\ Goto(th, "record", "apply", call)
    BY DEF CallPcs, VoteRecord
  <2> QED
    BY <2>1, GotoIs
<1>2. UNCHANGED <<status, over, tally, parameters, feePct, bankVars>>
      /\ votes' = [votes EXCEPT ![call.p][call.voter] = call.vote]
  BY DEF VoteRecord
<1>3. /\ call.p \in Proposals /\ call.voter \in Voters /\ status[call.p] = "active"
      /\ call.vote \in [choice : Choices, weight : Weights]
  BY <1>1 DEF ThreadInv
<1>4. call.vote \in Vote /\ row \in [Voters -> Vote] /\ old \in Vote
  BY <1>3 DEF GovTypeOK, Vote
<1>5. /\ votes'[call.p] = [row EXCEPT ![call.voter] = call.vote]
      /\ \A p \in Proposals \ {call.p} : votes'[p] = votes[p]
  BY <1>2, <1>3 DEF GovTypeOK
<1>6. GovTypeOK'
  <2>1. votes' \in [Proposals -> [Voters -> Vote]]
    BY <1>2, <1>3, <1>4 DEF GovTypeOK
  <2> QED
    BY <1>2, <2>1 DEF GovTypeOK, bankVars
<1>7. TallyInv(th)'
  <2> SUFFICES ASSUME NEW p \in Proposals, NEW c \in Choices
               PROVE  tally'[p][c] = Weighed(p, c)' - Pending(th, p, c)'
    BY DEF TallyInv
  <2>1. tally[p][c] = (PostedTally[p][c] + WeightFor(p, c)) - Pending(th, p, c)
        /\ PostedTally[p][c] \in Int /\ Weighed(p, c)' = PostedTally[p][c] + WeightFor(p, c)'
    <3>1. tally[p][c] = Weighed(p, c) - Pending(th, p, c)
      BY DEF TallyInv
    <3>2. PostedTally[p][c] \in Int
      BY PostedIs
    <3>3. /\ Weighed(p, c) = PostedTally[p][c] + WeightFor(p, c)
          /\ Weighed(p, c)' = PostedTally[p][c] + WeightFor(p, c)'
      BY WeighedIs
    <3> QED
      BY <3>1, <3>2, <3>3
  <2>2. CASE p = call.p
    <3>1. WeightFor(p, c) = WeightOf(row, c) /\ WeightOf(row, c) \in Nat
      BY <1>3, <2>2, WeightForIs
    <3>2. WeightFor(p, c)' = WeightOf([row EXCEPT ![call.voter] = call.vote], c)
      <4>1. [row EXCEPT ![call.voter] = call.vote] \in [Voters -> Vote]
        BY <1>3, <1>4
      <4> QED
        BY <1>5, <2>2, <4>1, WeightIs DEF WeightFor
    <3>3. WeightOf([row EXCEPT ![call.voter] = call.vote], c)
            = WeightOf(row, c) - Counted(old, c) + Counted(call.vote, c)
      BY <1>3, <1>4, WeightUpdate
    <3>4. Pending(th, p, c) = Counted(old, c)
      BY <1>1, <2>2 DEF Pending
    <3>5. Pending(th, p, c)' = Counted(call.vote, c)
      BY <1>1, <1>3, <1>4, <1>5, <2>2 DEF Pending
    <3>6. Counted(old, c) \in Nat /\ Counted(call.vote, c) \in Nat
      BY <1>4, CountedType
    <3> QED
      BY <1>2, <2>1, <3>1, <3>2, <3>3, <3>4, <3>5, <3>6
  <2>3. CASE p # call.p
    <3>1. WeightFor(p, c)' = WeightFor(p, c)
      BY <1>5, <2>3 DEF WeightFor
    <3>3. WeightFor(p, c) \in Nat
      BY WeightForIs
    <3>2. Pending(th, p, c) = 0 /\ Pending(th, p, c)' = 0
      BY <1>1, <2>3 DEF Pending
    <3> QED
      BY <1>2, <2>1, <3>1, <3>2, <3>3
  <2> QED
    BY <2>2, <2>3
<1>8. ThreadInv(th)'
  BY <1>1, <1>2, <1>3, <1>4, <1>5 DEF ThreadInv
<1>9. PassInv' /\ TreasuryCovered'
  BY <1>2, PassFrame, CoverFrame
<1>10. PayInv(th)' /\ RateInv(th)'
  BY <1>1, <1>2 DEF PayInv, RateInv, bankVars
<1> QED
  BY <1>6, <1>7, <1>8, <1>9, <1>10

LEMMA VoteApplyStep ==
  ASSUME NEW th, GovThreads = {th}, GovInv(th), VoteApply(th)
  PROVE  GovInv(th)'
<1> DEFINE call == local[th]
           vote == call.vote
<1> USE DEF GovInv
<1>1. /\ pc[th] = "apply" /\ pc'[th] = "idle"
      /\ pc' \in [GovThreads -> CallPcs] /\ local' = [t \in GovThreads |-> local'[t]]
  <2>1. "idle" \in CallPcs /\ Goto(th, "apply", "idle", <<>>)
    BY DEF CallPcs, VoteApply
  <2> QED
    BY <2>1, GotoIs
<1>2. UNCHANGED <<status, over, votes, parameters, feePct, bankVars>>
  BY DEF VoteApply
<1>3. /\ call.p \in Proposals /\ call.voter \in Voters /\ status[call.p] = "active"
      /\ vote = votes[call.p][call.voter]
  BY <1>1 DEF ThreadInv
<1>4. vote \in Vote /\ tally[call.p] \in [Choices -> Int]
  BY <1>3 DEF GovTypeOK
<1>5. tally' = [tally EXCEPT ![call.p] = ApplyWeight(tally[call.p], vote.choice, vote.weight)]
  BY DEF VoteApply
<1>6. \A c \in Choices : tally'[call.p][c] = tally[call.p][c] + Counted(vote, c)
                         /\ Counted(vote, c) \in Nat
  BY <1>3, <1>4, <1>5, ApplyIs, CountedType DEF GovTypeOK
<1>7. \A p \in Proposals \ {call.p} : tally'[p] = tally[p]
  BY <1>5 DEF GovTypeOK
<1>8. TallyInv(th)'
  <2> SUFFICES ASSUME NEW p \in Proposals, NEW c \in Choices
               PROVE  tally'[p][c] = Weighed(p, c)' - Pending(th, p, c)'
    BY DEF TallyInv
  <2>1. /\ tally[p][c] = (PostedTally[p][c] + WeightFor(p, c)) - Pending(th, p, c)
        /\ WeightFor(p, c) \in Nat /\ PostedTally[p][c] \in Int
        /\ Weighed(p, c)' = PostedTally[p][c] + WeightFor(p, c)'
    <3>1. WeightFor(p, c) \in Nat /\ PostedTally[p][c] \in Int
      BY WeightForIs, PostedIs
    <3>2. tally[p][c] = Weighed(p, c) - Pending(th, p, c)
      BY DEF TallyInv
    <3>3. /\ Weighed(p, c) = PostedTally[p][c] + WeightFor(p, c)
          /\ Weighed(p, c)' = PostedTally[p][c] + WeightFor(p, c)'
      BY WeighedIs
    <3> QED
      BY <3>1, <3>2, <3>3
  <2>2. WeightFor(p, c)' = WeightFor(p, c) /\ Pending(th, p, c)' = 0
    BY <1>1, <1>2 DEF WeightFor, Pending
  <2>3. Pending(th, p, c) = IF call.p = p THEN Counted(vote, c) ELSE 0
    BY <1>1, <1>3 DEF Pending
  <2> QED
    BY <1>6, <1>7, <2>1, <2>2, <2>3
<1>9. tally' \in [Proposals -> [Choices -> Int]]
  <2>1. \A c \in Choices : tally[call.p][c] + Counted(vote, c) \in Int
    BY <1>3, <1>6 DEF GovTypeOK
  <2>2. ApplyWeight(tally[call.p], vote.choice, vote.weight)
          = [c \in Choices |-> ApplyWeight(tally[call.p], vote.choice, vote.weight)[c]]
    BY <1>4 DEF ApplyWeight
  <2>3. ApplyWeight(tally[call.p], vote.choice, vote.weight) \in [Choices -> Int]
    BY <1>4, <2>1, <2>2, ApplyIs
  <2> QED
    BY <1>5, <2>3 DEF GovTypeOK
<1>10. GovTypeOK'
  BY <1>2, <1>9 DEF GovTypeOK, bankVars
<1>11. ThreadInv(th)'
  BY <1>1 DEF ThreadInv
<1>12. PassInv'
  BY <1>2, <1>3, <1>7 DEF PassInv, WouldPass, QuorumMet, TotalVotes
<1>13. PayInv(th)' /\ RateInv(th)' /\ TreasuryCovered'
  BY <1>1, <1>2, CoverFrame DEF PayInv, RateInv, bankVars
<1> QED
  BY <1>8, <1>10, <1>11, <1>12, <1>13

-----------------------------------------------------------------------------
(* The other steps *)

\* Steps on the clock and on proposals nobody is deciding upon.
LEMMA StatusStep ==
  ASSUME NEW th, GovThreads = {th}, GovInv(th), NEW p \in Proposals,
         UNCHANGED <<votes, tally, parameters, feePct, bankVars, pc, local>>,
         over' \subseteq Proposals,
         \/ status' = status
         \/ /\ pc[th] = "idle"
            /\ \/ status[p] = "draft" /\ status' = [status EXCEPT ![p] = "active"]
               \/ status[p] = "active" /\ status' = [status EXCEPT ![p] = "rejected"]
  PROVE  GovInv(th)'
<1> USE DEF GovInv
<1>1. GovTypeOK'
  BY DEF GovTypeOK, Status, bankVars
<1>2. ThreadInv(th)'
  BY DEF ThreadInv, bankVars
<1>3. TallyInv(th)'
  BY DEF TallyInv, Weighed, WeightFor, Pending
<1>4. \A q \in Proposals : (status'[q] = "executed" <=> status[q] = "executed")
                          /\ (status'[q] = "passed" <=> status[q] = "passed")
  BY DEF GovTypeOK
<1>5. PassInv' /\ TreasuryCovered'
  BY <1>4, PassFrame, CoverFrame
<1>6. PayInv(th)' /\ RateInv(th)'
  BY <1>4 DEF PayInv, RateInv, bankVars
<1> QED
  BY <1>1, <1>2, <1>3, <1>5, <1>6

LEMMA CollectStep ==
  ASSUME NEW th, GovThreads = {th}, GovInv(th), NEW amount \in Incomes, Collect(th, amount)
  PROVE  GovInv(th)'
<1> USE DEF GovInv, Collect
<1>0. amount \in Nat
  BY GovernanceAssumption
<1>1. GovTypeOK'
  BY <1>0 DEF GovTypeOK
<1>2. ThreadInv(th)'
  BY DEF ThreadInv
<1>3. TallyInv(th)' /\ PassInv'
  BY TallyFrame, PassFrame
<1>4. TreasuryCovered'
  <2>1. Spent' = Spent
    BY DEF Spent
  <2>2. Spent \in Int
    <3>1. \A q \in Proposals : spends[q] * PayloadOf[q].value \in Nat
      BY GovernanceAssumption DEF GovTypeOK
    <3>2. DOMAIN [q \in Proposals |-> spends[q] * PayloadOf[q].value] = Proposals
      OBVIOUS
    <3> QED
      BY <3>1, <3>2, GovernanceAssumption, SumNat DEF Spent, SumFunction
  <2> QED
    BY <1>0, <2>1, <2>2 DEF TreasuryCovered, GovTypeOK
<1>5. PayInv(th)' /\ RateInv(th)'
  BY DEF PayInv, RateInv
<1> QED
  BY <1>1, <1>2, <1>3, <1>4, <1>5

\* Steps that only move the thread, to a place where no more is asked than is known.
LEMMA MoveStep ==
  ASSUME NEW th, GovThreads = {th}, GovInv(th), NEW from, NEW to \in CallPcs, NEW loc,
         Goto(th, from, to, loc),
         UNCHANGED <<status, over, votes, tally, parameters, feePct, bankVars>>,
         from \in {"idle", "check"}, to \in {"idle", "finalise", "set", "check", "spend", "mark"},
         to # "idle" => loc.p \in Proposals,
         to = "finalise" => status[loc.p] = "active",
         to \in {"set", "check", "spend", "mark"} => status[loc.p] = "passed",
         to = "set" => PayloadOf[loc.p].type \in {"parameter", "protocol"},
         to \in {"check", "spend"} => PayloadOf[loc.p].type = "treasury",
         to = "spend" => PayloadOf[loc.p].value <= funds,
         to = "mark" => PayloadOf[loc.p].type # "treasury"
  PROVE  GovInv(th)'
<1> USE DEF GovInv
<1>1. /\ pc[th] = from /\ pc'[th] = to /\ local'[th] = loc
      /\ pc' \in [GovThreads -> CallPcs] /\ local' = [t \in GovThreads |-> local'[t]]
  BY GotoIs
<1>2. GovTypeOK'
  BY DEF GovTypeOK, bankVars
<1>3. ThreadInv(th)'
  BY <1>1 DEF ThreadInv, bankVars
<1>4. TallyInv(th)' /\ PassInv' /\ TreasuryCovered'
  BY <1>1, TallyFrame, PassFrame, CoverFrame
<1>5. PayInv(th)'
  BY <1>1 DEF PayInv, bankVars
<1>6. RateInv(th)'
  BY <1>1 DEF RateInv
<1> QED
  BY <1>2, <1>3, <1>4, <1>5, <1>6

\* What passes has more than half of the votes for or against.
LEMMA FinaliseStep ==
  ASSUME NEW th, GovThreads = {th}, GovInv(th), Finalise(th)
  PROVE  GovInv(th)'
<1> DEFINE p == local[th].p
<1> USE DEF GovInv
<1>1. /\ pc[th] = "finalise" /\ pc'[th] = "idle"
      /\ pc' \in [GovThreads -> CallPcs] /\ local' = [t \in GovThreads |-> local'[t]]
  <2>1. "idle" \in CallPcs /\ Goto(th, "finalise", "idle", <<>>)
    BY DEF CallPcs, Finalise
  <2> QED
    BY <2>1, GotoIs
<1>2. p \in Proposals
  BY <1>1 DEF ThreadInv
<1>3. UNCHANGED <<over, votes, tally, parameters, feePct, bankVars>>
      /\ status' = [status EXCEPT ![p] = IF WouldPass(p, Supply) THEN "passed" ELSE "rejected"]
  BY DEF Finalise
<1>4. GovTypeOK'
  BY <1>3 DEF GovTypeOK, Status, bankVars
<1>5. ThreadInv(th)'
  BY <1>1 DEF ThreadInv
<1>6. TallyInv(th)' /\ TreasuryCovered'
  BY <1>1, <1>3, TallyFrame, CoverFrame
<1>7. PassInv'
  <2>1. \A q \in Proposals : WouldPass(q, Supply)' = WouldPass(q, Supply)
    BY <1>3 DEF WouldPass, QuorumMet, TotalVotes
  <2> QED
    BY <1>2, <1>3, <2>1 DEF PassInv, GovTypeOK
<1>8. status[p] = "active"
  BY <1>1 DEF ThreadInv
<1>9. PayInv(th)' /\ RateInv(th)'
  BY <1>1, <1>2, <1>3, <1>8 DEF PayInv, RateInv, bankVars, GovTypeOK
<1> QED
  BY <1>4, <1>5, <1>6, <1>7, <1>9

LEMMA SetParameterStep ==
  ASSUME NEW th, GovThreads = {th}, GovInv(th), SetParameter(th)
  PROVE  GovInv(th)'
<1> DEFINE p == local[th].p
<1> USE DEF GovInv
<1>1. /\ pc[th] = "set" /\ pc'[th] = "rate" /\ local'[th] = local[th]
      /\ pc' \in [GovThreads -> CallPcs] /\ local' = [t \in GovThreads |-> local'[t]]
  <2>1. "rate" \in CallPcs /\ Goto(th, "set", "rate", local[th])
    BY DEF CallPcs, SetParameter
  <2> QED
    BY <2>1, GotoIs
<1>2. /\ p \in Proposals /\ PayloadOf[p].key \in GovKeys /\ PayloadOf[p].value \in Nat
  BY <1>1, GovernanceAssumption DEF ThreadInv
<1>3. UNCHANGED <<status, over, votes, tally, feePct, bankVars>>
      /\ parameters' = [parameters EXCEPT ![PayloadOf[p].key] = PayloadOf[p].value]
  BY DEF SetParameter
<1>4. GovTypeOK'
  BY <1>2, <1>3 DEF GovTypeOK, bankVars
<1>5. ThreadInv(th)'
  BY <1>1, <1>3 DEF ThreadInv
<1>6. TallyInv(th)' /\ PassInv' /\ TreasuryCovered'
  BY <1>1, <1>3, TallyFrame, PassFrame, CoverFrame
<1>7. PayInv(th)'
  BY <1>1, <1>3 DEF PayInv, bankVars
<1>8. RateInv(th)'
  BY <1>1, <1>2, <1>3, GovernanceAssumption DEF RateInv, GovTypeOK
<1> QED
  BY <1>4, <1>5, <1>6, <1>7, <1>8

LEMMA ApplyParameterStep ==
  ASSUME NEW th, GovThreads = {th}, GovInv(th), ApplyParameter(th)
  PROVE  GovInv(th)'
<1> DEFINE p == local[th].p
<1> USE DEF GovInv
<1>1. /\ pc[th] = "rate" /\ pc'[th] = "mark" /\ local'[th] = local[th]
      /\ pc' \in [GovThreads -> CallPcs] /\ local' = [t \in GovThreads |-> local'[t]]
  <2>1. "mark" \in CallPcs /\ Goto(th, "rate", "mark", local[th])
    BY DEF CallPcs, ApplyParameter
  <2> QED
    BY <2>1, GotoIs
<1>2. /\ p \in Proposals /\ PayloadOf[p].value \in Nat
      /\ PayloadOf[p].type \in {"parameter", "protocol"}
      /\ PayloadOf[p].type = "protocol" => PayloadOf[p].key # FeeKey
  BY <1>1, GovernanceAssumption DEF ThreadInv
<1>3. UNCHANGED <<status, over, votes, tally, parameters, bankVars>>
      /\ feePct' = IF PayloadOf[p].type = "parameter" /\ PayloadOf[p].key = FeeKey
                   THEN PayloadOf[p].value ELSE feePct
  BY DEF ApplyParameter
<1>4. GovTypeOK'
  BY <1>2, <1>3 DEF GovTypeOK, bankVars
<1>5. ThreadInv(th)'
  BY <1>1, <1>3 DEF ThreadInv
<1>6. TallyInv(th)' /\ PassInv' /\ TreasuryCovered'
  BY <1>1, <1>3, TallyFrame, PassFrame, CoverFrame
<1>7. PayInv(th)'
  BY <1>1, <1>2, <1>3 DEF PayInv, bankVars
<1>8. RateInv(th)'
  BY <1>1, <1>2, <1>3 DEF RateInv
<1> QED
  BY <1>4, <1>5, <1>6, <1>7, <1>8

\* The payment: it was covered when checked, and nothing else spends meanwhile.
LEMMA SpendStep ==
  ASSUME NEW th, GovThreads = {th}, GovInv(th), Spend(th)
  PROVE  GovInv(th)'
<1> DEFINE p == local[th].p
           cost(s) == [q \in Proposals |-> s[q] * PayloadOf[q].value]
<1> USE DEF GovInv
<1>1. /\ pc[th] = "spend" /\ pc'[th] = "mark" /\ local'[th] = local[th]
      /\ pc' \in [GovThreads -> CallPcs] /\ local' = [t \in GovThreads |-> local'[t]]
  <2>1. "mark" \in CallPcs /\ Goto(th, "spend", "mark", local[th])
    BY DEF CallPcs, Spend
  <2> QED
    BY <2>1, GotoIs
<1>2. /\ p \in Proposals /\ status[p] = "passed" /\ PayloadOf[p].value <= funds
      /\ PayloadOf[p].type = "treasury"
  BY <1>1 DEF ThreadInv
<1>3. \A q \in Proposals : PayloadOf[q].value \in Nat
  BY GovernanceAssumption
<1>4. /\ UNCHANGED <<status, over, votes, tally, parameters, feePct, income>>
      /\ spends' = [spends EXCEPT ![p] = @ + 1]
      /\ funds' = funds - PayloadOf[p].value
  BY DEF Spend
<1>5. spends \in [Proposals -> Nat] /\ spends' \in [Proposals -> Nat] /\ funds \in Int
  BY <1>2, <1>4 DEF GovTypeOK
<1>6. GovTypeOK'
  BY <1>2, <1>3, <1>4, <1>5 DEF GovTypeOK
<1>7. ThreadInv(th)'
  BY <1>1, <1>4 DEF ThreadInv
<1>8. TallyInv(th)' /\ PassInv'
  BY <1>1, <1>4, TallyFrame, PassFrame
<1>9. Spent' = Spent + PayloadOf[p].value /\ Spent \in Nat
  <2>1. \A q \in Proposals : cost(spends)[q] \in Nat /\ cost(spends')[q] \in Nat
    BY <1>3, <1>5
  <2>2. \A q \in Proposals \ {p} : cost(spends')[q] = cost(spends)[q]
    BY <1>4, <1>5
  <2>3. cost(spends')[p] = cost(spends)[p] + PayloadOf[p].value
    <3>1. \A x, y \in Nat : (x + 1) * y = x * y + y
      OBVIOUS
    <3> QED
      BY <1>2, <1>3, <1>4, <1>5, <3>1
  <2>4. DOMAIN cost(spends) = Proposals /\ DOMAIN cost(spends') = Proposals
    OBVIOUS
  <2>5. Spent = SumFunctionOnSet(cost(spends), Proposals)
        /\ Spent' = SumFunctionOnSet(cost(spends'), Proposals)
    BY <2>4 DEF Spent, SumFunction
  <2>6. IsFiniteSet(Proposals)
    BY GovernanceAssumption
  <2> HIDE DEF cost
  <2>7. SumFunctionOnSet(cost(spends'), Proposals)
          = SumFunctionOnSet(cost(spends), Proposals) - cost(spends)[p] + cost(spends')[p]
    <3>1. \A q \in Proposals : cost(spends)[q] \in Int /\ cost(spends')[q] \in Int
      BY <2>1
    <3> HIDE DEF p
    <3> QED
      BY ONLY <1>2, <2>2, <2>6, <3>1, SumUpdate
  <2>8. SumFunctionOnSet(cost(spends), Proposals) \in Nat
    BY <2>1, <2>6, SumNat
  <2> QED
    BY <1>2, <1>3, <2>1, <2>3, <2>5, <2>7, <2>8
<1>10. TreasuryCovered'
  BY <1>2, <1>3, <1>4, <1>5, <1>9 DEF TreasuryCovered, GovTypeOK
<1>11. PayInv(th)'
  <2> SUFFICES ASSUME NEW q \in Proposals, PayloadOf[q].type = "treasury"
               PROVE  spends'[q] = IF status'[q] = "executed" \/ (pc'[th] = "mark" /\ local'[th].p = q)
                                   THEN 1 ELSE 0
    BY DEF PayInv
  <2>1. spends[q] = IF status[q] = "executed" THEN 1 ELSE 0
    BY <1>1 DEF PayInv
  <2> QED
    BY <1>1, <1>2, <1>4, <1>5, <2>1
<1>12. RateInv(th)'
  BY <1>1, <1>4 DEF RateInv
<1> QED
  BY <1>6, <1>7, <1>8, <1>10, <1>11, <1>12

LEMMA MarkStep ==
  ASSUME NEW th, GovThreads = {th}, GovInv(th), MarkExecuted(th)
  PROVE  GovInv(th)'
<1> DEFINE p == local[th].p
<1> USE DEF GovInv
<1>1. /\ pc[th] = "mark" /\ pc'[th] = "idle"
      /\ pc' \in [GovThreads -> CallPcs] /\ local' = [t \in GovThreads |-> local'[t]]
  <2>1. "idle" \in CallPcs /\ Goto(th, "mark", "idle", <<>>)
    BY DEF CallPcs, MarkExecuted
  <2> QED
    BY <2>1, GotoIs
<1>2. p \in Proposals /\ status[p] = "passed"
  BY <1>1 DEF ThreadInv
<1>3. UNCHANGED <<over, votes, tally, parameters, feePct, bankVars>>
      /\ status' = [status EXCEPT ![p] = "executed"]
  BY DEF MarkExecuted
<1>4. GovTypeOK'
  BY <1>3 DEF GovTypeOK, Status, bankVars
<1>5. ThreadInv(th)'
  BY <1>1 DEF ThreadInv
<1>6. TallyInv(th)' /\ TreasuryCovered'
  BY <1>1, <1>3, TallyFrame, CoverFrame
<1>7. PassInv'
  <2>1. \A q \in Proposals : status'[q] \in {"passed", "executed"}
                            => status[q] \in {"passed", "executed"}
    BY <1>2, <1>3 DEF GovTypeOK
  <2> QED
    BY <1>3, <2>1, PassFrame
<1>8. PayInv(th)'
  <2> SUFFICES ASSUME NEW q \in Proposals, PayloadOf[q].type = "treasury"
               PROVE  spends'[q] = IF status'[q] = "executed" THEN 1 ELSE 0
    BY <1>1 DEF PayInv
  <2>1. spends[q] = IF status[q] = "executed" \/ p = q THEN 1 ELSE 0
    BY <1>1 DEF PayInv
  <2> QED
    BY <1>2, <1>3, <2>1 DEF bankVars, GovTypeOK
<1>9. RateInv(th)'
  BY <1>1, <1>3 DEF RateInv
<1> QED
  BY <1>4, <1>5, <1>6, <1>7, <1>8, <1>9

-----------------------------------------------------------------------------
LEMMA GovStep ==
  ASSUME NEW th, GovThreads = {th}, GovInv(th), [GovNext]_govVars
  PROVE  GovInv(th)'
<1>0. GovTypeOK /\ ThreadInv(th)
  BY DEF GovInv
<1>1. CASE UNCHANGED govVars
  <2>1. UNCHANGED <<status, over, votes, tally, parameters, feePct, bankVars, pc, local>>
    BY <1>1 DEF govVars
  <2>2. UNCHANGED <<funds, income, spends>>
    BY <2>1 DEF bankVars
  <2>3. GovTypeOK' /\ ThreadInv(th)'
    BY <2>1, <2>2 DEF GovInv, GovTypeOK, ThreadInv
  <2>4. TallyInv(th)'
    BY <2>1 DEF GovInv, TallyInv, Weighed, WeightFor, Pending
  <2>5. PassInv' /\ TreasuryCovered'
    BY <2>1, PassFrame, CoverFrame DEF GovInv
  <2>6. PayInv(th)' /\ RateInv(th)'
    BY <2>1, <2>2 DEF GovInv, PayInv, RateInv
  <2> QED
    BY <2>3, <2>4, <2>5, <2>6 DEF GovInv
<1>2. ASSUME NEW p \in Proposals, EndVoting(p) PROVE GovInv(th)'
  <2>1. over' \subseteq Proposals
    BY <1>0, <1>2 DEF EndVoting, GovTypeOK
  <2> QED
    BY <1>2, <2>1, StatusStep DEF EndVoting
<1>3. ASSUME NEW p \in Proposals, Submit(th, p) PROVE GovInv(th)'
  <2>1. over' \subseteq Proposals
    BY <1>0, <1>3 DEF Submit, GovTypeOK
  <2> QED
    BY <1>3, <2>1, StatusStep DEF Submit
<1>4. ASSUME NEW p \in Proposals, VoteLate(th, p) PROVE GovInv(th)'
  <2>1. over' \subseteq Proposals
    BY <1>0, <1>4 DEF VoteLate, GovTypeOK
  <2>2. ~ WouldPass(p, 0)
    BY DEF WouldPass, QuorumMet
  <2> QED
    BY <1>4, <2>1, <2>2, StatusStep DEF VoteLate
<1>5. ASSUME NEW p \in Proposals, TallyCheck(th, p) PROVE GovInv(th)'
  <2>1. "finalise" \in CallPcs /\ [p |-> p].p = p
    BY DEF CallPcs
  <2>2. GovInv(th)'
    BY <1>5, <2>1, MoveStep DEF TallyCheck
  <2> QED
    BY <2>2
<1>6. ASSUME NEW p \in Proposals, ExecuteCheck(th, p) PROVE GovInv(th)'
  <2> DEFINE type == PayloadOf[p].type
             to == FirstStep(type)
  <2>1. type \in {"parameter", "treasury", "protocol", "custom"}
    BY <1>6, GovernanceAssumption DEF ExecuteCheck
  <2>2. /\ to \in {"set", "check", "mark"}
        /\ to = "set" => type \in {"parameter", "protocol"}
        /\ to = "check" => type = "treasury"
        /\ to = "mark" => type # "treasury"
    BY <2>1 DEF FirstStep
  <2>3. to \in CallPcs /\ [p |-> p].p = p
    BY <2>2 DEF CallPcs
  <2>4. /\ Goto(th, "idle", to, [p |-> p]) /\ status[p] = "passed"
        /\ UNCHANGED <<status, over, votes, tally, parameters, feePct, bankVars>>
    BY <1>6 DEF ExecuteCheck
  <2> HIDE DEF to
  <2> QED
    BY <2>2, <2>3, <2>4, MoveStep
<1>7. ASSUME NEW p \in Proposals, NEW v \in Voters, NEW c \in Choices, NEW w \in Weights,
             VoteCheck(th, p, v, [choice |-> c, weight |-> w])
      PROVE  GovInv(th)'
  <2>1. [choice |-> c, weight |-> w] \in [choice : Choices, weight : Weights]
    OBVIOUS
  <2> QED
    BY <1>7, <2>1, VoteCheckStep
<1>8. ASSUME SpendCheck(th) PROVE GovInv(th)'
  <2> DEFINE p == local[th].p
  <2>1. pc[th] = "check" /\ p \in Proposals /\ status[p] = "passed" /\ PayloadOf[p].type = "treasury"
        /\ UNCHANGED <<status, over, votes, tally, parameters, feePct, bankVars>>
    BY <1>0, <1>8 DEF SpendCheck, ThreadInv
  <2>2. "spend" \in CallPcs /\ "idle" \in CallPcs
    BY DEF CallPcs
  <2>3. CASE PayloadOf[p].value <= funds
    <3>1. Goto(th, "check", "spend", local[th])
      BY <1>8, <2>3 DEF SpendCheck
    <3> QED
      BY <2>1, <2>2, <2>3, <3>1, MoveStep
  <2>4. CASE ~ (PayloadOf[p].value <= funds)
    <3>1. Goto(th, "check", "idle", <<>>)
      BY <1>8, <2>4 DEF SpendCheck
    <3> QED
      BY <2>1, <2>2, <3>1, MoveStep
  <2> QED
    BY <2>3, <2>4
<1>9. ASSUME Continue(th) PROVE GovInv(th)'
  BY <1>8, <1>9, VoteRevokeStep, VoteRecordStep, VoteApplyStep, FinaliseStep, SetParameterStep,
     ApplyParameterStep, SpendStep, MarkStep DEF Continue
<1>10. CASE GovNext
  BY <1>2, <1>3, <1>4, <1>5, <1>6, <1>7, <1>9, <1>10, CollectStep DEF GovNext
<1> QED
  BY <1>1, <1>10

LEMMA GovStart == ASSUME NEW th, GovThreads = {th}, GovInit PROVE GovInv(th)
<1> USE DEF GovInit
<1>1. GovTypeOK
  BY GovernanceAssumption DEF GovTypeOK, Status, Vote, Choices
<1>2. ThreadInv(th)
  BY DEF ThreadInv, CallPcs
<1>3. TallyInv(th)
  <2> SUFFICES ASSUME NEW p \in Proposals, NEW c \in Choices PROVE WeightFor(p, c) = 0
    BY PostedIs DEF TallyInv, Pending, Weighed
  <2>1. {u \in Voters : votes[p][u].choice = c} = {}
    BY DEF Choices, NoVote
  <2> DEFINE f == [v \in {u \in Voters : votes[p][u].choice = c} |-> votes[p][v].weight]
  <2>2. DOMAIN f = {}
    BY <2>1
  <2>3. WeightFor(p, c) = SumFunctionOnSet(f, DOMAIN f)
    BY DEF WeightFor, SumFunction
  <2> HIDE DEF f
  <2> QED
    BY <2>2, <2>3, SumEmpty
<1>4. TreasuryCovered
  <2> DEFINE f == [q \in Proposals |-> spends[q] * PayloadOf[q].value]
  <2>1. \A q \in Proposals : f[q] = 0
    BY GovernanceAssumption
  <2>2. DOMAIN f = Proposals /\ Spent = SumFunctionOnSet(f, DOMAIN f)
    BY DEF Spent, SumFunction
  <2> HIDE DEF f
  <2>3. Spent = 0
    BY <2>1, <2>2, SumZero, GovernanceAssumption
  <2> QED
    BY <2>3 DEF TreasuryCovered
<1>5. PassInv /\ PayInv(th) /\ RateInv(th)
  BY GovernanceAssumption DEF PassInv, PayInv, RateInv
<1> QED
  BY <1>1, <1>2, <1>3, <1>4, <1>5 DEF GovInv

LEMMA GovInvariant ==
  ASSUME NEW th, GovThreads = {th}
  PROVE  GovSpec => []GovInv(th)
<1>1. GovInit => GovInv(th)
  BY GovStart
<1>2. GovInv(th) /\ [GovNext]_govVars => GovInv(th)'
  BY GovStep
<1> QED
  BY <1>1, <1>2, PTL DEF GovSpec

\* The decision follows the votes, and the tallies the proposal came with.  However often
\* voters change their choice and their weight, the running tally that cast_vote adjusts is
\* the tally in the body of the proposal and the sum of the votes that stand; what passed
\* has a quorum and a majority of that, for any supply, any weights and any body.
THEOREM DecisionFollowsVotes ==
  ASSUME NEW th, GovThreads = {th}
  PROVE  GovSpec => []VotesDecide
<1>1. ASSUME GovInv(th) PROVE VotesDecide
  <2>1. TallyMatchesVotes
    <3> SUFFICES ASSUME Idle, NEW p \in Proposals, NEW c \in Choices
                 PROVE  tally[p][c] = Weighed(p, c)
      BY DEF TallyMatchesVotes
    <3>1. WeightFor(p, c) \in Nat /\ PostedTally[p][c] \in Int
      BY <1>1, WeightForIs, PostedIs DEF GovInv
    <3> QED
      BY <1>1, <3>1 DEF Idle, GovInv, TallyInv, Pending, Weighed
  <2>2. PassedByMajority
    <3> SUFFICES ASSUME Idle, NEW p \in Proposals, status[p] \in {"passed", "executed"}
                 PROVE  /\ 10 * (Weighed(p, "yes") + Weighed(p, "no") + Weighed(p, "abstain"))
                             >= Supply
                        /\ Weighed(p, "yes") > Weighed(p, "no")
      BY DEF PassedByMajority
    <3>1. tally[p]["yes"] = Weighed(p, "yes") /\ tally[p]["no"] = Weighed(p, "no")
          /\ tally[p]["abstain"] = Weighed(p, "abstain")
      BY <2>1 DEF TallyMatchesVotes, Choices
    <3>2. tally[p]["yes"] \in Int /\ tally[p]["no"] \in Int /\ tally[p]["abstain"] \in Int
      BY <1>1 DEF GovInv, GovTypeOK, Choices
    <3>3. WouldPass(p, Supply) /\ Supply \in Nat
      BY <1>1, GovernanceAssumption DEF GovInv, PassInv
    <3> QED
      BY <3>1, <3>2, <3>3 DEF WouldPass, QuorumMet, TotalVotes
  <2> QED
    BY <1>1, <2>1, <2>2 DEF VotesDecide, GovInv
<1> QED
  BY <1>1, GovInvariant, PTL

\* The treasury keeps to the decisions: execute, repeated as often as one likes, pays a
\* treasury proposal once and only when executed, never more than was collected, and the
\* fee rate that the treasury charges is the one the engine publishes.
THEOREM TreasuryKeepsToDecisions ==
  ASSUME NEW th, GovThreads = {th}
  PROVE  GovSpec => []TreasuryKept
<1>1. ASSUME GovInv(th) PROVE TreasuryKept
  <2>1. PaidOnce
    BY <1>1 DEF PaidOnce, Idle, GovInv, PayInv
  <2>2. TreasuryCovered /\ RatesAgree
    BY <1>1 DEF RatesAgree, Idle, GovInv, RateInv
  <2> QED
    BY <2>1, <2>2 DEF TreasuryKept
<1> QED
  BY <1>1, GovInvariant, PTL
=============================================================================
