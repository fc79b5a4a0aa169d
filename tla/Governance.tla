----------------------------- MODULE Governance -----------------------------
(***************************************************************************)
(* The DAO (border/dao): proposals, weighted votes, tally, execution and   *)
(* the treasury.  The handlers of dao/node.py are plain functions, which   *)
(* FastAPI runs in a pool of threads, and GovernanceEngine has no lock: a  *)
(* call is cut here between its accesses to the shared state.  With one    *)
(* thread the calls come one after the other, as in the tests.             *)
(*                                                                         *)
(* The clock is the set of proposals whose voting period is over.  Amounts *)
(* and weights are naturals.  A payload is valid when it passes the checks *)
(* of its type: a whitelisted key and a non-negative number, a recipient   *)
(* and a positive amount, a flag, a target and a positive amount.  Calls   *)
(* that return an error without an effect are no steps.                    *)
(*                                                                         *)
(* A proposal is built from the body of the request, tallies included (a   *)
(* body taken from the listing of another node has that node's votes), and *)
(* submit resets its status only: PostedTally[p] is what p comes with.     *)
(***************************************************************************)
EXTENDS Integers, FiniteSets, Functions

CONSTANTS
    GovThreads,        \* threads of the pool
    Proposals,      \* proposal ids
    Voters,         \* voter addresses
    Weights,        \* balances a vote may carry
    PayloadOf,      \* PayloadOf[p]: [type, valid, key, value]
    PostedTally,    \* PostedTally[p]: the tallies in the body that p is submitted with
    GovKeys,           \* protocol parameters and feature flags
    FeeKey,         \* "tx_fee_pct", which the treasury keeps too
    FeePct,         \* its initial value
    Supply,         \* total_supply
    Incomes,        \* fees offered to collect
    MaxIncome       \* bound on what is collected

ASSUME GovernanceAssumption ==
    /\ IsFiniteSet(Voters) /\ IsFiniteSet(Proposals)
    /\ Weights \subseteq Nat \ {0} /\ Incomes \subseteq Nat \ {0}
    /\ Supply \in Nat /\ MaxIncome \in Nat /\ FeePct \in Nat
    /\ FeeKey \in GovKeys
    /\ PayloadOf \in [Proposals -> [type : {"parameter", "treasury", "protocol", "slash", "custom"},
                                    valid : BOOLEAN, key : GovKeys, value : Nat]]
    /\ PostedTally \in [Proposals -> [{"yes", "no", "abstain"} -> Int]]
    \* A feature flag is kept under "feature_...", never under the key of the fee.
    /\ \A p \in Proposals : PayloadOf[p].type = "protocol" => PayloadOf[p].key # FeeKey

VARIABLES
    status,      \* status[p]: "draft" until submitted, then ProposalStatus
    over,        \* proposals whose voting period has ended
    votes,       \* votes[p][v]: the vote of v on p
    tally,       \* tally[p]: votes_yes, votes_no, votes_abstain
    parameters,  \* engine.parameters
    feePct,      \* treasury.tx_fee_pct
    funds,     \* treasury._balance
    income,      \* sum of treasury._income
    spends,      \* spends[p]: entries of treasury._spending for p
    pc, local    \* where each thread is, and its local variables

bankVars == <<funds, income, spends>>
govVars == <<status, over, votes, tally, parameters, feePct, bankVars, pc, local>>

Choices == {"yes", "no", "abstain"}
NoVote  == [choice |-> "none", weight |-> 0]
Vote    == [choice : Choices, weight : Weights] \cup {NoVote}
Status  == {"draft", "active", "passed", "rejected", "executed"}

TotalVotes(p) == tally[p]["yes"] + tally[p]["no"] + tally[p]["abstain"]

\* MIN_QUORUM_PCT and PASS_THRESHOLD_PCT
QuorumMet(p, supply) == supply > 0 /\ 10 * TotalVotes(p) >= supply
WouldPass(p, supply) ==
    LET active == tally[p]["yes"] + tally[p]["no"] IN
    QuorumMet(p, supply) /\ active > 0 /\ 100 * tally[p]["yes"] >= 51 * active

GovInit ==
    /\ status = [p \in Proposals |-> "draft"]
    /\ over = {}
    /\ votes = [p \in Proposals |-> [v \in Voters |-> NoVote]]
    /\ tally = PostedTally
    /\ parameters = [k \in GovKeys |-> IF k = FeeKey THEN FeePct ELSE 0]
    /\ feePct = FeePct
    /\ funds = 0 /\ income = 0
    /\ spends = [p \in Proposals |-> 0]
    /\ pc = [th \in GovThreads |-> "idle"]
    /\ local = [th \in GovThreads |-> <<>>]

Goto(th, from, to, loc) ==
    /\ pc[th] = from
    /\ pc' = [pc EXCEPT ![th] = to]
    /\ local' = [local EXCEPT ![th] = loc]

-----------------------------------------------------------------------------
(* submit, the clock, collect *)

\* The proposer's balance suffices; the tallies stay as they came.
Submit(th, p) ==
    /\ pc[th] = "idle"
    /\ status[p] = "draft"
    /\ status' = [status EXCEPT ![p] = "active"]
    /\ UNCHANGED <<over, votes, tally, parameters, feePct, bankVars, pc, local>>

\* time.time() passes voting_ends_at
EndVoting(p) ==
    /\ status[p] # "draft" /\ p \notin over
    /\ over' = over \cup {p}
    /\ UNCHANGED <<status, votes, tally, parameters, feePct, bankVars, pc, local>>

Collect(th, amount) ==
    /\ pc[th] = "idle"
    /\ income + amount <= MaxIncome
    /\ income' = income + amount
    /\ funds' = funds + amount
    /\ UNCHANGED <<status, over, votes, tally, parameters, feePct, spends, pc, local>>

-----------------------------------------------------------------------------
(* cast_vote *)

\* active and not expired
VoteCheck(th, p, v, vote) ==
    /\ status[p] = "active" /\ p \notin over
    /\ Goto(th, "idle", "revoke", [p |-> p, voter |-> v, vote |-> vote, old |-> votes[p][v]])
    /\ UNCHANGED <<status, over, votes, tally, parameters, feePct, bankVars>>

\* active and expired: _finalise(proposal), whose total_supply is 0 by default
VoteLate(th, p) ==
    /\ pc[th] = "idle"
    /\ status[p] = "active" /\ p \in over
    /\ status' = [status EXCEPT ![p] = IF WouldPass(p, 0) THEN "passed" ELSE "rejected"]
    /\ UNCHANGED <<over, votes, tally, parameters, feePct, bankVars, pc, local>>

\* _apply_weight of tallies t: w more for this choice
ApplyWeight(t, choice, w) ==
    IF choice \in Choices THEN [t EXCEPT ![choice] = @ + w] ELSE t

\* Mutant: the old vote stays in the tally.
VoteRevokeNothing(th) ==
    /\ Goto(th, "revoke", "record", local[th])
    /\ UNCHANGED <<status, over, votes, tally, parameters, feePct, bankVars>>

\* The vote found before is taken out of the tally.
VoteRevoke(th) ==
    LET call == local[th] IN
    /\ Goto(th, "revoke", "record", call)
    /\ tally' = [tally EXCEPT ![call.p] = ApplyWeight(@, call.old.choice, - call.old.weight)]
    /\ UNCHANGED <<status, over, votes, parameters, feePct, bankVars>>

VoteRecord(th) ==
    LET call == local[th] IN
    /\ Goto(th, "record", "apply", call)
    /\ votes' = [votes EXCEPT ![call.p][call.voter] = call.vote]
    /\ UNCHANGED <<status, over, tally, parameters, feePct, bankVars>>

VoteApply(th) ==
    LET call == local[th] IN
    /\ Goto(th, "apply", "idle", <<>>)
    /\ tally' = [tally EXCEPT ![call.p] = ApplyWeight(@, call.vote.choice, call.vote.weight)]
    /\ UNCHANGED <<status, over, votes, parameters, feePct, bankVars>>

-----------------------------------------------------------------------------
(* tally *)

\* Whether the voting period is over is not asked.
TallyCheck(th, p) ==
    /\ status[p] = "active"
    /\ Goto(th, "idle", "finalise", [p |-> p])
    /\ UNCHANGED <<status, over, votes, tally, parameters, feePct, bankVars>>

Finalise(th) ==
    LET p == local[th].p IN
    /\ Goto(th, "finalise", "idle", <<>>)
    /\ status' = [status EXCEPT ![p] = IF WouldPass(p, Supply) THEN "passed" ELSE "rejected"]
    /\ UNCHANGED <<over, votes, tally, parameters, feePct, bankVars>>

-----------------------------------------------------------------------------
(* execute *)

\* Where _execute_payload goes, by the type of the proposal.
FirstStep(type) ==
    CASE type \in {"parameter", "protocol"} -> "set"
      [] type = "treasury" -> "check"
      [] type = "custom" -> "mark"

\* passed, and the payload is valid (else the call returns and may be repeated).  A valid
\* slash ends in an AttributeError, since the engine has no self.chain: no effect either.
ExecuteCheck(th, p) ==
    /\ status[p] = "passed"
    /\ PayloadOf[p].valid /\ PayloadOf[p].type # "slash"
    /\ Goto(th, "idle", FirstStep(PayloadOf[p].type), [p |-> p])
    /\ UNCHANGED <<status, over, votes, tally, parameters, feePct, bankVars>>

SetParameter(th) ==
    LET load == PayloadOf[local[th].p] IN
    /\ Goto(th, "set", "rate", local[th])
    /\ parameters' = [parameters EXCEPT ![load.key] = load.value]
    /\ UNCHANGED <<status, over, votes, tally, feePct, bankVars>>

\* treasury.apply_parameter
ApplyParameter(th) ==
    LET load == PayloadOf[local[th].p] IN
    /\ Goto(th, "rate", "mark", local[th])
    /\ feePct' = IF load.type = "parameter" /\ load.key = FeeKey THEN load.value ELSE feePct
    /\ UNCHANGED <<status, over, votes, tally, parameters, bankVars>>

\* treasury.spend: a balance that does not suffice ends the call; it may be repeated.
SpendCheck(th) ==
    /\ pc[th] = "check"
    /\ IF PayloadOf[local[th].p].value <= funds
       THEN Goto(th, "check", "spend", local[th])
       ELSE Goto(th, "check", "idle", <<>>)
    /\ UNCHANGED <<status, over, votes, tally, parameters, feePct, bankVars>>

Spend(th) ==
    LET p == local[th].p IN
    /\ Goto(th, "spend", "mark", local[th])
    /\ spends' = [spends EXCEPT ![p] = @ + 1]
    /\ funds' = funds - PayloadOf[p].value
    /\ UNCHANGED <<status, over, votes, tally, parameters, feePct, income>>

\* Mutant: the proposal stays passed.
MarkNot(th) ==
    /\ Goto(th, "mark", "idle", <<>>)
    /\ UNCHANGED <<status, over, votes, tally, parameters, feePct, bankVars>>

MarkExecuted(th) ==
    /\ Goto(th, "mark", "idle", <<>>)
    /\ status' = [status EXCEPT ![local[th].p] = "executed"]
    /\ UNCHANGED <<over, votes, tally, parameters, feePct, bankVars>>

-----------------------------------------------------------------------------
Continue(th) ==
    \/ VoteRevoke(th) \/ VoteRecord(th) \/ VoteApply(th) \/ Finalise(th)
    \/ SetParameter(th) \/ ApplyParameter(th) \/ SpendCheck(th) \/ Spend(th)
    \/ MarkExecuted(th)

GovNext ==
    \/ \E p \in Proposals : EndVoting(p)
    \/ \E th \in GovThreads :
        \/ \E p \in Proposals : Submit(th, p) \/ VoteLate(th, p) \/ TallyCheck(th, p)
                                \/ ExecuteCheck(th, p)
        \/ \E p \in Proposals, v \in Voters, c \in Choices, w \in Weights :
               VoteCheck(th, p, v, [choice |-> c, weight |-> w])
        \/ \E amount \in Incomes : Collect(th, amount)
        \/ Continue(th)

GovSpec == GovInit /\ [][GovNext]_govVars

-----------------------------------------------------------------------------
(* Properties *)

Idle == \A th \in GovThreads : pc[th] = "idle"

WeightFor(p, c) ==
    SumFunction([v \in {u \in Voters : votes[p][u].choice = c} |-> votes[p][v].weight])

\* What _finalise has to decide by: the tallies of the body and the votes that stand.
Weighed(p, c) == PostedTally[p][c] + WeightFor(p, c)

Spent == SumFunction([p \in Proposals |-> spends[p] * PayloadOf[p].value])

GovTypeOK ==
    /\ status \in [Proposals -> Status]
    /\ over \subseteq Proposals
    /\ votes \in [Proposals -> [Voters -> Vote]]
    /\ tally \in [Proposals -> [Choices -> Int]]
    /\ parameters \in [GovKeys -> Nat] /\ feePct \in Nat
    /\ funds \in Int /\ income \in Nat
    /\ spends \in [Proposals -> Nat]

\* The running tally (cast_vote, _apply_weight) is what the proposal came with and the sum
\* of the votes that stand, however often voters change their choice and their balance.
TallyMatchesVotes ==
    Idle => \A p \in Proposals, c \in Choices : tally[p][c] = Weighed(p, c)

\* What passed had, and keeps, a quorum and a majority of what is weighed: cast_vote takes
\* no vote after _finalise.
PassedByMajority ==
    Idle => \A p \in Proposals : status[p] \in {"passed", "executed"} =>
        /\ 10 * (Weighed(p, "yes") + Weighed(p, "no") + Weighed(p, "abstain")) >= Supply
        /\ Weighed(p, "yes") > Weighed(p, "no")

\* execute may be repeated after a failure (treasury too poor), yet a proposal that is
\* executed was paid once, and one that is not was not paid.
PaidOnce ==
    Idle => \A p \in Proposals : PayloadOf[p].type = "treasury" =>
        spends[p] = IF status[p] = "executed" THEN 1 ELSE 0

\* treasury.py:5 "Spending requires a PASSED treasury proposal": a thread about to spend
\* does so for a proposal that is passed, and not for one that was executed meanwhile.
SpendingRequiresPassed ==
    \A th \in GovThreads : pc[th] = "spend" => status[local[th].p] = "passed"

\* treasury.spend: the treasury never pays what it does not have, and its balance is what
\* came in less what the log of spendings says (test_dao.py:125 test_spend_beyond_balance_rejected).
TreasuryCovered == funds >= 0 /\ funds = income - Spent

\* The fee rate the treasury applies is the one the engine publishes.
RatesAgree == Idle => feePct = parameters[FeeKey]

\* The decision follows the votes that stand and the tallies the proposal came with (the
\* votes alone when those are 0, as create makes them).
VotesDecide == GovTypeOK /\ TallyMatchesVotes /\ PassedByMajority

\* The treasury does what was decided: it pays once, pays what it has, and charges the
\* rate that the engine holds.
TreasuryKept == PaidOnce /\ TreasuryCovered /\ RatesAgree
=============================================================================
