------------------------------ MODULE Economics ------------------------------
(***************************************************************************)
(* The schedule of rewards and the retargeting of the difficulty           *)
(* (border/blockchain/economics.py and its two callers in chain.py), over  *)
(* the timestamps and difficulties of one chain.  Rewards are in satoshis, *)
(* times in seconds.  A timestamp is the clock of whoever mined the block  *)
(* and no check compares it with the one before, so time may stand still   *)
(* or go backwards from block to block.                                    *)
(***************************************************************************)
EXTENDS Integers, SequencesExt

CONSTANTS
    InitialReward, HalvingInterval, MaxRewards,   \* MaxRewards: MAX_SUPPLY
    Interval,                   \* DIFFICULTY_ADJUSTMENT_INTERVAL
    TargetTime,                 \* TARGET_BLOCK_TIME
    MinDifficulty, MaxDifficulty, Clamp,
    BlockTimes,                 \* seconds that may pass between the timestamps of two blocks
    MaxHeight                   \* bound: the height of the chain

ASSUME EconomicsAssumption ==
    /\ {InitialReward, HalvingInterval, MaxRewards, Interval, TargetTime, Clamp} \subseteq Nat \ {0}
    /\ MinDifficulty \in Nat \ {0} /\ MaxDifficulty \in Nat /\ MinDifficulty <= MaxDifficulty
    /\ BlockTimes \subseteq Int /\ MaxHeight \in Nat

VARIABLE ecoChain   \* the timestamp and the difficulty of every block

ecoVars == <<ecoChain>>

(* --------------------------------- rewards ------------------------------- *)

\* round(x / y) to a satoshi; half a satoshi goes to the even neighbour.
RoundedQuotient(x, y) ==
    LET q == x \div y
        r == 2 * (x % y)
    IN  IF r > y \/ (r = y /\ q % 2 = 1) THEN q + 1 ELSE q

\* block_reward: halved in every era, and nothing below one satoshi.
RewardAt(height) ==
    LET halvings == height \div HalvingInterval
    IN  IF halvings >= 64 \/ InitialReward < 2 ^ halvings THEN 0
        ELSE RoundedQuotient(InitialReward, 2 ^ halvings)

\* One round of the loop of cumulative_supply: an era, and half the reward for the next.
EraPaid(s) ==
    LET blocks == Min({HalvingInterval, s.remaining})
    IN  IF s.remaining = 0 \/ s.reward = 0 THEN s
        ELSE [total |-> s.total + blocks * s.reward, reward |-> RoundedQuotient(s.reward, 2),
              remaining |-> s.remaining - blocks]

\* cumulative_supply: there are no more rounds than blocks.
CumulativeSupply(height) ==
    LET after[rounds \in 0..height + 1] ==
            IF rounds = 0 THEN [total |-> 0, reward |-> InitialReward, remaining |-> height + 1]
            ELSE EraPaid(after[rounds - 1])
    IN  Min({after[height + 1].total, MaxRewards})

(* ------------------------------- difficulty ------------------------------ *)

\* calculate_next_difficulty
CalculateNextDifficulty(current, start, end) ==
    LET expected == Interval * TargetTime
        actual == Min({Max({1, end - start, expected \div Clamp}), expected * Clamp})
    IN  Max({MinDifficulty, Min({MaxDifficulty, (current * actual) \div expected})})

\* The block with this index; the genesis block has index 0.
BlockAtHeight(c, i) == c[i + 1]

\* Mutant: the window starts one block late.
ComputeNextDifficultyLate(c) ==
    LET next == Len(c) IN
    IF next % Interval # 0 THEN Last(c).difficulty
    ELSE CalculateNextDifficulty(Last(c).difficulty, BlockAtHeight(c, next - Interval + 1).time, Last(c).time)

\* _compute_next_difficulty, for create_block and _validate_block
ComputeNextDifficulty(c) ==
    LET next == Len(c) IN
    IF next % Interval # 0 THEN Last(c).difficulty
    ELSE CalculateNextDifficulty(Last(c).difficulty, BlockAtHeight(c, next - Interval).time, Last(c).time)

\* The difficulty checks of validate_chain, which runs over a chain that a peer sent.
ValidateDifficulties(c) ==
    \A i \in 1..Len(c) - 1 :
        LET prev == BlockAtHeight(c, i - 1)
        IN  BlockAtHeight(c, i).difficulty =
                IF i % Interval = 0
                THEN CalculateNextDifficulty(prev.difficulty, BlockAtHeight(c, i - Interval).time, prev.time)
                ELSE prev.difficulty

EcoInit == ecoChain = <<[time |-> 0, difficulty |-> MinDifficulty]>>

\* A block is mined, dt seconds after the last one by its miner's clock.
MineBlock(dt) ==
    /\ Len(ecoChain) <= MaxHeight
    /\ ecoChain' = Append(ecoChain, [time |-> Last(ecoChain).time + dt,
                                     difficulty |-> ComputeNextDifficulty(ecoChain)])

EcoNext == \E dt \in BlockTimes : MineBlock(dt)

EcoSpec == EcoInit /\ [][EcoNext]_ecoVars

(* ------------------------------- properties ------------------------------ *)

\* The difficulty stays between its floor and its ceiling, whatever the
\* timestamps are (economics.py:181-184).
EcoTypeOK ==
    \A i \in DOMAIN ecoChain : /\ ecoChain[i].time \in Int
                               /\ ecoChain[i].difficulty \in MinDifficulty..MaxDifficulty

\* A chain that was mined block by block passes the validation that a peer
\* runs over it as a whole: the two places that retarget (chain.py:77-104 and
\* 313-324) agree on the window.
MinedChainValidates == ValidateDifficulties(ecoChain)

\* The rewards of the blocks up to a height.
RewardsThrough[h \in 0..MaxHeight] == RewardAt(h) + (IF h = 0 THEN 0 ELSE RewardsThrough[h - 1])

\* cumulative_supply is the sum of the block rewards, as long as the rewards
\* are whole numbers of satoshis (economics.py:84-122).
SupplyIsSumOfRewards ==
    LET height == Len(ecoChain) - 1 IN CumulativeSupply(height) = RewardsThrough[height]

\* When they are: the eras of the chain halve the first reward without a remainder, and the
\* cap is not below the limit of the series.  50 BC are whole for ten eras of 210,000 blocks,
\* and MAX_SUPPLY is that limit (economics.py:45-47).
WholeRewards ==
    LET eras == MaxHeight \div HalvingInterval
    IN  /\ eras < 64 /\ \A e \in 0..eras : InitialReward % (2 ^ e) = 0
        /\ 2 * HalvingInterval * InitialReward <= MaxRewards

\* The schedule means the same to everyone who computes it: miner, validator, statistics.
ScheduleConsistent == EcoTypeOK /\ MinedChainValidates /\ SupplyIsSumOfRewards
=============================================================================
