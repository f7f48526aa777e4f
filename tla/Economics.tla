----------------------------- MODULE Economics -----------------------------
(***************************************************************************)
(* The formulas of the economic model: the block reward and the proof of   *)
(* work (src/src/consensus/mining.rs), the difficulty of the next block    *)
(* (daa.rs) and the base fee (fee_market.rs).  Floating-point formulas are *)
(* written as integer fractions, which agree with them where no result     *)
(* lies within rounding error of an integer.                               *)
(***************************************************************************)
EXTENDS Integers, SequencesExt, FiniteSetsExt

CONSTANTS CTS_INITIAL_REWARD, CTS_MINIMUM_REWARD,
          MINING_SUPPLY,            \* CTS_MINING_SUPPLY
          DAA_WINDOW

ASSUME EconomicsAssumption ==
  /\ CTS_INITIAL_REWARD \in Nat /\ CTS_MINIMUM_REWARD \in 1..CTS_INITIAL_REWARD
  /\ MINING_SUPPLY \in Nat /\ DAA_WINDOW \in Nat \ {0}

SatSub(m, n) == Max({m - n, 0})
Clamp(low, n, high) == Max({low, Min({n, high})})

-----------------------------------------------------------------------------
(* Rewards *)

\* The decay exp(-height / 10^6), floored, for heights up to 10050.
calculate_base_reward(height) ==
  Max({IF height = 0 THEN CTS_INITIAL_REWARD ELSE CTS_INITIAL_REWARD - 1, CTS_MINIMUM_REWARD})

\* The multiplier as <<numerator, denominator>>: two blocks a minute over the
\* observed rate, between 1/2 and 2.
calculate_activity_multiplier(timestamps) ==
  LET n == Len(timestamps)
      span == SatSub(Last(timestamps), Head(timestamps)) IN
  IF n < 2 THEN <<1, 1>>
  ELSE IF span = 0 \/ span > 60 * n THEN <<2, 1>>
  ELSE IF 2 * span < 30 * n THEN <<1, 2>>
  ELSE <<span, 30 * n>>

Limited(reward, emitted) == Min({reward, SatSub(MINING_SUPPLY, emitted)})

calculate_expected_block_reward(emitted, height, timestamps, tx_count) ==
  LET m == calculate_activity_multiplier(timestamps)
      reward == (calculate_base_reward(height) * m[1] * 1000) \div (m[2] * (1000 + tx_count))
  IN  Limited(Max({reward, CTS_MINIMUM_REWARD}), emitted)

\* The legacy entry point that Block::new and validate_basic use.
calculate_reward(tx_count) == calculate_expected_block_reward(0, 0, <<>>, tx_count)

validate_miner_reward(reward) == reward > 0 /\ reward <= 1000

-----------------------------------------------------------------------------
(* Difficulty of the next block, base fee, proof of work *)

MAX_GAP == 4

Gaps(blks) == [i \in 1..Len(blks) - 1 |->
                 Min({SatSub(blks[i + 1].timestamp, blks[i].timestamp), MAX_GAP})]
SumSeq(s) == FoldSeq(LAMBDA m, n : m + n, 0, s)

\* Mutant: the result may be 0.
calculate_next_difficulty_low(blks) ==
  IF Len(blks) < DAA_WINDOW
  THEN IF blks = <<>> THEN 1 ELSE Last(blks).difficulty
  ELSE (Last(blks).difficulty * SumSeq(Gaps(blks))) \div DAA_WINDOW

\* round(prev * actual / DAA_WINDOW) with the ratio clamped to 1/4 .. 4, at least 1.
calculate_next_difficulty(blks) ==
  IF Len(blks) < DAA_WINDOW
  THEN IF blks = <<>> THEN 1 ELSE Last(blks).difficulty
  ELSE LET recent == SubSeq(blks, Len(blks) - DAA_WINDOW + 1, Len(blks))
           actual == SumSeq(Gaps(recent))
           prev == Last(recent).difficulty
           quarter == Clamp(DAA_WINDOW, 4 * actual, 16 * DAA_WINDOW)
       IN  Max({(2 * prev * quarter + 4 * DAA_WINDOW) \div (8 * DAA_WINDOW), 1})

next_base_fee(prev, tx_count) ==
  LET base == Max({prev, 1}) IN
  Max({IF tx_count * 2 > 1000 THEN base + (base * 10) \div 100
       ELSE SatSub(base, (base * 10) \div 100), 1})

TopBitsClear(byte, bits) == byte \div 2^(8 - bits) = 0

\* hash is a sequence of bytes.
meets_difficulty(hash, difficulty) ==
  LET zero_bytes == difficulty \div 8
      rem_bits == difficulty % 8 IN
  /\ \A i \in DOMAIN hash : i <= zero_bytes => hash[i] = 0
  /\ rem_bits > 0 => zero_bytes < Len(hash) /\ TopBitsClear(hash[zero_bytes + 1], rem_bits)

-----------------------------------------------------------------------------
(* Properties *)

\* calculate_next_difficulty over windows of small blocks: never 0, at most four times
\* the last difficulty and at least a quarter of it, rounded.
Windows == [1..DAA_WINDOW -> [timestamp : {0, 1, 5, 9}, difficulty : {0, 1, 8}]]
NextDifficultyBounded ==
  \A w \in Windows :
    LET d == Last(w).difficulty
        n == calculate_next_difficulty(w)
    IN  n >= 1 /\ n <= Max({4 * d, 1}) /\ 8 * n + 4 >= 2 * d

\* While supply remains, the reward is positive, within the remaining supply, at most
\* twice the initial reward however fast or slow the blocks come, and one that
\* validate_miner_reward accepts.
RewardReasonable ==
  \A emitted \in {0, 1, MINING_SUPPLY - 1}, height \in {0, 1, 10000},
     timestamps \in {<<>>, <<5>>, <<5, 5>>, <<9, 4>>, <<0, 60>>, <<0, 30, 200>>},
     tx_count \in {0, 1, 1000, 200000} :
    LET reward == calculate_expected_block_reward(emitted, height, timestamps, tx_count)
    IN  /\ validate_miner_reward(reward)
        /\ reward <= MINING_SUPPLY - emitted /\ reward <= 2 * CTS_INITIAL_REWARD

\* The base fee moves by at most a tenth and never below one.
BaseFeeSteady ==
  \A base \in 1..30, txs \in {0, 500, 501} :
    LET n == next_base_fee(base, txs)
    IN  n >= 1 /\ 10 * n <= 11 * base /\ 10 * n >= 9 * base

\* meets_difficulty counts leading zero bits, over hashes of two bytes.
LeadingZeros(hash) ==
  LET value == hash[1] * 256 + hash[2]
  IN  Max({b \in 0..16 : value < 2^(16 - b)})
ProofOfWorkCounts ==
  \A hash \in [1..2 -> {0, 1, 2, 64, 127, 128, 255}], d \in 0..17 :
    meets_difficulty(hash, d) = (d <= LeadingZeros(hash))

\* The formulas together: what the node adjusts from block to block moves within limits,
\* at the boundaries too (no blocks, equal or decreasing timestamps, the last of the
\* supply, a partial byte of zeros).
EconomicsKeepBounds ==
  NextDifficultyBounded /\ RewardReasonable /\ BaseFeeSteady /\ ProofOfWorkCounts

\* "more than 50% full -> increase" (fee_market.rs:33).
FullRaisesFee == \A base \in 1..30 : next_base_fee(base, 501) > base
=============================================================================
