------------------------------- MODULE Mining -------------------------------
(***************************************************************************)
(* Difficulty control and mining: DifficultyState and MiningManager        *)
(* (src/src/consensus/mining.rs) and mine_block of                         *)
(* src/src/block/block_producer.rs, which reads the emission counter,      *)
(* searches a nonce and then adds to the counter.  u64 subtraction wraps,  *)
(* as in release builds.                                                   *)
(***************************************************************************)
EXTENDS Economics

CONSTANTS target_block_interval, adjustment_window, min_difficulty, max_difficulty,
          U64_MAX,
          Times,                    \* block timestamps and clock readings in use
          Miners,                   \* threads that call mine_block
          MaxMined                  \* bound: blocks mined or recorded

ASSUME MiningAssumption ==
  /\ U64_MAX \in Nat /\ Times \subseteq 0..U64_MAX /\ MaxMined \in Nat
  /\ adjustment_window \in Nat \ {0} /\ target_block_interval \in Nat
  /\ min_difficulty \in Nat \ {0} /\ max_difficulty \in Nat /\ min_difficulty <= max_difficulty

WrapSub(m, n) == (m - n) % (U64_MAX + 1)
NotMining == -1

-----------------------------------------------------------------------------
(* DifficultyState and MiningManager *)

VARIABLES owner,             \* who has the DifficultyState: a MiningManager or a BlockProducer
          current_difficulty, timestamps, last_adjustment,
          recent_blocks,     \* timestamps of the recorded blocks
          average,           \* average_block_time times the number of gaps
          emission,          \* the emission counter of the state manager
          miner,             \* miner -> the reward of the block it is mining, or NotMining
          paid,              \* ghost: the rewards of all mined blocks
          mined

mvars == <<owner, current_difficulty, timestamps, last_adjustment, recent_blocks, average,
           emission, miner, paid, mined>>

\* cur * (1 + (expected / actual - 1) / 4), floored.
Adjusted(cur, actual, expected) == (cur * (3 * actual + expected)) \div (4 * actual)

\* A change of at most one per cent is dropped.
Meaningful(new, old) == 100 * new < 99 * old \/ 100 * new > 101 * old

adjust_difficulty(ts, now) ==
  LET actual == WrapSub(Last(ts), Head(ts))
      expected == target_block_interval * (adjustment_window - 1)
      new == Clamp(min_difficulty, Adjusted(current_difficulty, actual, expected), max_difficulty)
  IN  IF Len(ts) >= 2 /\ now # last_adjustment /\ actual # 0
         /\ Meaningful(new, current_difficulty)
      THEN current_difficulty' = new /\ last_adjustment' = now
      ELSE UNCHANGED <<current_difficulty, last_adjustment>>

add_block(ts, now) ==
  LET window == SubSeq(Append(timestamps, ts),
                       Max({1, Len(timestamps) + 2 - adjustment_window}), Len(timestamps) + 1)
  IN  /\ timestamps' = window
      /\ IF Len(window) >= adjustment_window THEN adjust_difficulty(window, now)
         ELSE UNCHANGED <<current_difficulty, last_adjustment>>

\* The differences are taken the wrong way round, each and their sum modulo 2^64.
TotalTime(s) ==
  SumSeq([i \in 1..Len(s) - 1 |-> WrapSub(s[i], s[i + 1])]) % (U64_MAX + 1)

record_block(ts, now) ==
  /\ owner = "manager"
  /\ mined < MaxMined /\ mined' = mined + 1
  /\ add_block(ts, now)
  /\ recent_blocks' = Append(recent_blocks, ts)
  /\ average' = IF recent_blocks = <<>> THEN average ELSE TotalTime(recent_blocks')
  /\ UNCHANGED <<owner, emission, miner, paid>>

Intervals(ts) == {WrapSub(ts[i + 1], ts[i]) : i \in 1..Len(ts) - 1}

detect_oscillation ==
  /\ Len(timestamps) >= adjustment_window
  /\ Intervals(timestamps) # {}
  /\ Max(Intervals(timestamps)) > (Min(Intervals(timestamps)) * 10) % (U64_MAX + 1)

\* The deviation of the average is more than half of the target.
UnusualBlockTimes ==
  LET gaps == Len(recent_blocks) - 1
      target == gaps * target_block_interval
      off == Max({average - target, target - average})
  IN  average > 0 /\ 2 * off > target

detect_attacks == detect_oscillation \/ UnusualBlockTimes

-----------------------------------------------------------------------------
(* BlockProducer::mine_block: the template, the search, the bookkeeping *)

\* create_block reads the emission counter for the coinbase.
create_template(m) ==
  /\ owner = "producer" /\ miner[m] = NotMining
  /\ mined < MaxMined /\ mined' = mined + 1
  /\ miner' = [miner EXCEPT ![m] = calculate_expected_block_reward(emission, 0, <<>>, 0)]
  /\ UNCHANGED <<owner, current_difficulty, timestamps, last_adjustment, recent_blocks,
                 average, emission, paid>>

\* Mutant: the emission is not recorded.
found_nonce_uncounted(m, ts, now) ==
  /\ miner[m] # NotMining
  /\ add_block(ts, now)
  /\ paid' = paid + miner[m]
  /\ miner' = [miner EXCEPT ![m] = NotMining]
  /\ UNCHANGED <<owner, recent_blocks, average, emission, mined>>

\* A nonce is found; add_emitted_supply stops at the mining supply.
found_nonce(m, ts, now) ==
  /\ miner[m] # NotMining
  /\ add_block(ts, now)
  /\ emission' = Min({emission + miner[m], MINING_SUPPLY})
  /\ paid' = paid + miner[m]
  /\ miner' = [miner EXCEPT ![m] = NotMining]
  /\ UNCHANGED <<owner, recent_blocks, average, mined>>

MInit ==
  /\ owner \in {"manager", "producer"}
  /\ current_difficulty = 1 /\ timestamps = <<>> /\ last_adjustment \in Times
  /\ recent_blocks = <<>> /\ average = 0
  /\ emission = 0 /\ miner = [m \in Miners |-> NotMining] /\ paid = 0 /\ mined = 0

MNext ==
  \/ \E ts, now \in Times : record_block(ts, now)
  \/ \E m \in Miners : create_template(m)
  \/ \E m \in Miners : \E ts, now \in Times : found_nonce(m, ts, now)

MSpec == MInit /\ [][MNext]_mvars

-----------------------------------------------------------------------------
(* Properties *)

\* "Prevent exceeding remaining mining supply" (mining.rs:94): all rewards together
\* stay within the mining supply.  True of one miner at a time, whose reading of the
\* counter is still right when the nonce is found, and refuted for two.
RewardsWithinSupply == paid <= MINING_SUPPLY

\* "Clamp to min/max bounds" and damping: no adjustment, whatever the timestamps,
\* takes away more than a quarter of the difficulty or leaves the bounds.
DampedStep ==
  [][/\ current_difficulty' \in min_difficulty..max_difficulty
     /\ 4 * (current_difficulty' + 1) > 3 * current_difficulty]_mvars

\* "Update average block time" (mining.rs:323): of blocks in order of time the total is
\* the time from the first to the last.
InOrder(s) == \A i \in 1..Len(s) - 1 : s[i] <= s[i + 1]
AverageIsRight ==
  (Len(recent_blocks) >= 2 /\ InOrder(recent_blocks)) =>
    average = Last(recent_blocks) - Head(recent_blocks)

\* "Check for unusual block times" (mining.rs:361): blocks that keep exactly to the
\* target interval raise no alarm.
SteadyIsQuiet ==
  (\A i \in 1..Len(recent_blocks) - 1 :
     recent_blocks[i + 1] = recent_blocks[i] + target_block_interval) => ~detect_attacks
=============================================================================
