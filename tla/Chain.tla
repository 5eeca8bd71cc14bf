-------------------------------- MODULE Chain --------------------------------
(***************************************************************************)
(* The context-free rules of internal/chain: what a block must satisfy     *)
(* with respect to its parent (block.go) and the difficulty the block      *)
(* after a given tip must carry (params.go).                               *)
(*                                                                         *)
(* A block is a record [height, prev, time, difficulty, miner, txs,        *)
(* merkleOk, powOk].  merkleOk says that the Merkle root of the txs is the *)
(* one in the header, powOk that the header's hash is below the target of  *)
(* the block's difficulty: both are functions of the block alone.          *)
(***************************************************************************)
EXTENDS Ledger

CONSTANTS BlocksPerRetarget,  \* blocks between retargets; 0 turns them off
          TargetBlockTime,    \* target interval between blocks
          MaxTxsPerBlock,
          MaxFutureTime       \* how far ahead of the clock a block may be

ASSUME ChainAssumption ==
    /\ BlocksPerRetarget \in Nat
    /\ TargetBlockTime \in Nat
    /\ MaxTxsPerBlock \in Nat \ {0}
    /\ MaxFutureTime \in Nat

\* At a retarget height the difficulty is scaled by expected/actual, clamped
\* to [1/4, 4], to at least 1 and to the integer width.
Retarget(difficulty, actual) ==
    LET expected == IF TargetBlockTime * BlocksPerRetarget <= 0
                    THEN 1 ELSE TargetBlockTime * BlocksPerRetarget
        scaled == CASE actual <= 0 \/ actual * 4 < expected -> difficulty * 4
                    [] actual > 4 * expected -> difficulty \div 4
                    [] OTHER -> (difficulty * expected) \div actual
    IN  CASE scaled <= 0 -> 1
          [] scaled > MaxUint64 -> MaxUint64
          [] OTHER -> scaled

\* Whether the block after a tip of this height is at a retarget boundary.
AtRetarget(height) ==
    /\ BlocksPerRetarget # 0
    /\ height + 1 >= BlocksPerRetarget
    /\ (height + 1) % BlocksPerRetarget = 0

\* anchors is the set of blocks handed over as anchor: a singleton, or empty
\* for nil.
NextDifficulty(tip, anchors) ==
    IF AtRetarget(tip.height) /\ anchors # {}
    THEN Retarget(tip.difficulty,
                  tip.time - (CHOOSE a \in anchors : TRUE).time)
    ELSE tip.difficulty

\* prev = parent.Hash() holds by the caller's lookup of the parent by hash.
ValidateBasic(b, parent, now) ==
    /\ b.height = parent.height + 1
    /\ b.time > parent.time
    /\ b.time <= now + MaxFutureTime
    /\ b.txs # << >> /\ IsCoinbase(b.txs[1])
    /\ Len(b.txs) <= MaxTxsPerBlock
    /\ \A i \in 2 .. Len(b.txs) : ~IsCoinbase(b.txs[i])
    /\ b.miner \in Address
    /\ b.merkleOk

ValidatePoW(b) == b.difficulty # 0 /\ b.powOk
=============================================================================
