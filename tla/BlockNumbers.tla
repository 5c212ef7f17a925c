---------------------------- MODULE BlockNumbers ----------------------------
(***************************************************************************)
(* The block-number arithmetic of superwatcher: the three rules by which   *)
(* the emitter chooses the range of its next poll                          *)
(* (internal/emitter/blocknum_utils.go), the number the engine records     *)
(* after a poll (poll_result.go), and the uint64 subtraction and the int64 *)
(* sorted-set score that decide what the two trackers forget.              *)
(*                                                                         *)
(* Block numbers are natural numbers.  Only two subtractions of the code   *)
(* can wrap around; they go through Sub64, and what they feed is always a  *)
(* score.                                                                  *)
(***************************************************************************)
EXTENDS Integers

CONSTANT
    Half    \* half the number of machine words: 2^63 in the code

ASSUME HalfAssumption == Half \in Nat \ {0}

-----------------------------------------------------------------------------
(* Machine words *)

\* uint64 subtraction
Sub64(a, b) == IF a >= b THEN a - b ELSE 2 * Half + a - b

\* sortedset.SCORE(u): the conversion of a uint64 to an int64
Score(u) == IF u < Half THEN u ELSE u - 2 * Half

Min2(a, b) == IF a < b THEN a ELSE b

-----------------------------------------------------------------------------
(* The emitter's range rules: each yields [from, to] *)

\* Mutants of fromBlockToBlockNormal: no guard for a young chain; no look-back; no
\* forward range.
NormalUnguarded(startBlock, currentBlock, lastRecordedBlock, filterRange) ==
    [from |-> Min2(currentBlock, lastRecordedBlock + 1) - filterRange,
     to   |-> Min2(currentBlock, lastRecordedBlock + filterRange)]

NormalNoLookBack(startBlock, currentBlock, lastRecordedBlock, filterRange) ==
    [from |-> Min2(currentBlock, lastRecordedBlock + 1),
     to   |-> Min2(currentBlock, lastRecordedBlock + filterRange)]

NormalNoForward(startBlock, currentBlock, lastRecordedBlock, filterRange) ==
    LET firstNewBlock == Min2(currentBlock, lastRecordedBlock + 1)
    IN  [from |-> IF filterRange > firstNewBlock
                  THEN startBlock ELSE firstNewBlock - filterRange,
         to   |-> Min2(currentBlock, lastRecordedBlock)]

fromBlockToBlockNormal(startBlock, currentBlock, lastRecordedBlock, filterRange) ==
    LET firstNewBlock == Min2(currentBlock, lastRecordedBlock + 1)
    IN  [from |-> IF filterRange > firstNewBlock
                  THEN startBlock ELSE firstNewBlock - filterRange,
         to   |-> Min2(currentBlock, lastRecordedBlock + filterRange)]

\* The caller has checked that the retries are not used up.
fromBlockToBlockIsReorging(startBlock, currentBlock, filterRange, prevStatus) ==
    [from |-> IF filterRange > prevStatus.from
              THEN startBlock ELSE prevStatus.from - filterRange,
     to   |-> Min2(prevStatus.to, currentBlock)]

\* Mutant of fromBlockToBlockGoBackFirstRun: off by one.
GoBackOffByOne(startBlock, lastRecordedBlock, filterRange, prevStatus) ==
    LET from == lastRecordedBlock + 2
    IN  [from |-> from, to |-> from + filterRange - 1]

fromBlockToBlockGoBackFirstRun(startBlock, lastRecordedBlock, filterRange, prevStatus) ==
    LET goBack        == filterRange * prevStatus.retries
        firstNewBlock == lastRecordedBlock + 1
        from          == IF goBack > firstNewBlock
                         THEN startBlock ELSE firstNewBlock - goBack
    IN  [from |-> from, to |-> from + filterRange - 1]

=============================================================================
