--------------------------- MODULE EpochsAndPeriods ---------------------------
(***************************************************************************)
(* The timing rules every PNetworkHub follows: epochs, the challenge       *)
(* period of a queued operation, and the two windows at the end of an      *)
(* epoch in which the hub refuses work.  Times are offsets from            *)
(* startFirstEpochTimestamp.                                               *)
(***************************************************************************)
EXTENDS Integers

CONSTANTS
    BaseChallengePeriodDuration,  \* period of an operation alone in the queue
    KChallengePeriod,             \* weight of the queue length in the period
    MaxOperationsInQueue,
    ChallengeDuration,            \* time an actor has to solve a challenge
    EpochDuration,
    OneHour,                      \* the literal "1 hours" of the contract
    FiveDays                      \* the literal "5 days" of the contract

MaxUint16 == 65535

(***************************************************************************)
(* Constructor arithmetic: maxOperationsInQueue_ ** 2 * kChallengePeriod_  *)
(* is computed in uint16, so a deployed hub satisfies its bound; and       *)
(* challengeDuration_ > maxChallengePeriodDuration reverts.                *)
(***************************************************************************)
MaxChallengePeriodDuration ==
    BaseChallengePeriodDuration
      + MaxOperationsInQueue * MaxOperationsInQueue * KChallengePeriod
      - KChallengePeriod

ASSUME TimingAssumption ==
    /\ BaseChallengePeriodDuration \in Nat
    /\ KChallengePeriod \in Nat
    /\ MaxOperationsInQueue \in 1..MaxUint16
    /\ MaxOperationsInQueue * MaxOperationsInQueue * KChallengePeriod <= MaxUint16
    /\ ChallengeDuration \in 0..MaxChallengePeriodDuration
    /\ OneHour \in Nat
    /\ FiveDays \in Nat
    /\ EpochDuration \in Nat
    /\ EpochDuration > OneHour

-----------------------------------------------------------------------------

\* unchecked ++ and -- on a uint16 counter wrap around.
Uint16(x) == x % (MaxUint16 + 1)

\* EpochsManager.currentEpoch at time t.
EpochOf(t) == t \div EpochDuration

\* currentEpochEndTimestamp of epoch e.
EpochEnd(e) == (e + 1) * EpochDuration

\* getCurrentQueuedOperationsAdjustmentDuration with n operations in the queue.
ChallengePeriodDuration(n) ==
    IF n = 0
    THEN BaseChallengePeriodDuration
    ELSE BaseChallengePeriodDuration + n * n * KChallengePeriod - KChallengePeriod

\* Mistake: the window is sized for an operation alone in the queue.
MutInLockDownWindow(t) ==
    t + BaseChallengePeriodDuration >= EpochEnd(EpochOf(t)) - OneHour

\* The time half of isLockedDown: too late in the epoch for the longest period to run out.
InLockDownWindow(t) ==
    t + MaxChallengePeriodDuration >= EpochEnd(EpochOf(t)) - OneHour

\* Mistake: the hour left for the slash is not reserved.
MutNearToEpochEnd(t) ==
    t + ChallengeDuration > EpochEnd(EpochOf(t))

\* _checkNearEndOfEpochStartChallenge reverts.
NearToEpochEnd(t) ==
    t + ChallengeDuration > EpochEnd(EpochOf(t)) - OneHour

===============================================================================
