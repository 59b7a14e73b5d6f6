----------------------------- MODULE StreamMath -----------------------------
(***************************************************************************)
(* What a stream owes, computed from a snapshot: the functions of          *)
(* src/utils.ts and the copies that src/streams.ts exports.  Times are     *)
(* seconds of the local clock, amounts stroops.  The ledger moves the      *)
(* stream: it pauses it at a time of its own, which may lie ahead of the   *)
(* local clock, and cancels it.                                            *)
(***************************************************************************)
EXTENDS Integers

CONSTANTS
    MaxRate, MaxTime        \* bounds: ratePerSecond, the local clock

ASSUME MathAssumption == MaxRate \in Nat /\ MaxTime \in Nat

Time == 0 .. MaxTime

StreamInfo == [ratePerSecond : Int, startTime : Int, endTime : Int, withdrawn : Int,
               paused : BOOLEAN, pausedAt : Int, cancelled : BOOLEAN]

VARIABLES stream, mathClock

mathVars == <<stream, mathClock>>

\* An end of 0 is an open end.
EndClamped(s, t) == IF s.endTime > 0 /\ t > s.endTime THEN s.endTime ELSE t

EffectiveNow(s, t) ==
    LET clamped == EndClamped(s, t)
    IN  IF s.paused /\ s.pausedAt < clamped THEN s.pausedAt ELSE clamped

AtLeastZero(n) == IF n > 0 THEN n ELSE 0

Elapsed(s, t) == AtLeastZero(EffectiveNow(s, t) - s.startTime)

\* A mistake for the runs to notice: the clamp to the end skipped while paused.
WithdrawableUnclamped(s, t) ==
    IF s.cancelled THEN 0
    ELSE LET upTo == IF s.paused THEN s.pausedAt ELSE EndClamped(s, t)
         IN  AtLeastZero(s.ratePerSecond * AtLeastZero(upTo - s.startTime) - s.withdrawn)

WithdrawableLocal(s, t) ==
    IF s.cancelled THEN 0
    ELSE AtLeastZero(s.ratePerSecond * Elapsed(s, t) - s.withdrawn)

CalculateWithdrawableAmount(s, t) ==
    IF s.cancelled \/ EffectiveNow(s, t) < s.startTime THEN 0
    ELSE AtLeastZero(s.ratePerSecond * (EffectiveNow(s, t) - s.startTime) - s.withdrawn)

StreamedTotalLocal(s, t) ==
    IF s.cancelled THEN s.withdrawn ELSE s.ratePerSecond * Elapsed(s, t)

\* What has accrued whether or not the stream is paused.
CalculateAccruedAmount(s, t) ==
    IF t < s.startTime \/ s.cancelled THEN 0
    ELSE s.ratePerSecond * AtLeastZero(EndClamped(s, t) - s.startTime)

\* calculateVestedPercentage(), as seconds of the whole term.
VestedSeconds(s, t) ==
    LET whole == s.endTime - s.startTime
    IN  IF s.cancelled \/ s.endTime <= 0 \/ whole <= 0 THEN 0
        ELSE IF Elapsed(s, t) > whole THEN whole ELSE Elapsed(s, t)

RemainingTime(s, t) == IF s.endTime = 0 \/ t >= s.endTime THEN 0 ELSE s.endTime - t

StreamStatus(s, t) ==
    IF s.cancelled THEN "cancelled"
    ELSE IF s.endTime # 0 /\ t >= s.endTime THEN "completed"
    ELSE IF s.paused THEN "paused" ELSE "active"

\* The recipient may cancel a stream that has been paused for long enough.
IsStreamCancellableBy(s, who, threshold, t) ==
    ~s.cancelled /\ (who = "sender" \/ (who = "recipient" /\ s.paused /\ t - s.pausedAt >= threshold))

SimulateWithdraw(s, amount, t) ==
    LET withdrawable == CalculateWithdrawableAmount(s, t)
    IN  [withdrawAmount |-> IF amount > withdrawable THEN withdrawable ELSE amount,
         remaining |-> withdrawable - (IF amount > withdrawable THEN withdrawable ELSE amount),
         exceeds |-> amount > withdrawable]

MathInit ==
    /\ mathClock = 0
    /\ \E rate \in 1 .. MaxRate, start \in {0, 1}, end \in {0} \cup 2 .. MaxTime - 1 :
          stream = [ratePerSecond |-> rate, startTime |-> start, endTime |-> end, withdrawn |-> 0,
                    paused |-> FALSE, pausedAt |-> 0, cancelled |-> FALSE]

MathTick == mathClock < MaxTime /\ mathClock' = mathClock + 1 /\ UNCHANGED stream

\* A withdrawal of what simulateWithdraw() says can be had.
WithdrawSome(amount) ==
    /\ SimulateWithdraw(stream, amount, mathClock).withdrawAmount > 0
    /\ stream' = [stream EXCEPT
                    !.withdrawn = @ + SimulateWithdraw(stream, amount, mathClock).withdrawAmount]
    /\ UNCHANGED mathClock

PausedOnLedger ==
    /\ ~stream.paused /\ ~stream.cancelled
    /\ \E ahead \in {0, 1} :
          stream' = [stream EXCEPT !.paused = TRUE, !.pausedAt = mathClock + ahead]
    /\ UNCHANGED mathClock

CancelledOnLedger ==
    /\ ~stream.cancelled
    /\ stream' = [stream EXCEPT !.cancelled = TRUE]
    /\ UNCHANGED mathClock

MathNext ==
    \/ MathTick
    \/ \E amount \in 1 .. MaxRate + 1 : WithdrawSome(amount)
    \/ PausedOnLedger \/ CancelledOnLedger

MathSpec == MathInit /\ [][MathNext]_mathVars

-----------------------------------------------------------------------------
(* What the functions tell of a stream at a time.                          *)

\* Both copies of the formula agree, and what was taken and what can still be
\* taken are what has been streamed.
TotalsAgree(s, t) ==
    /\ CalculateWithdrawableAmount(s, t) = WithdrawableLocal(s, t)
    /\ s.withdrawn + WithdrawableLocal(s, t) = StreamedTotalLocal(s, t)

\* A closed term pays for its seconds at most, whatever the clock and the pauses.
WithinTerm(s, t) ==
    ~s.cancelled =>
       /\ s.endTime > 0 => StreamedTotalLocal(s, t) <= s.ratePerSecond * (s.endTime - s.startTime)
       /\ s.endTime > 0 => s.ratePerSecond * VestedSeconds(s, t) = StreamedTotalLocal(s, t)
       /\ StreamedTotalLocal(s, t) <= CalculateAccruedAmount(s, t)
       /\ ~s.paused => StreamedTotalLocal(s, t) = CalculateAccruedAmount(s, t)

\* What is over or frozen streams no more.
FrozenWhenOver(s, t) ==
    \/ StreamStatus(s, t) # "completed" /\ ~IsStreamCancellableBy(s, "recipient", 0, t)
    \/ StreamedTotalLocal(s, t + 1) = StreamedTotalLocal(s, t) /\ (~s.paused => RemainingTime(s, t) = 0)

\* In whatever order withdrawals, pauses, a cancellation and the end come.
PayoutExact ==
    /\ TotalsAgree(stream, mathClock)
    /\ WithinTerm(stream, mathClock)
    /\ FrozenWhenOver(stream, mathClock)
=============================================================================
