------------------------------ MODULE Amounts -------------------------------
(***************************************************************************)
(* What an amount becomes between the text a user enters, the integer the  *)
(* contract keeps, and the text that is shown (utils.ts, soroban.ts), and  *)
(* the same for durations.  A decimal text is its whole part, its digits   *)
(* after the point read as a number, and how many they are; arithmetic is  *)
(* BigInt's, so exact.  Each conversion is compared with what it means.    *)
(***************************************************************************)
EXTENDS Integers, Sequences

CONSTANTS
    MaxWhole,      \* largest whole part entered
    MaxPlaces,     \* most digits entered after the point
    MaxDecimals,   \* most decimals of a token
    MaxDuration,   \* largest number of units in a duration
    Width          \* bits of half an i128

ASSUME AmountAssumption ==
    /\ {MaxWhole, MaxPlaces} \subseteq Nat /\ Width \in Nat \ {0}
    \* pow10() takes the larger powers from a double, which is exact up to 10^22;
    /\ MaxDecimals \in 0 .. 22
    \* and the seconds of two parts of a duration are a number below 2^53.
    /\ MaxDuration \in 1 .. 2 ^ 30

VARIABLES
    entered,    \* the amount entered, a decimal text
    decimals,   \* decimals of the token
    stroops,    \* toStroops() of it, or none
    printed,    \* fromStroops() of that
    duration,   \* the parts of a duration entered, <<number, unit>>
    blanks,     \* blanks between the number and the unit of a part
    strays,     \* characters that belong to no part
    seconds,    \* parseDuration() of it, or none
    halves      \* an i128 as the ledger sends it: high and low half

amountVars == <<entered, decimals, stroops, printed, duration, blanks, strays, seconds, halves>>

None0 == -1

\* b ^ n, by its own recursion.
Power(b, n) ==
    LET power[k \in 0 .. n] == IF k = 0 THEN 1 ELSE b * power[k - 1]
    IN  power[n]

Pow10(n) == Power(10, n)

Decimal(w, f, k) == [whole |-> w, frac |-> f, places |-> k]
Texts == UNION {{Decimal(w, f, k) : w \in 0 .. MaxWhole, f \in 0 .. Pow10(k) - 1} : k \in 0 .. MaxPlaces}

UnitSeconds == [d |-> 86400, h |-> 3600, m |-> 60, s |-> 1]
Part == {<<n, u>> : n \in {0, 1, MaxDuration}, u \in DOMAIN UnitSeconds}
DurationTexts == {<<p>> : p \in Part} \cup (Part \X Part)

AmountInit ==
    \* An amount or a duration, whatever the other would be.
    /\ \/ /\ entered \in Texts /\ decimals \in 0 .. MaxDecimals
          /\ duration = <<>> /\ blanks = 0 /\ strays = 0
       \/ /\ entered = Decimal(0, 0, 0) /\ decimals = 0
          /\ duration \in DurationTexts /\ blanks \in 0 .. 1 /\ strays \in 0 .. 1
    /\ stroops = None0 /\ printed = Decimal(0, 0, 0) /\ seconds = None0
    /\ halves = <<-Power(2, Width - 1), 0>>

-----------------------------------------------------------------------------
\* A mistake for the runs to notice: the digits the token has no room for go.
ToStroopsCut(a, d) ==
    a.whole * Pow10(d) + IF a.places <= d THEN a.frac * Pow10(d - a.places)
                         ELSE a.frac \div Pow10(a.places - d)

\* One digit more than the token has is kept, and rounds the last one.
ToStroops(a, d) ==
    LET kept == IF a.places >= d + 1 THEN a.frac \div Pow10(a.places - (d + 1))
                ELSE a.frac * Pow10(d + 1 - a.places)
        last == kept % 10
    IN  a.whole * Pow10(d) + kept \div 10 + IF last >= 5 THEN 1 ELSE 0

\* Zeros at the end go, except for the digit right after the point.
Trimmed(frac, places) ==
    LET end == CHOOSE p \in 1 .. places :
                   /\ frac % Pow10(places - p) = 0
                   /\ p > 1 => frac % Pow10(places - p + 1) # 0
    IN  [frac |-> frac \div Pow10(places - end), places |-> end]

FromStroops(n, d) ==
    LET size == IF n < 0 THEN -n ELSE n
        t == Trimmed(size % Pow10(d), IF d = 0 THEN 1 ELSE d)
    IN  Decimal(size \div Pow10(d), t.frac, t.places)

CalculateRate(n, secs) ==
    LET quotient == n \div secs
        remainder == n - quotient * secs
    IN  IF remainder * 2 >= secs THEN quotient + 1 ELSE quotient

FormatTokenAmount(n, d, shownPlaces) ==
    LET factor == Pow10(d)
        room == Pow10(shownPlaces)
        whole == n \div factor
        rem == n % factor
        scaled == (rem * room + factor \div 2) \div factor
    IN  CASE shownPlaces = 0 -> Decimal(IF rem * 2 >= factor THEN whole + 1 ELSE whole, 0, 0)
          [] shownPlaces > 0 /\ scaled >= room -> Decimal(whole + 1, 0, shownPlaces)
          [] OTHER -> Decimal(whole, scaled, shownPlaces)

\* Parts may come in any order and repeat; they add up.
SumOfParts(parts) ==
    LET sum[i \in 0 .. Len(parts)] ==
            IF i = 0 THEN 0 ELSE sum[i - 1] + parts[i][1] * UnitSeconds[parts[i][2]]
    IN  sum[Len(parts)]

\* What the parts matched, blanks included, is held against the text without blanks.
ParseDuration(parts, blank, stray) ==
    IF parts # <<>> /\ blank = stray THEN SumOfParts(parts) ELSE None0

\* The largest unit and the next smaller one; what is below is left out.
FormatDuration(secs) ==
    LET two(big, small) ==
            LET rest == (secs % UnitSeconds[big]) \div UnitSeconds[small]
            IN  <<<<secs \div UnitSeconds[big], big>>>> \o IF rest > 0 THEN <<<<rest, small>>>> ELSE <<>>
    IN  CASE secs < 60 -> <<<<secs, "s">>>>
          [] secs >= 60 /\ secs < 3600 -> two("m", "s")
          [] secs >= 3600 /\ secs < 86400 -> two("h", "m")
          [] OTHER -> two("d", "h")

ScValToI128(h) == h[1] * Power(2, Width) + h[2]

-----------------------------------------------------------------------------
Convert ==
    /\ stroops = None0
    /\ stroops' = ToStroops(entered, decimals)
    /\ UNCHANGED <<entered, decimals, printed, duration, blanks, strays, seconds, halves>>

Show ==
    /\ stroops # None0
    /\ printed' = FromStroops(stroops, decimals)
    /\ UNCHANGED <<entered, decimals, stroops, duration, blanks, strays, seconds, halves>>

ReadDuration ==
    /\ seconds = None0
    /\ seconds' = ParseDuration(duration, blanks, strays)
    /\ UNCHANGED <<entered, decimals, stroops, printed, duration, blanks, strays, halves>>

\* A sum the ledger counts up, across the boundary between the two halves.
LedgerCounts ==
    /\ halves[1] < Power(2, Width - 1) - 1 \/ halves[2] < Power(2, Width) - 1
    /\ halves' = IF halves[2] = Power(2, Width) - 1 THEN <<halves[1] + 1, 0>> ELSE <<halves[1], halves[2] + 1>>
    /\ UNCHANGED <<entered, decimals, stroops, printed, duration, blanks, strays, seconds>>

AmountNext == Convert \/ Show \/ ReadDuration \/ LedgerCounts

AmountSpec == AmountInit /\ [][AmountNext]_amountVars

-----------------------------------------------------------------------------
\* x is y / z, rounded to the nearest integer, a half up.
Nearest(x, y, z) == 2 * y - z < 2 * x * z /\ 2 * x * z <= 2 * y + z

\* The text as an integer over a power of ten.
Numerator(a) == a.whole * Pow10(a.places) + a.frac

(* toStroops() (utils.ts:24) rounds what was entered to the nearest unit   *)
(* of the token, half up, for every number of digits and decimals; what    *)
(* fromStroops() prints reads back as the same amount; calculateRate()     *)
(* and formatTokenAmount() round the same way, the carry into the whole    *)
(* part included; formatDuration() loses less than its second unit; and    *)
(* the two halves of an i128 make one signed number.                       *)
AmountsExact ==
    /\ stroops # None0 =>
        /\ Nearest(stroops, Numerator(entered) * Pow10(decimals), Pow10(entered.places))
        /\ \A secs \in 1 .. 3 : Nearest(CalculateRate(stroops, secs), stroops, secs)
        /\ \A k \in 0 .. 2 :
              LET shown == FormatTokenAmount(stroops, decimals, k)
              IN  /\ Nearest(Numerator(shown), stroops * Pow10(k), Pow10(decimals))
                  /\ shown.frac < Pow10(k)
    /\ printed.places > 0 => ToStroops(printed, decimals) = stroops
    /\ seconds # None0 =>
        LET again == ParseDuration(FormatDuration(seconds), 0, 0)
        IN  /\ again \in 0 .. seconds
            /\ \E u \in DOMAIN UnitSeconds :
                  /\ seconds - again < UnitSeconds[u]
                  /\ u = "s" \/ seconds >= UnitSeconds[u]
    /\ ScValToI128(halves) \in -Power(2, 2 * Width - 1) .. Power(2, 2 * Width - 1) - 1
    /\ (ScValToI128(halves) < 0) = (halves[1] < 0)
=============================================================================
