------------------------------ MODULE LodzMath ------------------------------
(***************************************************************************)
(* Integer arithmetic of the vault program (math.rs) and the sums over     *)
(* accounts that the properties compare its running totals with.           *)
(*                                                                         *)
(* Rust computes on u64 with u128 intermediates and rejects the            *)
(* transaction where a checked operation fails.  Here an operator returns  *)
(* the mathematical result and the action that uses it has Fits64 or       *)
(* Fits128 of that result among its guards, so a rejected transaction is a *)
(* disabled action.  The widths and the fixed-point scales are constants:  *)
(* TLC runs them scaled down, the proofs hold for all of them.             *)
(***************************************************************************)
EXTENDS Integers

CONSTANTS
    U64Max,             \* largest u64; every other width follows from it
    BPS_DENOMINATOR,    \* 10_000 in the code
    YIELD_INDEX_SCALE,  \* 10^12 in the code
    SECONDS_PER_DAY     \* 86_400 in the code

U128Max == (U64Max + 1) * (U64Max + 1) - 1
I64Max  == U64Max \div 2

(***************************************************************************)
(* What the code's literals satisfy.  The third conjunct is 10^12 <= 2^64: *)
(* a u64 amount scaled by YIELD_INDEX_SCALE fits u128.                     *)
(***************************************************************************)
ASSUME MathAssumption ==
    /\ U64Max \in Nat \ {0}
    /\ BPS_DENOMINATOR \in Nat \ {0}
    /\ YIELD_INDEX_SCALE \in 1..(U64Max + 1)
    /\ SECONDS_PER_DAY \in Nat \ {0}

U64  == 0..U64Max
U128 == 0..U128Max

Fits64(x)  == x \in U64
Fits128(x) == x \in U128
FitsI64(x) == x <= I64Max

\* Mutant: the subtraction does not saturate.
PlainSub(a, b) == a - b

SaturatingSub(a, b) == IF b <= a THEN a - b ELSE 0
AtMost(a, b) == IF a <= b THEN a ELSE b

MulDivFloor(a, b, denominator) == (a * b) \div denominator

BpsFraction(amount, bps) == MulDivFloor(amount, bps, BPS_DENOMINATOR)

\* A conversion is the pinned pair [num, den] of an adit.
ToNormalized(amount, conversion) ==
    MulDivFloor(amount, conversion.num, conversion.den)

FromNormalized(normalized, conversion) ==
    MulDivFloor(normalized, conversion.den, conversion.num)

IndexDelta(amount, totalShares) ==
    (amount * YIELD_INDEX_SCALE) \div totalShares

\* The u128 product that pending_from_index forms before it divides.
ScaledPending(shares, indexNow, indexSnapshot) ==
    shares * SaturatingSub(indexNow, indexSnapshot)

PendingFromIndex(shares, indexNow, indexSnapshot) ==
    ScaledPending(shares, indexNow, indexSnapshot) \div YIELD_INDEX_SCALE

QueueDelaySec(pendingAhead, drainPerDay) ==
    (pendingAhead * SECONDS_PER_DAY) \div drainPerDay

-----------------------------------------------------------------------------
(***************************************************************************)
(* Sums.  PrefixSum(f, N)[i] is f[1] + ... + f[i]; Total(f, N) is the      *)
(* whole sum of a function on 1..N.                                        *)
(***************************************************************************)
PrefixSum(f, N) ==
    LET p[i \in 0..N] == IF i = 0 THEN 0 ELSE p[i - 1] + f[i]
    IN  p

Total(f, N) == PrefixSum(f, N)[N]
=============================================================================
