----------------------------- MODULE StopePool ------------------------------
(***************************************************************************)
(* The share pool of a stope and the positions in it (state/stope.rs,      *)
(* state/miner.rs): what deposit, accrue_yield and request_redemption do   *)
(* to shares, to principal and to the attribution of yield.                *)
(*                                                                         *)
(* One transaction of the program is atomic, so each is one step.  Its     *)
(* other halves are in other modules: the token transfer in Custody, the   *)
(* ticket in Orecart, the seam in SeamRegistry; LodzVault conjoins them.   *)
(* Amounts here are in internal accounting units.                          *)
(***************************************************************************)
EXTENDS LodzMath

CONSTANTS
    NumOwners,          \* how many depositors there are
    NumStopes,          \* how many stopes are open, at most STOPE_COUNT
    SeamKinds           \* the kinds of yield that the stopes' seams produce

Owner == 1..NumOwners

\* Stope n is the account whose stope_id is n - 1.
Stope == 1..NumStopes

\* state/mod.rs: enum YieldKind
YieldKind == {"Sustainable", "Emissions", "Counterparty"}

ASSUME PoolAssumption ==
    /\ NumOwners \in Nat
    /\ NumStopes \in Nat
    /\ SeamKinds \subseteq YieldKind

VARIABLES
    stope,      \* [Stope -> pool fields of the Stope account]
    miner,      \* [Stope -> [Owner -> pool fields of the Miner account]]
    total_normalized_deposits       \* field of VaultConfig

vars == <<stope, miner, total_normalized_deposits>>

Balances == [YieldKind -> U64]
Indices  == [YieldKind -> U128]

PoolRecord ==
    [total_shares : U64, total_deposits : U64, miner_count : Nat,
     yield_index : Indices, realized : Balances]

\* owner is set by the first deposit: opened is owner # Pubkey::default().
MinerRecord ==
    [opened : BOOLEAN, shares : U64, deposited : U64,
     accrued : Balances, claimed : Balances, index_snapshot : Indices]

NoYield == [k \in YieldKind |-> 0]

EmptyPool ==
    [total_shares |-> 0, total_deposits |-> 0, miner_count |-> 0,
     yield_index |-> NoYield, realized |-> NoYield]

EmptyMiner ==
    [opened |-> FALSE, shares |-> 0, deposited |-> 0,
     accrued |-> NoYield, claimed |-> NoYield, index_snapshot |-> NoYield]

Init ==
    /\ stope = [s \in Stope |-> EmptyPool]
    /\ miner = [s \in Stope |-> [o \in Owner |-> EmptyMiner]]
    /\ total_normalized_deposits = 0

-----------------------------------------------------------------------------
(***************************************************************************)
(* Miner::settle_indices: credit each kind with the yield that the         *)
(* position's present shares earned since its last settlement.             *)
(***************************************************************************)
Pending(m, index) ==
    [k \in YieldKind |->
        PendingFromIndex(m.shares, index[k], m.index_snapshot[k])]

\* Mutants: the snapshot, or an empty position, forgotten.
SettledWithoutSnapshot(m, index) ==
    [m EXCEPT !.accrued = [k \in YieldKind |-> @[k] + Pending(m, index)[k]]]

SettledUnlessEmpty(m, index) ==
    IF m.shares = 0 THEN m ELSE
    [m EXCEPT !.accrued = [k \in YieldKind |-> @[k] + Pending(m, index)[k]],
              !.index_snapshot = index]

Settled(m, index) ==
    [m EXCEPT !.accrued = [k \in YieldKind |-> @[k] + Pending(m, index)[k]],
              !.index_snapshot = index]

SettleFits(m, index) ==
    \A k \in YieldKind :
        /\ Fits128(ScaledPending(m.shares, index[k], m.index_snapshot[k]))
        /\ Fits64(m.accrued[k] + Pending(m, index)[k])

(***************************************************************************)
(* deposit: shares at the pool's ratio, one to one in an empty pool.       *)
(***************************************************************************)
SharesFor(pool, normalized) ==
    IF pool.total_shares = 0 \/ pool.total_deposits = 0
    THEN normalized
    ELSE MulDivFloor(normalized, pool.total_shares, pool.total_deposits)

MintShares(o, s, normalized) ==
    LET pool   == stope[s]
        before == miner[s][o]
        m      == Settled(before, pool.yield_index)
        minted == SharesFor(pool, normalized)
    IN  /\ normalized > 0
        /\ Fits64(pool.total_deposits + normalized)
        /\ Fits64(total_normalized_deposits + normalized)
        /\ Fits64(before.deposited + normalized)
        /\ minted > 0 /\ Fits64(minted)
        /\ Fits64(pool.total_shares + minted)
        /\ Fits64(before.shares + minted)
        /\ SettleFits(before, pool.yield_index)
        /\ miner' = [miner EXCEPT ![s][o] =
                        [m EXCEPT !.opened = TRUE,
                                  !.shares = @ + minted,
                                  !.deposited = @ + normalized]]
        /\ stope' = [stope EXCEPT ![s] =
                        [pool EXCEPT !.total_shares = @ + minted,
                                     !.total_deposits = @ + normalized,
                                     !.miner_count =
                                         IF before.opened THEN @ ELSE @ + 1]]
        /\ total_normalized_deposits' = total_normalized_deposits + normalized

(***************************************************************************)
(* Stope::accrue: the lifetime total and the index of one kind move, and   *)
(* those of the other kinds do not.                                        *)
(***************************************************************************)
NextIndex(pool, kind, amount) ==
    pool.yield_index[kind] + IndexDelta(amount, pool.total_shares)

\* Mutant: the lifetime total not checked.
AccrueFitsIndexOnly(pool, kind, amount) ==
    /\ pool.total_shares > 0
    /\ Fits128(NextIndex(pool, kind, amount))

AccrueFits(pool, kind, amount) ==
    /\ pool.total_shares > 0
    /\ Fits64(pool.realized[kind] + amount)
    /\ Fits128(NextIndex(pool, kind, amount))

Accrued(pool, kind, amount) ==
    [pool EXCEPT !.realized[kind] = @ + amount,
                 !.yield_index[kind] = NextIndex(pool, kind, amount)]

(***************************************************************************)
(* accrue_yield: and the yield becomes backing of the shares outstanding.  *)
(***************************************************************************)
BookYield(s, kind, normalized) ==
    LET accrued == Accrued(stope[s], kind, normalized)
    IN  /\ normalized > 0
        /\ AccrueFits(stope[s], kind, normalized)
        /\ Fits64(stope[s].total_deposits + normalized)
        /\ Fits64(total_normalized_deposits + normalized)
        /\ stope' = [stope EXCEPT ![s] =
                        [accrued EXCEPT !.total_deposits = @ + normalized]]
        /\ total_normalized_deposits' = total_normalized_deposits + normalized
        /\ UNCHANGED miner

(***************************************************************************)
(* request_redemption: what the shares are worth, and the part of the      *)
(* settled yield that leaves with them, on which the fee is charged.       *)
(***************************************************************************)
\* Mutants: rounded in favour of the leaver; the ratio inverted.
RedemptionValueRoundedUp(s, shares) ==
    (shares * stope[s].total_deposits + stope[s].total_shares - 1)
        \div stope[s].total_shares

RedemptionValueInverted(s, shares) ==
    MulDivFloor(shares, stope[s].total_shares, stope[s].total_deposits)

RedemptionValue(s, shares) ==
    MulDivFloor(shares, stope[s].total_deposits, stope[s].total_shares)

\* Mutant: the part taken of all shares.
ClaimedYieldOfPool(o, s, shares) ==
    LET m == Settled(miner[s][o], stope[s].yield_index)
    IN  [k \in YieldKind |->
            MulDivFloor(m.accrued[k], shares, stope[s].total_shares)]

ClaimedYield(o, s, shares) ==
    LET m == Settled(miner[s][o], stope[s].yield_index)
    IN  [k \in YieldKind |-> MulDivFloor(m.accrued[k], shares, m.shares)]

SumOfKinds(y) == y["Sustainable"] + y["Emissions"] + y["Counterparty"]

FeeBasis(o, s, shares) ==
    AtMost(SumOfKinds(ClaimedYield(o, s, shares)), RedemptionValue(s, shares))

CanBurn(o, s, shares) ==
    LET m     == Settled(miner[s][o], stope[s].yield_index)
        taken == ClaimedYield(o, s, shares)
    IN  /\ miner[s][o].opened
        /\ shares \in 1..miner[s][o].shares
        /\ stope[s].total_shares > 0
        /\ SettleFits(miner[s][o], stope[s].yield_index)
        /\ RedemptionValue(s, shares) \in U64 \ {0}
        /\ Fits64(SumOfKinds(taken))
        /\ \A k \in YieldKind : Fits64(m.claimed[k] + taken[k])

\* Mutant: shares and principal swapped.
BurntSwapped(pool, shares, normalized) ==
    [pool EXCEPT !.total_shares   = SaturatingSub(@, normalized),
                 !.total_deposits = SaturatingSub(@, shares)]

Burnt(pool, shares, normalized) ==
    [pool EXCEPT !.total_shares   = SaturatingSub(@, shares),
                 !.total_deposits = SaturatingSub(@, normalized)]

BurnShares(o, s, shares) ==
    LET m          == Settled(miner[s][o], stope[s].yield_index)
        normalized == RedemptionValue(s, shares)
        taken      == ClaimedYield(o, s, shares)
    IN  /\ CanBurn(o, s, shares)
        /\ miner' = [miner EXCEPT ![s][o] =
                [m EXCEPT
                    !.shares  = SaturatingSub(@, shares),
                    !.accrued = [k \in YieldKind |->
                                    SaturatingSub(@[k], taken[k])],
                    !.claimed = [k \in YieldKind |-> @[k] + taken[k]]]]
        /\ stope' = [stope EXCEPT ![s] = Burnt(@, shares, normalized)]
        /\ total_normalized_deposits' =
                SaturatingSub(total_normalized_deposits, normalized)

Next ==
    \E s \in Stope, amount \in U64 \ {0} :
        \/ \E o \in Owner : MintShares(o, s, amount) \/ BurnShares(o, s, amount)
        \/ \E kind \in SeamKinds : BookYield(s, kind, amount)

Spec == Init /\ [][Next]_vars

-----------------------------------------------------------------------------
(***************************************************************************)
(* Every field keeps its type: nothing over- or underflows its width.      *)
(***************************************************************************)
TypeOK ==
    /\ stope \in [Stope -> PoolRecord]
    /\ miner \in [Stope -> [Owner -> MinerRecord]]
    /\ total_normalized_deposits \in U64

SharesOf(s) == [o \in Owner |-> miner[s][o].shares]
OpenedIn(s) == [o \in Owner |-> IF miner[s][o].opened THEN 1 ELSE 0]

(***************************************************************************)
(* A stope's totals are those of its positions: total_shares is what they  *)
(* hold, no more and no fewer, and miner_count how many there are.  The    *)
(* program keeps both in step across two separate accounts.                *)
(***************************************************************************)
PoolMatchesPositions ==
    \A s \in Stope :
        /\ Total(SharesOf(s), NumOwners) = stope[s].total_shares
        /\ Total(OpenedIn(s), NumOwners) = stope[s].miner_count

(***************************************************************************)
(* A share is always worth at least the unit it was minted for, and a pool *)
(* holds principal exactly while it has shares.  So deposit's branch for   *)
(* total_deposits = 0 never meets outstanding shares, and no redemption    *)
(* fails on a division by zero or on the first ZeroPayout of               *)
(* request_redemption, the one on internal units (redemption.rs:148).      *)
(***************************************************************************)
ShareNeverUnderwater ==
    \A s \in Stope :
        /\ stope[s].total_shares <= stope[s].total_deposits
        /\ stope[s].total_shares = 0 => stope[s].total_deposits = 0

(***************************************************************************)
(* What each owner has been credited with of one kind: settled, taken out  *)
(* with redeemed shares, or earned and not yet settled.                    *)
(***************************************************************************)
Entitlement(o, s, k) ==
    LET m == miner[s][o]
    IN  m.accrued[k] + m.claimed[k] + Pending(m, stope[s].yield_index)[k]

(***************************************************************************)
(* The yield attributed to all positions of a stope never exceeds what was *)
(* accrued to it, kind by kind (math.rs, "the sum of what miners can claim *)
(* is never more than what was accrued").                                  *)
(***************************************************************************)
AttributionNeverExceedsAccrued ==
    \A s \in Stope, k \in YieldKind :
        Total([o \in Owner |-> Entitlement(o, s, k)], NumOwners)
            <= stope[s].realized[k]

(***************************************************************************)
(* Settlement cannot overflow, so no history of accruals can make          *)
(* settle_indices reject every deposit and redemption of a position.       *)
(***************************************************************************)
SettlementNeverFails ==
    \A s \in Stope, o \in Owner :
        SettleFits(miner[s][o], stope[s].yield_index)

(***************************************************************************)
(* The pool's share of request_redemption's guards lets any part of a      *)
(* position through, after any history: everything up to the claimed yield *)
(* of each kind (redemption.rs:117-165) and the three checked additions to *)
(* what was claimed before (:229-240).  The checked sum of the kinds is    *)
(* left out: rounding can push it past a principal near u64::MAX.  The     *)
(* guards on the payout, the wait, the ticket and the queue are not the    *)
(* pool's (Orecart, and OneAssetAlwaysRedeems in LodzVault).               *)
(***************************************************************************)
PoolLetsSharesGo ==
    \A s \in Stope, o \in Owner :
        \A shares \in 1..miner[s][o].shares :
            Fits64(SumOfKinds(ClaimedYield(o, s, shares)))
                => CanBurn(o, s, shares)

(***************************************************************************)
(* Settled yield never outlives the shares that earned it: a position that *)
(* has redeemed everything leaves no balance behind.                       *)
(***************************************************************************)
NoYieldWithoutShares ==
    \A s \in Stope, o \in Owner :
        miner[s][o].shares = 0 => miner[s][o].accrued = NoYield

(***************************************************************************)
(* The value of a share never falls while shares are outstanding: every    *)
(* rounding, in deposit and in redemption, goes to the holders that stay.  *)
(***************************************************************************)
SharePriceNeverFalls ==
    [][\A s \in Stope :
        (stope[s].total_shares > 0 /\ stope'[s].total_shares > 0) =>
            stope[s].total_deposits * stope'[s].total_shares
                <= stope'[s].total_deposits * stope[s].total_shares]_vars

(***************************************************************************)
(* Only an accrual of a kind changes anyone's entitlement to that kind,    *)
(* and it never lowers one.  A deposit brings no claim on earlier yield,   *)
(* to the depositor or to anyone, and a redemption loses none.             *)
(***************************************************************************)
OnlyAccrualMovesEntitlement ==
    [][\A s \in Stope, o \in Owner, k \in YieldKind :
        IF stope'[s].realized[k] = stope[s].realized[k]
        THEN Entitlement(o, s, k)' = Entitlement(o, s, k)
        ELSE Entitlement(o, s, k)' >= Entitlement(o, s, k)]_vars

-----------------------------------------------------------------------------
(***************************************************************************)
(* redemption.rs:177-178 says of the min in the fee basis that "yield can  *)
(* never exceed the position's value today": the yield that leaves with    *)
(* some shares is at most what those shares are worth.                     *)
(***************************************************************************)
YieldNeverExceedsValue ==
    \A s \in Stope, o \in Owner :
        \A shares \in 1..miner[s][o].shares :
            SumOfKinds(ClaimedYield(o, s, shares)) <= RedemptionValue(s, shares)

-----------------------------------------------------------------------------
(***************************************************************************)
(* What the operations do, field by field.  o and s name the position and  *)
(* the stope it touches; everything else is as before.                     *)
(***************************************************************************)
OthersUnchanged(o, s) ==
    /\ \A t \in Stope : t # s => stope'[t] = stope[t] /\ miner'[t] = miner[t]
    /\ \A p \in Owner : p # o => miner'[s][p] = miner[s][p]

YieldBooksUnchanged(s) ==
    /\ stope'[s].realized = stope[s].realized
    /\ stope'[s].yield_index = stope[s].yield_index

Minted(o, s, normalized) ==
    LET minted == SharesFor(stope[s], normalized)
        m      == Settled(miner[s][o], stope[s].yield_index)
    IN  /\ OthersUnchanged(o, s)
        /\ YieldBooksUnchanged(s)
        /\ stope'[s].total_shares = stope[s].total_shares + minted
        /\ stope'[s].total_deposits = stope[s].total_deposits + normalized
        /\ stope'[s].miner_count = stope[s].miner_count
                         + (IF miner[s][o].opened THEN 0 ELSE 1)
        /\ miner'[s][o].opened = TRUE
        /\ miner'[s][o].shares = miner[s][o].shares + minted
        /\ miner'[s][o].accrued = m.accrued
        /\ miner'[s][o].claimed = m.claimed
        /\ miner'[s][o].index_snapshot = m.index_snapshot

Redeemed(o, s, shares) ==
    LET m     == Settled(miner[s][o], stope[s].yield_index)
        taken == ClaimedYield(o, s, shares)
    IN  /\ OthersUnchanged(o, s)
        /\ YieldBooksUnchanged(s)
        /\ stope'[s].total_shares =
                 SaturatingSub(stope[s].total_shares, shares)
        /\ stope'[s].total_deposits =
                 SaturatingSub(stope[s].total_deposits,
                               RedemptionValue(s, shares))
        /\ stope'[s].miner_count = stope[s].miner_count
        /\ miner'[s][o].opened = miner[s][o].opened
        /\ shares <= miner[s][o].shares
        /\ miner'[s][o].shares =
                 SaturatingSub(miner[s][o].shares, shares)
        /\ miner'[s][o].accrued = [k \in YieldKind |->
                 SaturatingSub(m.accrued[k], taken[k])]
        /\ miner'[s][o].claimed = [k \in YieldKind |->
                 m.claimed[k] + taken[k]]
        /\ miner'[s][o].index_snapshot = m.index_snapshot

Booked(s, kind, normalized) ==
    /\ miner' = miner
    /\ \A t \in Stope : t # s => stope'[t] = stope[t]
    /\ stope[s].total_shares > 0
    /\ normalized > 0
    /\ stope'[s].total_shares = stope[s].total_shares
    /\ stope'[s].total_deposits = stope[s].total_deposits + normalized
    /\ stope'[s].miner_count = stope[s].miner_count
    /\ stope'[s].realized =
         [stope[s].realized EXCEPT ![kind] = @ + normalized]
    /\ stope'[s].yield_index =
         [stope[s].yield_index EXCEPT ![kind] =
             NextIndex(stope[s], kind, normalized)]

(***************************************************************************)
(* Shares, positions and backing.  The three conjuncts need each other: a  *)
(* redemption's saturating subtractions are exact because the shares it    *)
(* burns are part of total_shares (PoolMatchesPositions), and its value is *)
(* at most total_deposits because a share is backed (ShareNeverUnderwater).*)
(***************************************************************************)
PoolInv == TypeOK /\ PoolMatchesPositions /\ ShareNeverUnderwater
=============================================================================
