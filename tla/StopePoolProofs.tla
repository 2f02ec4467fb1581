-------------------------- MODULE StopePoolProofs ---------------------------
(***************************************************************************)
(* Theorems about StopePool, for any number of owners and stopes, any      *)
(* widths and scale.                                                       *)
(***************************************************************************)
EXTENDS StopePool, LodzMathProofs

USE MathAssumption, PoolAssumption

LEMMA Widths ==
    /\ U64 \subseteq Nat /\ U128 \subseteq Nat
    /\ 0 \in U64 /\ 0 \in U128
    /\ YIELD_INDEX_SCALE \in Nat \ {0}
<1>1. U128Max \in Nat
  BY DEF U128Max
<1> QED
  BY <1>1 DEF U64, U128

LEMMA SaturatingSubType ==
    ASSUME NEW a \in U64, NEW b \in Nat
    PROVE  SaturatingSub(a, b) \in U64
BY DEF SaturatingSub, U64

(***************************************************************************)
(* settle_indices: what it credits, what it leaves alone, and its type.    *)
(***************************************************************************)
LEMMA PendingType ==
    ASSUME NEW m \in MinerRecord, NEW index \in Indices, NEW k \in YieldKind
    PROVE  /\ ScaledPending(m.shares, index[k], m.index_snapshot[k]) \in Nat
           /\ Pending(m, index)[k] \in Nat
           /\ Pending(m, index)[k] =
                PendingFromIndex(m.shares, index[k], m.index_snapshot[k])
<1> DEFINE now == index[k]
           snap == m.index_snapshot[k]
<1>1. m.shares \in Nat /\ now \in Nat /\ snap \in Nat
  BY Widths DEF MinerRecord, Indices
<1>2. SaturatingSub(now, snap) \in Nat
  <2> HIDE DEF now, snap
  <2> QED BY <1>1 DEF SaturatingSub
<1>3. m.shares * SaturatingSub(now, snap) \in Nat
  BY <1>1, <1>2
<1>4. ScaledPending(m.shares, now, snap) \in Nat
  BY <1>3 DEF ScaledPending
<1>5. PendingFromIndex(m.shares, now, snap) \in Nat
  BY <1>4, Widths, DivBounds DEF PendingFromIndex
<1> QED
  BY <1>4, <1>5 DEF Pending

LEMMA SettledFields ==
    ASSUME NEW m \in MinerRecord, NEW index \in Indices
    PROVE  LET n == Settled(m, index)
           IN  /\ n.shares = m.shares /\ n.opened = m.opened
               /\ n.deposited = m.deposited /\ n.claimed = m.claimed
               /\ n.index_snapshot = index
               /\ n.accrued = [k \in YieldKind |->
                                    m.accrued[k] + Pending(m, index)[k]]
BY DEF Settled, MinerRecord

LEMMA SettledType ==
    ASSUME NEW m \in MinerRecord, NEW index \in Indices, SettleFits(m, index)
    PROVE  Settled(m, index) \in MinerRecord
<1>1. [k \in YieldKind |-> m.accrued[k] + Pending(m, index)[k]] \in Balances
  BY DEF SettleFits, Fits64, Balances
<1> QED
  BY <1>1 DEF Settled, MinerRecord

(***************************************************************************)
(* Arithmetic of the pool.                                                 *)
(***************************************************************************)
LEMMA RedemptionValueType ==
    ASSUME NEW s \in Stope, TypeOK, stope[s].total_shares > 0, NEW shares \in Nat
    PROVE  RedemptionValue(s, shares) \in Nat
<1>1. stope[s].total_shares \in Nat /\ stope[s].total_deposits \in Nat
  BY Widths DEF TypeOK, PoolRecord
<1> QED
  BY <1>1, MulDivFloorBounds DEF RedemptionValue

LEMMA IndexDeltaType ==
    ASSUME NEW amount \in Nat, NEW shares \in Nat \ {0}
    PROVE  IndexDelta(amount, shares) \in Nat
<1>1. amount * YIELD_INDEX_SCALE \in Nat
  BY Widths
<1> QED
  BY <1>1, DivBounds DEF IndexDelta

-----------------------------------------------------------------------------
(***************************************************************************)
(* Types.  TypeOK is inductive: a width is either checked by the step or   *)
(* kept by a saturating subtraction.                                       *)
(***************************************************************************)
LEMMA InitTypeOK == Init => TypeOK
<1>1. NoYield \in Balances /\ NoYield \in Indices
  BY Widths DEF NoYield, Balances, Indices
<1>2. EmptyPool \in PoolRecord
  BY <1>1, Widths DEF EmptyPool, PoolRecord
<1>3. EmptyMiner \in MinerRecord
  BY <1>1, Widths DEF EmptyMiner, MinerRecord
<1> QED
  BY <1>2, <1>3, Widths DEF Init, TypeOK

LEMMA MintTypeOK ==
    ASSUME TypeOK, NEW o \in Owner, NEW s \in Stope, NEW normalized \in U64,
           MintShares(o, s, normalized)
    PROVE  TypeOK'
<1> DEFINE pool   == stope[s]
           m      == Settled(miner[s][o], pool.yield_index)
           minted == SharesFor(pool, normalized)
<1>1. pool \in PoolRecord /\ miner[s][o] \in MinerRecord /\ pool.yield_index \in Indices
  BY DEF TypeOK, PoolRecord
<1>2. /\ SettleFits(miner[s][o], pool.yield_index)
      /\ m.shares + minted \in U64 /\ m.deposited + normalized \in U64
      /\ pool.total_shares + minted \in U64
      /\ pool.total_deposits + normalized \in U64
      /\ total_normalized_deposits' \in U64
  <2>1. m.shares = miner[s][o].shares /\ m.deposited = miner[s][o].deposited
    BY <1>1, SettledFields
  <2> HIDE DEF m
  <2> QED BY <2>1 DEF MintShares, Fits64
<1>3. m \in MinerRecord
  BY <1>1, <1>2, SettledType
<1> HIDE DEF m, minted
<1>4. [m EXCEPT !.opened = TRUE, !.shares = @ + minted, !.deposited = @ + normalized]
        \in MinerRecord
  BY <1>2, <1>3 DEF MinerRecord
<1>5. [pool EXCEPT !.total_shares = @ + minted, !.total_deposits = @ + normalized,
                   !.miner_count = IF miner[s][o].opened THEN @ ELSE @ + 1]
        \in PoolRecord
  <2> DEFINE count == IF miner[s][o].opened THEN pool.miner_count
                                            ELSE pool.miner_count + 1
  <2>1. count \in Nat
    BY <1>1 DEF PoolRecord
  <2>2. [pool EXCEPT !.total_shares = @ + minted, !.total_deposits = @ + normalized,
                     !.miner_count = count] \in PoolRecord
    <3> HIDE DEF count, pool
    <3> QED BY <1>1, <1>2, <2>1 DEF PoolRecord
  <2> QED BY <2>2
<1>6. /\ miner' = [miner EXCEPT ![s][o] = [m EXCEPT !.opened = TRUE,
                        !.shares = @ + minted, !.deposited = @ + normalized]]
      /\ stope' = [stope EXCEPT ![s] =
            [pool EXCEPT !.total_shares = @ + minted, !.total_deposits = @ + normalized,
                   !.miner_count = IF miner[s][o].opened THEN @ ELSE @ + 1]]
  BY DEF MintShares, m, minted
<1> HIDE DEF pool
<1>7. miner' \in [Stope -> [Owner -> MinerRecord]]
  BY <1>4, <1>6 DEF TypeOK
<1>8. stope' \in [Stope -> PoolRecord]
  BY <1>5, <1>6 DEF TypeOK
<1> QED
  BY <1>2, <1>7, <1>8 DEF TypeOK

LEMMA AccruedFields ==
    ASSUME NEW pool \in PoolRecord, NEW kind \in YieldKind, NEW amount \in U64
    PROVE  LET a == Accrued(pool, kind, amount)
           IN  /\ a.total_shares = pool.total_shares
               /\ a.total_deposits = pool.total_deposits
               /\ a.miner_count = pool.miner_count
               /\ a.realized = [pool.realized EXCEPT ![kind] = @ + amount]
               /\ a.yield_index = [pool.yield_index EXCEPT ![kind] =
                                        NextIndex(pool, kind, amount)]
BY DEF PoolRecord, Accrued

LEMMA AccruedType ==
    ASSUME NEW pool \in PoolRecord, NEW kind \in YieldKind, NEW amount \in U64,
           AccrueFits(pool, kind, amount)
    PROVE  Accrued(pool, kind, amount) \in PoolRecord
<1> DEFINE index == NextIndex(pool, kind, amount)
<1>1. index \in U128 /\ pool.realized[kind] + amount \in U64
  BY DEF AccrueFits, Fits64, Fits128
<1> HIDE DEF index
<1>2. [pool.realized EXCEPT ![kind] = @ + amount] \in Balances
  BY <1>1 DEF PoolRecord, Balances
<1>3. [pool.yield_index EXCEPT ![kind] = index] \in Indices
  BY <1>1 DEF PoolRecord, Indices
<1>4. Accrued(pool, kind, amount) =
        [pool EXCEPT !.realized = [pool.realized EXCEPT ![kind] = @ + amount],
                     !.yield_index = [pool.yield_index EXCEPT ![kind] = index]]
  BY DEF PoolRecord, Accrued, index
<1> QED
  BY <1>2, <1>3, <1>4 DEF PoolRecord

LEMMA BookTypeOK ==
    ASSUME TypeOK, NEW s \in Stope, NEW kind \in YieldKind, NEW normalized \in U64,
           BookYield(s, kind, normalized)
    PROVE  TypeOK'
<1> DEFINE a    == Accrued(stope[s], kind, normalized)
           next == [a EXCEPT !.total_deposits = @ + normalized]
<1>1. stope[s] \in PoolRecord
  BY DEF TypeOK
<1>2. /\ AccrueFits(stope[s], kind, normalized)
      /\ stope[s].total_deposits + normalized \in U64
      /\ total_normalized_deposits' \in U64
      /\ stope' = [stope EXCEPT ![s] = next] /\ miner' = miner
  BY DEF BookYield, Fits64
<1>3. a \in PoolRecord /\ a.total_deposits = stope[s].total_deposits
  <2>1. a \in PoolRecord
    BY <1>1, <1>2, AccruedType
  <2>2. a.total_deposits = stope[s].total_deposits
    BY <1>1 DEF PoolRecord, Accrued
  <2> QED BY <2>1, <2>2
<1> HIDE DEF a
<1>4. next \in PoolRecord
  BY <1>2, <1>3 DEF PoolRecord
<1> QED
  BY <1>2, <1>4 DEF TypeOK

LEMMA BurnTypeOK ==
    ASSUME TypeOK, NEW o \in Owner, NEW s \in Stope, NEW shares \in U64,
           BurnShares(o, s, shares)
    PROVE  TypeOK'
<1> DEFINE pool       == stope[s]
           m          == Settled(miner[s][o], pool.yield_index)
           normalized == RedemptionValue(s, shares)
           taken      == ClaimedYield(o, s, shares)
           next       == [m EXCEPT
                !.shares  = SaturatingSub(@, shares),
                !.accrued = [k \in YieldKind |-> SaturatingSub(@[k], taken[k])],
                !.claimed = [k \in YieldKind |-> @[k] + taken[k]]]
<1>1. pool \in PoolRecord /\ miner[s][o] \in MinerRecord /\ pool.yield_index \in Indices
  BY DEF TypeOK, PoolRecord
<1>2. /\ SettleFits(miner[s][o], pool.yield_index)
      /\ shares \in 1..miner[s][o].shares
      /\ normalized \in U64
      /\ \A k \in YieldKind : m.claimed[k] + taken[k] \in U64
      /\ miner' = [miner EXCEPT ![s][o] = next]
      /\ stope' = [stope EXCEPT ![s] = Burnt(@, shares, normalized)]
      /\ total_normalized_deposits' =
            SaturatingSub(total_normalized_deposits, normalized)
  BY DEF BurnShares, CanBurn, Fits64
<1>3. m \in MinerRecord /\ m.shares = miner[s][o].shares
  BY <1>1, <1>2, SettledType, SettledFields
<1>4. \A k \in YieldKind : taken[k] \in Nat
  <2>1. \A k \in YieldKind : taken[k] = MulDivFloor(m.accrued[k], shares, m.shares)
    BY DEF ClaimedYield
  <2> HIDE DEF m, taken
  <2>2. \A k \in YieldKind : m.accrued[k] \in Nat
    BY <1>3, Widths DEF MinerRecord, Balances
  <2>3. m.shares \in Nat /\ m.shares > 0 /\ shares \in Nat
    BY <1>2, <1>3, Widths DEF MinerRecord
  <2> TAKE k \in YieldKind
  <2>4. MulDivFloor(m.accrued[k], shares, m.shares) \in Nat
    BY <2>2, <2>3, MulDivFloorBounds
  <2> QED BY <2>1, <2>4
<1> HIDE DEF m, normalized, taken
<1>5. next \in MinerRecord
  <2>1. SaturatingSub(m.shares, shares) \in U64
    BY <1>3, Widths, SaturatingSubType DEF MinerRecord
  <2>2. [k \in YieldKind |-> SaturatingSub(m.accrued[k], taken[k])] \in Balances
    BY <1>3, <1>4, SaturatingSubType DEF MinerRecord, Balances
  <2>3. [k \in YieldKind |-> m.claimed[k] + taken[k]] \in Balances
    BY <1>2 DEF Balances
  <2> QED BY <1>3, <2>1, <2>2, <2>3 DEF MinerRecord
<1>6. Burnt(pool, shares, normalized) \in PoolRecord
  <2>1. /\ SaturatingSub(pool.total_shares, shares) \in U64
        /\ SaturatingSub(pool.total_deposits, normalized) \in U64
    BY <1>1, <1>2, Widths, SaturatingSubType DEF PoolRecord
  <2> QED BY <1>1, <2>1 DEF PoolRecord, Burnt
<1>7. total_normalized_deposits' \in U64
  BY <1>2, Widths, SaturatingSubType DEF TypeOK
<1> HIDE DEF next
<1> QED
  BY <1>2, <1>5, <1>6, <1>7 DEF TypeOK

LEMMA NextTypeOK == TypeOK /\ [Next]_vars => TypeOK'
<1> SUFFICES ASSUME TypeOK, [Next]_vars PROVE TypeOK'
  OBVIOUS
<1>1. CASE UNCHANGED vars
  BY <1>1 DEF TypeOK, vars
<1>2. ASSUME NEW s \in Stope, NEW amount \in U64 \ {0}, NEW o \in Owner,
             MintShares(o, s, amount)
      PROVE  TypeOK'
  BY <1>2, MintTypeOK
<1>3. ASSUME NEW s \in Stope, NEW amount \in U64 \ {0}, NEW o \in Owner,
             BurnShares(o, s, amount)
      PROVE  TypeOK'
  BY <1>3, BurnTypeOK
<1>4. ASSUME NEW s \in Stope, NEW amount \in U64 \ {0}, NEW kind \in SeamKinds,
             BookYield(s, kind, amount)
      PROVE  TypeOK'
  BY <1>4, BookTypeOK
<1> QED
  BY <1>1, <1>2, <1>3, <1>4 DEF Next

(***************************************************************************)
(* Every field of the stopes and positions keeps its type: no width the    *)
(* program stores is ever exceeded.                                        *)
(***************************************************************************)
THEOREM TypeCorrect == Spec => []TypeOK
BY InitTypeOK, NextTypeOK, PTL DEF Spec

-----------------------------------------------------------------------------
(***************************************************************************)
(* The two ratios of the pool.  Both round against the caller, so neither  *)
(* minting nor burning takes backing from the shares that stay.            *)
(***************************************************************************)
LEMMA MintKeepsBacking ==
    ASSUME NEW ts \in Nat, NEW td \in Nat, NEW n \in Nat, ts > 0, ts <= td
    PROVE  /\ MulDivFloor(n, ts, td) \in Nat
           /\ MulDivFloor(n, ts, td) <= n
           /\ td * MulDivFloor(n, ts, td) <= n * ts
<1> DEFINE q == MulDivFloor(n, ts, td)
<1>1. q \in Nat /\ td * q <= n * ts
  BY MulDivFloorBounds
<1> HIDE DEF q
<1>2. n * ts <= n * td
  BY SMT
<1>3. td * q <= n * td
  <2>1. td * q \in Nat /\ n * ts \in Nat /\ n * td \in Nat
    BY <1>1, SMT
  <2> QED BY <1>1, <1>2, <2>1
<1>4. q <= n
  BY <1>1, <1>3, SMT
<1> QED
  BY <1>1, <1>4 DEF q

LEMMA BurnKeepsBacking ==
    ASSUME NEW ts \in Nat, NEW td \in Nat, NEW n \in Nat,
           0 < n, n <= ts, ts <= td
    PROVE  /\ MulDivFloor(n, td, ts) \in Nat
           /\ MulDivFloor(n, td, ts) <= td
           /\ ts - n <= td - MulDivFloor(n, td, ts)
           /\ n = ts => MulDivFloor(n, td, ts) = td
           /\ td * (ts - n) <= (td - MulDivFloor(n, td, ts)) * ts
<1> DEFINE q == MulDivFloor(n, td, ts)
<1>1. q \in Nat /\ ts * q <= n * td /\ n * td < ts * q + ts
  BY MulDivFloorBounds
<1> HIDE DEF q
<1>2. (td - q) * ts >= td * (ts - n)
  BY <1>1, SMT
<1>3. td * (ts - n) >= ts * (ts - n)
  BY SMT
<1>4. (td - q) * ts >= (ts - n) * ts
  BY <1>1, <1>2, <1>3, SMT
<1>5. td - q >= ts - n
  BY <1>1, <1>4, SMT
<1>6. ASSUME n = ts PROVE q = td
  <2>1. ts * q <= ts * td /\ ts * td < ts * (q + 1)
    BY <1>1, <1>6, SMT
  <2>2. q <= td /\ td < q + 1
    BY <1>1, <2>1, SMT
  <2> QED BY <1>1, <2>2
<1> QED
  BY <1>1, <1>2, <1>5, <1>6 DEF q

(***************************************************************************)
(* Each operation does what Minted, Redeemed and Booked say.               *)
(***************************************************************************)
LEMMA MintEffect ==
    ASSUME TypeOK, NEW o \in Owner, NEW s \in Stope, NEW normalized \in U64,
           MintShares(o, s, normalized)
    PROVE  Minted(o, s, normalized)
<1> DEFINE pool   == stope[s]
           m      == Settled(miner[s][o], pool.yield_index)
           minted == SharesFor(pool, normalized)
           count  == IF miner[s][o].opened THEN pool.miner_count
                                           ELSE pool.miner_count + 1
           nextM  == [m EXCEPT !.opened = TRUE, !.shares = @ + minted,
                               !.deposited = @ + normalized]
           nextS  == [pool EXCEPT !.total_shares = @ + minted,
                                  !.total_deposits = @ + normalized,
                                  !.miner_count = count]
<1>1. pool \in PoolRecord /\ miner[s][o] \in MinerRecord /\ pool.yield_index \in Indices
  BY DEF TypeOK, PoolRecord
<1>2. m \in MinerRecord
  BY <1>1, SettledType DEF MintShares
<1>3. m.shares = miner[s][o].shares
  BY <1>1, SettledFields
<1>4. miner' = [miner EXCEPT ![s][o] = nextM] /\ stope' = [stope EXCEPT ![s] = nextS]
  BY DEF MintShares
<1>5. count = pool.miner_count + (IF miner[s][o].opened THEN 0 ELSE 1)
  BY <1>1 DEF PoolRecord
<1> HIDE DEF m, minted, count
<1>6. /\ nextM.opened = TRUE /\ nextM.shares = m.shares + minted
      /\ nextM.accrued = m.accrued /\ nextM.claimed = m.claimed
      /\ nextM.index_snapshot = m.index_snapshot
  BY <1>2 DEF MinerRecord
<1>7. /\ nextS.total_shares = pool.total_shares + minted
      /\ nextS.total_deposits = pool.total_deposits + normalized
      /\ nextS.miner_count = count /\ nextS.realized = pool.realized
      /\ nextS.yield_index = pool.yield_index
  BY <1>1 DEF PoolRecord
<1> HIDE DEF nextM, nextS
<1>8. miner'[s][o] = nextM /\ stope'[s] = nextS /\ OthersUnchanged(o, s)
  BY <1>4 DEF TypeOK, OthersUnchanged
<1> QED
  BY <1>3, <1>5, <1>6, <1>7, <1>8 DEF Minted, YieldBooksUnchanged, m, minted

LEMMA BurnEffect ==
    ASSUME TypeOK, NEW o \in Owner, NEW s \in Stope, NEW shares \in U64,
           BurnShares(o, s, shares)
    PROVE  Redeemed(o, s, shares)
<1> DEFINE pool   == stope[s]
           m      == Settled(miner[s][o], pool.yield_index)
           value  == RedemptionValue(s, shares)
           taken  == ClaimedYield(o, s, shares)
           nextM  == [m EXCEPT
                !.shares  = SaturatingSub(@, shares),
                !.accrued = [k \in YieldKind |-> SaturatingSub(@[k], taken[k])],
                !.claimed = [k \in YieldKind |-> @[k] + taken[k]]]
           nextS  == Burnt(pool, shares, value)
<1>1. pool \in PoolRecord /\ miner[s][o] \in MinerRecord /\ pool.yield_index \in Indices
  BY DEF TypeOK, PoolRecord
<1>2. m \in MinerRecord
  BY <1>1, SettledType DEF BurnShares, CanBurn
<1>3. /\ m.shares = miner[s][o].shares
      /\ m.opened = miner[s][o].opened
  BY <1>1, SettledFields
<1>4. /\ miner' = [miner EXCEPT ![s][o] = nextM]
      /\ stope' = [stope EXCEPT ![s] = Burnt(@, shares, value)]
      /\ shares \in 1..miner[s][o].shares
  BY DEF BurnShares, CanBurn
<1>5. shares <= miner[s][o].shares
  BY <1>1, <1>4, Widths DEF MinerRecord
<1> HIDE DEF m, value, taken
<1>6. /\ nextM.opened = m.opened
      /\ nextM.shares = SaturatingSub(m.shares, shares)
      /\ nextM.accrued = [k \in YieldKind |-> SaturatingSub(m.accrued[k], taken[k])]
      /\ nextM.claimed = [k \in YieldKind |-> m.claimed[k] + taken[k]]
      /\ nextM.index_snapshot = m.index_snapshot
  BY <1>2 DEF MinerRecord
<1>7. /\ nextS.total_shares = SaturatingSub(pool.total_shares, shares)
      /\ nextS.total_deposits = SaturatingSub(pool.total_deposits, value)
      /\ nextS.miner_count = pool.miner_count /\ nextS.realized = pool.realized
      /\ nextS.yield_index = pool.yield_index
  BY <1>1 DEF PoolRecord, Burnt
<1> HIDE DEF nextM, nextS
<1>8. miner'[s][o] = nextM /\ stope'[s] = nextS /\ OthersUnchanged(o, s)
  BY <1>4 DEF TypeOK, OthersUnchanged, nextS
<1> QED
  BY <1>3, <1>5, <1>6, <1>7, <1>8 DEF Redeemed, YieldBooksUnchanged, m, value, taken

LEMMA BookEffect ==
    ASSUME TypeOK, NEW s \in Stope, NEW kind \in YieldKind, NEW normalized \in U64,
           BookYield(s, kind, normalized)
    PROVE  Booked(s, kind, normalized)
<1> DEFINE a    == Accrued(stope[s], kind, normalized)
           next == [a EXCEPT !.total_deposits = @ + normalized]
<1>1. stope[s] \in PoolRecord
  BY DEF TypeOK
<1>2. /\ stope' = [stope EXCEPT ![s] = next] /\ miner' = miner
      /\ AccrueFits(stope[s], kind, normalized) /\ normalized > 0
  BY DEF BookYield
<1>3. /\ a.total_shares = stope[s].total_shares
      /\ a.total_deposits = stope[s].total_deposits
      /\ a.miner_count = stope[s].miner_count
      /\ a.realized = [stope[s].realized EXCEPT ![kind] = @ + normalized]
      /\ a.yield_index = [stope[s].yield_index EXCEPT ![kind] =
                                NextIndex(stope[s], kind, normalized)]
  BY <1>1, AccruedFields
<1>4. a \in PoolRecord
  BY <1>1, <1>2, AccruedType
<1> HIDE DEF a
<1>5. /\ next.total_shares = a.total_shares
      /\ next.total_deposits = a.total_deposits + normalized
      /\ next.miner_count = a.miner_count
      /\ next.realized = a.realized
      /\ next.yield_index = a.yield_index
  BY <1>4 DEF PoolRecord
<1> HIDE DEF next
<1>6. stope'[s] = next /\ \A t \in Stope : t # s => stope'[t] = stope[t]
  BY <1>2 DEF TypeOK
<1> QED
  BY <1>2, <1>3, <1>5, <1>6 DEF Booked, AccrueFits

-----------------------------------------------------------------------------

LEMMA PoolTypes ==
    ASSUME TypeOK, NEW s \in Stope
    PROVE  /\ stope[s].total_shares \in Nat /\ stope[s].total_deposits \in Nat
           /\ stope[s].miner_count \in Nat
           /\ SharesOf(s) \in [1..NumOwners -> Nat]
           /\ OpenedIn(s) \in [1..NumOwners -> Nat]
           /\ \A o \in Owner : miner[s][o].shares \in Nat
<1>1. stope[s] \in PoolRecord /\ \A o \in Owner : miner[s][o] \in MinerRecord
  BY DEF TypeOK
<1>2. \A o \in Owner : miner[s][o].shares \in Nat
  BY <1>1, Widths DEF MinerRecord
<1> QED
  BY <1>1, <1>2, Widths DEF PoolRecord, SharesOf, OpenedIn, Owner

LEMMA SharesWithinPool ==
    ASSUME TypeOK, PoolMatchesPositions, NEW s \in Stope, NEW o \in Owner
    PROVE  miner[s][o].shares <= stope[s].total_shares
<1>1. SharesOf(s)[o] <= Total(SharesOf(s), NumOwners)
  BY PoolTypes, SummandAtMostTotal DEF Owner
<1> QED
  BY <1>1 DEF PoolMatchesPositions, SharesOf

(***************************************************************************)
(* Changing one position changes the two totals by what it changes.        *)
(***************************************************************************)
LEMMA TotalsFollowPosition ==
    ASSUME TypeOK, TypeOK', NEW o \in Owner, NEW s \in Stope, OthersUnchanged(o, s)
    PROVE  /\ Total(SharesOf(s), NumOwners)' = Total(SharesOf(s), NumOwners)
                        + miner'[s][o].shares - miner[s][o].shares
           /\ Total(OpenedIn(s), NumOwners)' = Total(OpenedIn(s), NumOwners)
                        + (IF miner'[s][o].opened THEN 1 ELSE 0)
                        - (IF miner[s][o].opened THEN 1 ELSE 0)
<1> DEFINE f == SharesOf(s)   fn == [p \in Owner |-> miner'[s][p].shares]
           g == OpenedIn(s)
           gn == [p \in Owner |-> IF miner'[s][p].opened THEN 1 ELSE 0]
<1>1. /\ f \in [1..NumOwners -> Nat] /\ g \in [1..NumOwners -> Nat]
  BY PoolTypes
<1>2. /\ fn \in [1..NumOwners -> Nat] /\ gn \in [1..NumOwners -> Nat]
  <2>1. \A p \in Owner : miner'[s][p] \in MinerRecord
    BY DEF TypeOK
  <2>2. \A p \in Owner : miner'[s][p].shares \in Nat
    BY <2>1, Widths DEF MinerRecord
  <2> QED BY <2>2 DEF Owner
<1>3. /\ \A p \in 1..NumOwners : p # o => fn[p] = f[p] /\ gn[p] = g[p]
      /\ fn[o] = miner'[s][o].shares /\ f[o] = miner[s][o].shares
      /\ gn[o] = (IF miner'[s][o].opened THEN 1 ELSE 0)
      /\ g[o] = (IF miner[s][o].opened THEN 1 ELSE 0)
  BY DEF OthersUnchanged, Owner, SharesOf, OpenedIn
<1>4. SharesOf(s)' = fn /\ OpenedIn(s)' = gn
  BY DEF SharesOf, OpenedIn
<1> HIDE DEF f, fn, g, gn
<1>5. Total(fn, NumOwners) = Total(f, NumOwners) + fn[o] - f[o]
  BY ZenonT(60), <1>1, <1>2, <1>3, TotalOfUpdate DEF Owner
<1>6. Total(gn, NumOwners) = Total(g, NumOwners) + gn[o] - g[o]
  BY ZenonT(60), <1>1, <1>2, <1>3, TotalOfUpdate DEF Owner
<1>7. /\ Total(SharesOf(s), NumOwners)' = Total(fn, NumOwners)
      /\ Total(OpenedIn(s), NumOwners)' = Total(gn, NumOwners)
  BY <1>4
<1> QED
  BY <1>3, <1>5, <1>6, <1>7 DEF f, g

LEMMA TotalsOfOthers ==
    ASSUME NEW s \in Stope, NEW t \in Stope, miner'[t] = miner[t]
    PROVE  /\ Total(SharesOf(t), NumOwners)' = Total(SharesOf(t), NumOwners)
           /\ Total(OpenedIn(t), NumOwners)' = Total(OpenedIn(t), NumOwners)
<1>1. SharesOf(t)' = SharesOf(t) /\ OpenedIn(t)' = OpenedIn(t)
  BY DEF SharesOf, OpenedIn
<1> QED
  BY <1>1

LEMMA InitPoolInv == Init => PoolInv
<1> SUFFICES ASSUME Init PROVE PoolInv
  OBVIOUS
<1>1. TypeOK
  BY InitTypeOK
<1>2. ASSUME NEW s \in Stope
      PROVE  /\ Total(SharesOf(s), NumOwners) = stope[s].total_shares
             /\ Total(OpenedIn(s), NumOwners) = stope[s].miner_count
             /\ stope[s].total_shares = 0 /\ stope[s].total_deposits = 0
  <2>1. stope[s] = EmptyPool /\ \A o \in Owner : miner[s][o] = EmptyMiner
    BY DEF Init
  <2>2. \A o \in 1..NumOwners : SharesOf(s)[o] = 0 /\ OpenedIn(s)[o] = 0
    BY <2>1 DEF SharesOf, OpenedIn, Owner, EmptyMiner
  <2>3. Total(SharesOf(s), NumOwners) = 0 /\ Total(OpenedIn(s), NumOwners) = 0
    BY <1>1, <2>2, PoolTypes, TotalOfZeros
  <2> QED BY <2>1, <2>3 DEF EmptyPool
<1> QED
  BY <1>1, <1>2 DEF PoolInv, PoolMatchesPositions, ShareNeverUnderwater

LEMMA MintPoolInv ==
    ASSUME PoolInv, NEW o \in Owner, NEW s \in Stope, NEW normalized \in U64,
           MintShares(o, s, normalized)
    PROVE  PoolInv'
<1> DEFINE minted == SharesFor(stope[s], normalized)
           ts == stope[s].total_shares
           td == stope[s].total_deposits
<1>1. TypeOK /\ TypeOK'
  BY MintTypeOK DEF PoolInv
<1>2. /\ OthersUnchanged(o, s)
      /\ stope'[s].total_shares = ts + minted
      /\ stope'[s].total_deposits = td + normalized
      /\ stope'[s].miner_count = stope[s].miner_count
                                     + (IF miner[s][o].opened THEN 0 ELSE 1)
      /\ miner'[s][o].opened = TRUE
      /\ miner'[s][o].shares = miner[s][o].shares + minted
  <2>1. Minted(o, s, normalized)
    BY <1>1, MintEffect
  <2> QED BY <2>1 DEF Minted
<1>3. /\ ts \in Nat /\ td \in Nat /\ normalized \in Nat /\ normalized > 0
      /\ stope[s].miner_count \in Nat /\ miner[s][o].shares \in Nat
      /\ ts <= td /\ (ts = 0 => td = 0)
  <2>1. normalized > 0
    BY DEF MintShares
  <2> QED BY <1>1, <2>1, PoolTypes, Widths DEF PoolInv, ShareNeverUnderwater
<1>4. minted \in Nat /\ minted > 0 /\ minted <= normalized
  <2>1. minted > 0
    BY DEF MintShares
  <2>2. CASE ts = 0
    BY <1>3, <2>1, <2>2 DEF SharesFor
  <2>3. CASE ts > 0
    <3>1. minted = MulDivFloor(normalized, ts, td)
      BY <1>3, <2>3 DEF SharesFor
    <3> HIDE DEF minted, ts, td
    <3> QED BY <1>3, <2>1, <2>3, <3>1, MintKeepsBacking
  <2> QED BY <1>3, <2>2, <2>3
<1> HIDE DEF minted
<1>5. PoolMatchesPositions'
  <2> SUFFICES ASSUME NEW t \in Stope
               PROVE  /\ Total(SharesOf(t), NumOwners)' = stope'[t].total_shares
                      /\ Total(OpenedIn(t), NumOwners)' = stope'[t].miner_count
    BY DEF PoolMatchesPositions
  <2>1. /\ Total(SharesOf(t), NumOwners) = stope[t].total_shares
        /\ Total(OpenedIn(t), NumOwners) = stope[t].miner_count
    BY DEF PoolInv, PoolMatchesPositions
  <2>2. CASE t = s
    <3>1. /\ Total(SharesOf(s), NumOwners)' = ts + miner'[s][o].shares
                                                 - miner[s][o].shares
          /\ Total(OpenedIn(s), NumOwners)' = stope[s].miner_count
                + (IF miner'[s][o].opened THEN 1 ELSE 0)
                - (IF miner[s][o].opened THEN 1 ELSE 0)
      BY <1>1, <1>2, <2>1, <2>2, TotalsFollowPosition
    <3> QED BY <1>2, <1>3, <1>4, <2>2, <3>1
  <2>3. CASE t # s
    BY <1>2, <2>1, <2>3, TotalsOfOthers DEF OthersUnchanged
  <2> QED BY <2>2, <2>3
<1>6. ShareNeverUnderwater'
  <2>1. ASSUME NEW t \in Stope, t # s
        PROVE  /\ stope'[t].total_shares <= stope'[t].total_deposits
               /\ stope'[t].total_shares = 0 => stope'[t].total_deposits = 0
    BY <1>2, <2>1 DEF OthersUnchanged, PoolInv, ShareNeverUnderwater
  <2>2. /\ stope'[s].total_shares <= stope'[s].total_deposits
        /\ stope'[s].total_shares # 0
    BY <1>2, <1>3, <1>4
  <2> QED BY <2>1, <2>2 DEF ShareNeverUnderwater
<1> QED
  BY <1>1, <1>5, <1>6 DEF PoolInv

LEMMA BookPoolInv ==
    ASSUME PoolInv, NEW s \in Stope, NEW kind \in YieldKind, NEW normalized \in U64,
           BookYield(s, kind, normalized)
    PROVE  PoolInv'
<1>1. TypeOK /\ TypeOK'
  BY BookTypeOK DEF PoolInv
<1>2. /\ miner' = miner
      /\ \A t \in Stope : t # s => stope'[t] = stope[t]
      /\ stope[s].total_shares > 0
      /\ stope'[s].total_shares = stope[s].total_shares
      /\ stope'[s].total_deposits = stope[s].total_deposits + normalized
      /\ stope'[s].miner_count = stope[s].miner_count
  <2>1. Booked(s, kind, normalized)
    BY <1>1, BookEffect
  <2> QED BY <2>1 DEF Booked
<1>3. PoolMatchesPositions'
  <2> SUFFICES ASSUME NEW t \in Stope
               PROVE  /\ Total(SharesOf(t), NumOwners)' = stope'[t].total_shares
                      /\ Total(OpenedIn(t), NumOwners)' = stope'[t].miner_count
    BY DEF PoolMatchesPositions
  <2>1. /\ stope'[t].total_shares = stope[t].total_shares
        /\ stope'[t].miner_count = stope[t].miner_count
    BY <1>2
  <2> QED BY <1>2, <2>1, TotalsOfOthers DEF PoolInv, PoolMatchesPositions
<1>4. ShareNeverUnderwater'
  <2>1. /\ stope[s].total_shares \in Nat /\ stope[s].total_deposits \in Nat
        /\ normalized \in Nat
    BY <1>1, PoolTypes, Widths
  <2> QED BY <1>2, <2>1 DEF PoolInv, ShareNeverUnderwater
<1> QED
  BY <1>1, <1>3, <1>4 DEF PoolInv

(***************************************************************************)
(* A redemption burns shares that exist and takes backing that is there:   *)
(* none of its subtractions saturates.                                     *)
(***************************************************************************)
LEMMA BurnIsExact ==
    ASSUME PoolInv, NEW o \in Owner, NEW s \in Stope, NEW shares \in U64 \ {0},
           BurnShares(o, s, shares)
    PROVE  LET ts == stope[s].total_shares
               td == stope[s].total_deposits
               value == RedemptionValue(s, shares)
           IN  /\ shares <= miner[s][o].shares /\ shares <= ts /\ value <= td
               /\ stope'[s].total_shares = ts - shares
               /\ stope'[s].total_deposits = td - value
               /\ miner'[s][o].shares = miner[s][o].shares - shares
               /\ ts - shares <= td - value
               /\ shares = ts => value = td
               /\ td * (ts - shares) <= (td - value) * ts
<1> DEFINE ts == stope[s].total_shares
           td == stope[s].total_deposits
           value == RedemptionValue(s, shares)
<1>1. TypeOK
  BY DEF PoolInv
<1>2. /\ stope'[s].total_shares = SaturatingSub(ts, shares)
      /\ stope'[s].total_deposits = SaturatingSub(td, value)
      /\ miner'[s][o].shares = SaturatingSub(miner[s][o].shares, shares)
      /\ shares <= miner[s][o].shares
  <2>1. Redeemed(o, s, shares)
    BY <1>1, BurnEffect
  <2> QED BY <2>1 DEF Redeemed
<1>3. /\ ts \in Nat /\ td \in Nat /\ miner[s][o].shares \in Nat
      /\ shares \in Nat /\ shares > 0 /\ ts <= td
  BY <1>1, PoolTypes, Widths DEF PoolInv, ShareNeverUnderwater
<1>4. shares <= ts
  BY <1>1, <1>2, <1>3, SharesWithinPool DEF PoolInv
<1>5. value = MulDivFloor(shares, td, ts)
  BY DEF RedemptionValue
<1> HIDE DEF value, ts, td
<1>6. /\ value \in Nat /\ value <= td /\ ts - shares <= td - value
      /\ shares = ts => value = td
      /\ td * (ts - shares) <= (td - value) * ts
  BY <1>3, <1>4, <1>5, BurnKeepsBacking
<1>7. /\ SaturatingSub(ts, shares) = ts - shares
      /\ SaturatingSub(td, value) = td - value
      /\ SaturatingSub(miner[s][o].shares, shares) = miner[s][o].shares - shares
  BY <1>2, <1>3, <1>4, <1>6 DEF SaturatingSub
<1> QED
  BY <1>2, <1>4, <1>6, <1>7 DEF ts, td, value

LEMMA BurnPoolInv ==
    ASSUME PoolInv, NEW o \in Owner, NEW s \in Stope, NEW shares \in U64 \ {0},
           BurnShares(o, s, shares)
    PROVE  PoolInv'
<1> DEFINE ts == stope[s].total_shares
           td == stope[s].total_deposits
           value == RedemptionValue(s, shares)
<1>1. TypeOK /\ TypeOK'
  BY BurnTypeOK DEF PoolInv
<1>2. /\ OthersUnchanged(o, s)
      /\ stope'[s].miner_count = stope[s].miner_count
      /\ miner'[s][o].opened = miner[s][o].opened
  <2>1. Redeemed(o, s, shares)
    BY <1>1, BurnEffect
  <2> QED BY <2>1 DEF Redeemed
<1>3. /\ shares <= ts /\ value <= td
      /\ stope'[s].total_shares = ts - shares
      /\ stope'[s].total_deposits = td - value
      /\ miner'[s][o].shares = miner[s][o].shares - shares
      /\ ts - shares <= td - value
      /\ shares = ts => value = td
  BY BurnIsExact
<1>4. /\ ts \in Nat /\ td \in Nat /\ shares \in Nat /\ value \in Nat
      /\ miner[s][o].shares \in Nat /\ stope[s].miner_count \in Nat
  <2>1. value \in U64
    BY DEF BurnShares, CanBurn
  <2> QED BY <1>1, <2>1, PoolTypes, Widths
<1> HIDE DEF value
<1>5. PoolMatchesPositions'
  <2> SUFFICES ASSUME NEW t \in Stope
               PROVE  /\ Total(SharesOf(t), NumOwners)' = stope'[t].total_shares
                      /\ Total(OpenedIn(t), NumOwners)' = stope'[t].miner_count
    BY DEF PoolMatchesPositions
  <2>1. /\ Total(SharesOf(t), NumOwners) = stope[t].total_shares
        /\ Total(OpenedIn(t), NumOwners) = stope[t].miner_count
    BY DEF PoolInv, PoolMatchesPositions
  <2>2. CASE t = s
    <3>1. /\ Total(SharesOf(s), NumOwners)' = ts + miner'[s][o].shares
                                                 - miner[s][o].shares
          /\ Total(OpenedIn(s), NumOwners)' = stope[s].miner_count
                + (IF miner'[s][o].opened THEN 1 ELSE 0)
                - (IF miner[s][o].opened THEN 1 ELSE 0)
      BY <1>1, <1>2, <2>1, <2>2, TotalsFollowPosition
    <3> QED BY <1>2, <1>3, <1>4, <2>2, <3>1
  <2>3. CASE t # s
    BY <1>2, <2>1, <2>3, TotalsOfOthers DEF OthersUnchanged
  <2> QED BY <2>2, <2>3
<1>6. ShareNeverUnderwater'
  <2>1. ASSUME NEW t \in Stope, t # s
        PROVE  /\ stope'[t].total_shares <= stope'[t].total_deposits
               /\ stope'[t].total_shares = 0 => stope'[t].total_deposits = 0
    BY <1>2, <2>1 DEF OthersUnchanged, PoolInv, ShareNeverUnderwater
  <2>2. /\ stope'[s].total_shares <= stope'[s].total_deposits
        /\ stope'[s].total_shares = 0 => stope'[s].total_deposits = 0
    BY <1>3, <1>4
  <2> QED BY <2>1, <2>2 DEF ShareNeverUnderwater
<1> QED
  BY <1>1, <1>5, <1>6 DEF PoolInv

LEMMA NextPoolInv == PoolInv /\ [Next]_vars => PoolInv'
<1> SUFFICES ASSUME PoolInv, [Next]_vars PROVE PoolInv'
  OBVIOUS
<1>1. CASE UNCHANGED vars
  BY <1>1 DEF vars, PoolInv, TypeOK, PoolMatchesPositions, SharesOf, OpenedIn,
              ShareNeverUnderwater
<1>2. ASSUME NEW s \in Stope, NEW amount \in U64 \ {0}, NEW o \in Owner,
             MintShares(o, s, amount)
      PROVE  PoolInv'
  BY <1>2, MintPoolInv
<1>3. ASSUME NEW s \in Stope, NEW amount \in U64 \ {0}, NEW o \in Owner,
             BurnShares(o, s, amount)
      PROVE  PoolInv'
  BY <1>3, BurnPoolInv
<1>4. ASSUME NEW s \in Stope, NEW amount \in U64 \ {0}, NEW kind \in SeamKinds,
             BookYield(s, kind, amount)
      PROVE  PoolInv'
  BY <1>4, BookPoolInv
<1> QED
  BY <1>1, <1>2, <1>3, <1>4 DEF Next

LEMMA PoolInvariant == Spec => []PoolInv
BY InitPoolInv, NextPoolInv, PTL DEF Spec

(***************************************************************************)
(* total_shares and miner_count are exactly what the positions add up to.  *)
(***************************************************************************)
THEOREM PoolAlwaysMatchesPositions == Spec => []PoolMatchesPositions
BY PoolInvariant, PTL DEF PoolInv

(***************************************************************************)
(* A share is always backed by at least one unit, and principal is left    *)
(* exactly while shares are.                                               *)
(***************************************************************************)
THEOREM BackingNeverLost == Spec => []ShareNeverUnderwater
BY PoolInvariant, PTL DEF PoolInv

-----------------------------------------------------------------------------
(***************************************************************************)
(* Rounding never works against the holders that stay: the value of a      *)
(* share, total_deposits / total_shares, never falls.                      *)
(***************************************************************************)
PriceKept(s) ==
    (stope[s].total_shares > 0 /\ stope'[s].total_shares > 0) =>
        stope[s].total_deposits * stope'[s].total_shares
            <= stope'[s].total_deposits * stope[s].total_shares

LEMMA MintKeepsPrice ==
    ASSUME PoolInv, NEW o \in Owner, NEW s \in Stope, NEW normalized \in U64,
           MintShares(o, s, normalized), stope[s].total_shares > 0
    PROVE  PriceKept(s)
<1> DEFINE ts == stope[s].total_shares
           td == stope[s].total_deposits
           minted == SharesFor(stope[s], normalized)
<1>1. /\ stope'[s].total_shares = ts + minted
      /\ stope'[s].total_deposits = td + normalized
  <2>1. TypeOK
    BY DEF PoolInv
  <2>2. Minted(o, s, normalized)
    BY <2>1, MintEffect
  <2> QED BY <2>2 DEF Minted
<1>2. ts \in Nat /\ td \in Nat /\ normalized \in Nat /\ 0 < ts /\ ts <= td
  BY PoolTypes, Widths DEF PoolInv, ShareNeverUnderwater
<1>3. minted = MulDivFloor(normalized, ts, td)
  BY <1>2 DEF SharesFor
<1> HIDE DEF ts, td, minted
<1>4. minted \in Nat /\ td * minted <= normalized * ts
  BY <1>2, <1>3, MintKeepsBacking
<1>5. td * (ts + minted) <= (td + normalized) * ts
  BY <1>2, <1>4, SMT
<1> QED
  BY <1>1, <1>5 DEF PriceKept, ts, td

LEMMA BookKeepsPrice ==
    ASSUME PoolInv, NEW s \in Stope, NEW kind \in YieldKind, NEW normalized \in U64,
           BookYield(s, kind, normalized)
    PROVE  PriceKept(s)
<1> DEFINE ts == stope[s].total_shares
           td == stope[s].total_deposits
<1>1. stope'[s].total_shares = ts /\ stope'[s].total_deposits = td + normalized
  <2>1. TypeOK
    BY DEF PoolInv
  <2>2. Booked(s, kind, normalized)
    BY <2>1, BookEffect
  <2> QED BY <2>2 DEF Booked
<1>2. ts \in Nat /\ td \in Nat /\ normalized \in Nat
  BY PoolTypes, Widths DEF PoolInv
<1> HIDE DEF ts, td
<1>3. td * ts <= (td + normalized) * ts
  BY <1>2, SMT
<1> QED
  BY <1>1, <1>3 DEF PriceKept, ts, td

LEMMA NextKeepsPrice ==
    PoolInv /\ [Next]_vars =>
        [\A s \in Stope :
            (stope[s].total_shares > 0 /\ stope'[s].total_shares > 0) =>
                stope[s].total_deposits * stope'[s].total_shares
                    <= stope'[s].total_deposits * stope[s].total_shares]_vars
<1> SUFFICES ASSUME PoolInv, Next, NEW t \in Stope,
                    stope[t].total_shares > 0, stope'[t].total_shares > 0
             PROVE  PriceKept(t)
  BY DEF PriceKept
<1>1. TypeOK
  BY DEF PoolInv
<1>2. stope[t].total_shares \in Nat /\ stope[t].total_deposits \in Nat
  BY <1>1, PoolTypes
<1>3. stope'[t] = stope[t] => PriceKept(t)
  <2>1. stope[t].total_deposits * stope[t].total_shares
            <= stope[t].total_deposits * stope[t].total_shares
    BY <1>2
  <2> QED BY <2>1 DEF PriceKept
<1>4. ASSUME NEW s \in Stope, NEW amount \in U64 \ {0}, NEW o \in Owner,
             MintShares(o, s, amount)
      PROVE  PriceKept(t)
  <2>1. OthersUnchanged(o, s)
    BY <1>1, <1>4, MintEffect DEF Minted
  <2> QED BY <1>3, <1>4, <2>1, MintKeepsPrice DEF OthersUnchanged
<1>5. ASSUME NEW s \in Stope, NEW amount \in U64 \ {0}, NEW o \in Owner,
             BurnShares(o, s, amount)
      PROVE  PriceKept(t)
  <2>1. OthersUnchanged(o, s)
    BY <1>1, <1>5, BurnEffect DEF Redeemed
  <2>2. t = s => PriceKept(t)
    BY <1>5, BurnIsExact DEF PriceKept
  <2> QED BY <1>3, <2>1, <2>2 DEF OthersUnchanged
<1>6. ASSUME NEW s \in Stope, NEW amount \in U64 \ {0}, NEW kind \in SeamKinds,
             BookYield(s, kind, amount)
      PROVE  PriceKept(t)
  <2>1. t # s => stope'[t] = stope[t]
    BY ZenonT(60), <1>1, <1>6, BookEffect DEF Booked
  <2> QED BY <1>3, <1>6, <2>1, BookKeepsPrice
<1> QED
  BY <1>4, <1>5, <1>6 DEF Next

(***************************************************************************)
(* No deposit, accrual or redemption lowers the value of a share that      *)
(* stays: every rounding goes to the holders that stay.                    *)
(***************************************************************************)
THEOREM SharePriceIsMonotone == Spec => SharePriceNeverFalls
BY PoolInvariant, NextKeepsPrice, PTL DEF Spec, SharePriceNeverFalls

-----------------------------------------------------------------------------
(***************************************************************************)
(* Attribution of yield.  The potential of a position is what it has been  *)
(* credited with, scaled, and what its shares earned since it was settled: *)
(* an accrual raises the sum of potentials by at most what it books, and a *)
(* settlement, which rounds down, never raises it.                         *)
(***************************************************************************)
Entitled(m, index, k) == m.accrued[k] + m.claimed[k] + Pending(m, index)[k]

Potential(m, index, k) ==
    (m.accrued[k] + m.claimed[k]) * YIELD_INDEX_SCALE
        + ScaledPending(m.shares, index[k], m.index_snapshot[k])

PotentialsOf(s, k) ==
    [o \in Owner |-> Potential(miner[s][o], stope[s].yield_index, k)]

YieldBacked ==
    \A s \in Stope, k \in YieldKind :
        Total(PotentialsOf(s, k), NumOwners)
            <= stope[s].realized[k] * YIELD_INDEX_SCALE

SnapshotsInThePast ==
    \A s \in Stope, o \in Owner, k \in YieldKind :
        miner[s][o].index_snapshot[k] <= stope[s].yield_index[k]

SharesAreOwned == \A s \in Stope, o \in Owner : miner[s][o].shares > 0 => miner[s][o].opened

YieldInv ==
    /\ PoolInv
    /\ YieldBacked
    /\ SnapshotsInThePast
    /\ SharesAreOwned
    /\ NoYieldWithoutShares

LEMMA ScaledFloor ==
    ASSUME NEW e \in Nat, NEW p \in Nat, NEW c \in Nat \ {0}
    PROVE  /\ e * c \in Nat
           /\ c * (e + p \div c) <= e * c + p
<1>1. p \div c \in Nat /\ c * (p \div c) <= p
  BY DivBounds
<1> DEFINE q == p \div c
<1> HIDE DEF q
<1>2. q \in Nat /\ c * q <= p
  BY <1>1 DEF q
<1>3. c * (e + q) = e * c + c * q /\ e * c \in Nat
  BY <1>2, SMT
<1>4. c * (e + q) <= e * c + p
  BY <1>2, <1>3, SMT
<1> QED
  BY <1>3, <1>4 DEF q

LEMMA PotentialFacts ==
    ASSUME NEW m \in MinerRecord, NEW index \in Indices, NEW k \in YieldKind
    PROVE  /\ m.accrued[k] \in Nat /\ m.claimed[k] \in Nat
           /\ Pending(m, index)[k] \in Nat
           /\ Entitled(m, index, k) \in Nat
           /\ Potential(m, index, k) \in Nat
           /\ ScaledPending(m.shares, index[k], m.index_snapshot[k]) \in Nat
           /\ ScaledPending(m.shares, index[k], m.index_snapshot[k])
                <= Potential(m, index, k)
           /\ YIELD_INDEX_SCALE * Entitled(m, index, k) <= Potential(m, index, k)
<1> DEFINE e == m.accrued[k] + m.claimed[k]
           p == ScaledPending(m.shares, index[k], m.index_snapshot[k])
<1>1. m.accrued[k] \in Nat /\ m.claimed[k] \in Nat
  BY Widths DEF MinerRecord, Balances
<1>2. /\ p \in Nat /\ Pending(m, index)[k] = p \div YIELD_INDEX_SCALE
      /\ Pending(m, index)[k] \in Nat
  BY PendingType DEF PendingFromIndex
<1>3. e \in Nat
  BY <1>1
<1>4. Entitled(m, index, k) = e + p \div YIELD_INDEX_SCALE
  BY <1>2 DEF Entitled
<1>5. Potential(m, index, k) = e * YIELD_INDEX_SCALE + p
  BY DEF Potential
<1> HIDE DEF e, p
<1>6. /\ e * YIELD_INDEX_SCALE \in Nat
      /\ YIELD_INDEX_SCALE * (e + p \div YIELD_INDEX_SCALE)
            <= e * YIELD_INDEX_SCALE + p
  BY <1>2, <1>3, ScaledFloor, Widths
<1>7. Entitled(m, index, k) \in Nat
  BY <1>1, <1>2 DEF Entitled
<1>8. p <= Potential(m, index, k) /\ Potential(m, index, k) \in Nat
  BY <1>2, <1>5, <1>6
<1>9. YIELD_INDEX_SCALE * Entitled(m, index, k) <= Potential(m, index, k)
  BY <1>4, <1>5, <1>6, Zenon
<1> QED
  BY <1>1, <1>2, <1>7, <1>8, <1>9 DEF p

(***************************************************************************)
(* A settled position: everything it is entitled to is credited, and       *)
(* nothing is pending.                                                     *)
(***************************************************************************)
LEMMA SettledPotential ==
    ASSUME NEW m \in MinerRecord, NEW index \in Indices, NEW k \in YieldKind,
           m.index_snapshot[k] = index[k]
    PROVE  /\ Entitled(m, index, k) = m.accrued[k] + m.claimed[k]
           /\ Potential(m, index, k) = YIELD_INDEX_SCALE * (m.accrued[k] + m.claimed[k])
<1>1. m.shares \in Nat /\ index[k] \in Nat
  BY Widths DEF MinerRecord, Indices
<1>2. ScaledPending(m.shares, index[k], m.index_snapshot[k]) = 0
  BY <1>1 DEF ScaledPending, SaturatingSub
<1>3. Pending(m, index)[k] = 0
  <2>1. 0 \div YIELD_INDEX_SCALE = 0
    <3>1. YIELD_INDEX_SCALE \in Nat /\ YIELD_INDEX_SCALE > 0
      BY Widths
    <3> QED BY <3>1, SMT
  <2> QED BY <1>2, <2>1 DEF Pending, PendingFromIndex
<1>4. m.accrued[k] + m.claimed[k] \in Nat
  BY PotentialFacts
<1> DEFINE e == m.accrued[k] + m.claimed[k]
<1>5. Potential(m, index, k) = e * YIELD_INDEX_SCALE + 0
  BY <1>2 DEF Potential
<1>6. Entitled(m, index, k) = e + 0
  BY <1>3 DEF Entitled
<1> HIDE DEF e
<1>7. e \in Nat
  BY <1>4 DEF e
<1>8. e * YIELD_INDEX_SCALE + 0 = YIELD_INDEX_SCALE * e /\ e + 0 = e
  BY <1>7, Widths, SMT
<1> QED
  BY <1>5, <1>6, <1>8 DEF e

(***************************************************************************)
(* A deposit and a redemption settle one position and move no yield.       *)
(***************************************************************************)
Settles(o, s) ==
    /\ OthersUnchanged(o, s)
    /\ YieldBooksUnchanged(s)
    /\ miner'[s][o].index_snapshot = stope[s].yield_index
    /\ \A k \in YieldKind : miner'[s][o].accrued[k] + miner'[s][o].claimed[k]
            = Entitled(miner[s][o], stope[s].yield_index, k)

LEMMA RecordTypes ==
    ASSUME TypeOK, NEW s \in Stope, NEW o \in Owner
    PROVE  miner[s][o] \in MinerRecord /\ stope[s].yield_index \in Indices
           /\ stope[s].realized \in Balances
BY DEF TypeOK, PoolRecord

LEMMA MintSettles ==
    ASSUME TypeOK, NEW o \in Owner, NEW s \in Stope, NEW normalized \in U64,
           MintShares(o, s, normalized)
    PROVE  Settles(o, s)
<1> DEFINE m == miner[s][o]
           index == stope[s].yield_index
<1>1. Minted(o, s, normalized)
  BY MintEffect
<1>2. m \in MinerRecord /\ index \in Indices
  BY RecordTypes
<1>3. /\ OthersUnchanged(o, s) /\ YieldBooksUnchanged(s)
      /\ miner'[s][o].accrued = Settled(m, index).accrued
      /\ miner'[s][o].claimed = Settled(m, index).claimed
      /\ miner'[s][o].index_snapshot = Settled(m, index).index_snapshot
  BY <1>1 DEF Minted
<1> HIDE DEF m, index
<1>4. /\ Settled(m, index).claimed = m.claimed
      /\ Settled(m, index).index_snapshot = index
      /\ Settled(m, index).accrued =
            [k \in YieldKind |-> m.accrued[k] + Pending(m, index)[k]]
  BY <1>2, SettledFields
<1>5. ASSUME NEW k \in YieldKind
      PROVE  miner'[s][o].accrued[k] + miner'[s][o].claimed[k] = Entitled(m, index, k)
  <2>1. /\ m.accrued[k] \in Nat /\ m.claimed[k] \in Nat /\ Pending(m, index)[k] \in Nat
    BY <1>2, PotentialFacts
  <2>2. miner'[s][o].accrued[k] = m.accrued[k] + Pending(m, index)[k]
    BY <1>3, <1>4
  <2> QED BY <1>3, <1>4, <2>1, <2>2 DEF Entitled
<1> QED
  BY <1>3, <1>4, <1>5 DEF Settles, m, index

(***************************************************************************)
(* The part of the yield that leaves with some of a position's shares.     *)
(***************************************************************************)
LEMMA PartOfWhole ==
    ASSUME NEW a \in Nat, NEW n \in Nat, NEW m \in Nat, m > 0, n <= m
    PROVE  /\ MulDivFloor(a, n, m) \in 0..a
           /\ n = m => MulDivFloor(a, n, m) = a
<1> DEFINE q == MulDivFloor(a, n, m)
<1>1. q \in Nat /\ m * q <= a * n /\ a * n < m * q + m
  BY MulDivFloorBounds
<1> HIDE DEF q
<1>2. a * n <= a * m
  BY SMT
<1>3. m * q <= m * a
  BY <1>1, <1>2, SMT
<1>4. q <= a
  BY <1>1, <1>3, SMT
<1>5. ASSUME n = m PROVE q = a
  <2>1. m * a < m * q + m
    BY <1>1, <1>5, SMT
  <2>2. m * a < m * (q + 1)
    BY <1>1, <2>1, SMT
  <2>3. a < q + 1
    BY <1>1, <2>2, SMT
  <2> QED BY <1>1, <1>4, <2>3
<1> QED
  BY <1>1, <1>4, <1>5 DEF q

Earned(m, index, k) == m.accrued[k] + Pending(m, index)[k]

LEMMA SettledEarned ==
    ASSUME NEW m \in MinerRecord, NEW index \in Indices, NEW k \in YieldKind
    PROVE  /\ Settled(m, index).accrued[k] = Earned(m, index, k)
           /\ Settled(m, index).shares = m.shares
           /\ Earned(m, index, k) \in Nat
           /\ Entitled(m, index, k) = Earned(m, index, k) + m.claimed[k]
<1>1. /\ Settled(m, index).shares = m.shares
      /\ Settled(m, index).accrued = [j \in YieldKind |->
                                m.accrued[j] + Pending(m, index)[j]]
  BY SettledFields
<1>2. Settled(m, index).accrued[k] = m.accrued[k] + Pending(m, index)[k]
  BY <1>1
<1>3. /\ m.accrued[k] \in Nat /\ Pending(m, index)[k] \in Nat
      /\ m.claimed[k] \in Nat
  BY PotentialFacts
<1> QED
  BY <1>1, <1>2, <1>3 DEF Earned, Entitled

LEMMA ClaimedIsPart ==
    ASSUME TypeOK, NEW o \in Owner, NEW s \in Stope,
           NEW shares \in Nat, shares <= miner[s][o].shares, shares > 0,
           NEW k \in YieldKind
    PROVE  /\ ClaimedYield(o, s, shares)[k]
                    \in 0..Earned(miner[s][o], stope[s].yield_index, k)
           /\ shares = miner[s][o].shares => ClaimedYield(o, s, shares)[k]
                    = Earned(miner[s][o], stope[s].yield_index, k)
<1> DEFINE m == miner[s][o]
           index == stope[s].yield_index
           a == Earned(m, index, k)
<1>1. m \in MinerRecord /\ index \in Indices
  BY RecordTypes
<1>2. ClaimedYield(o, s, shares)[k]
        = MulDivFloor(Settled(m, index).accrued[k], shares, Settled(m, index).shares)
  BY DEF ClaimedYield
<1>3. shares <= m.shares
  OBVIOUS
<1> HIDE DEF m, index
<1>4. m.shares \in Nat /\ m.shares > 0
  <2>1. m.shares \in Nat
    BY <1>1, Widths DEF MinerRecord
  <2> QED BY <1>3, <2>1
<1>5. /\ Settled(m, index).accrued[k] = a /\ Settled(m, index).shares = m.shares
      /\ a \in Nat
  BY <1>1, SettledEarned
<1> HIDE DEF a
<1>6. /\ MulDivFloor(a, shares, m.shares) \in 0..a
      /\ shares = m.shares => MulDivFloor(a, shares, m.shares) = a
  BY <1>3, <1>4, <1>5, PartOfWhole
<1>7. ClaimedYield(o, s, shares)[k] = MulDivFloor(a, shares, m.shares)
  BY <1>2, <1>5
<1> QED
  BY <1>6, <1>7 DEF a, m, index

LEMMA BurnSettles ==
    ASSUME TypeOK, NEW o \in Owner, NEW s \in Stope, NEW shares \in U64 \ {0},
           BurnShares(o, s, shares)
    PROVE  /\ Settles(o, s)
           /\ shares = miner[s][o].shares =>
                \A k \in YieldKind : miner'[s][o].accrued[k] = 0
<1> DEFINE m == miner[s][o]
           index == stope[s].yield_index
           taken == ClaimedYield(o, s, shares)
<1>1. Redeemed(o, s, shares)
  BY BurnEffect
<1>2. m \in MinerRecord /\ index \in Indices
  BY RecordTypes
<1>3. /\ OthersUnchanged(o, s) /\ YieldBooksUnchanged(s)
      /\ shares <= m.shares
      /\ miner'[s][o].accrued = [k \in YieldKind |->
            SaturatingSub(Settled(m, index).accrued[k], taken[k])]
      /\ miner'[s][o].claimed = [k \in YieldKind |->
            Settled(m, index).claimed[k] + taken[k]]
      /\ miner'[s][o].index_snapshot = Settled(m, index).index_snapshot
  BY <1>1 DEF Redeemed
<1>4. ASSUME NEW k \in YieldKind
      PROVE  /\ taken[k] \in 0..Earned(m, index, k)
             /\ shares = m.shares => taken[k] = Earned(m, index, k)
  <2>1. shares \in Nat /\ shares > 0
    BY Widths
  <2> QED BY <1>3, <2>1, ClaimedIsPart
<1> HIDE DEF m, index, taken
<1>5. /\ Settled(m, index).claimed = m.claimed
      /\ Settled(m, index).index_snapshot = index
  BY <1>2, SettledFields
<1>6. ASSUME NEW k \in YieldKind
      PROVE  /\ miner'[s][o].accrued[k] + miner'[s][o].claimed[k]
                    = Entitled(m, index, k)
             /\ shares = m.shares => miner'[s][o].accrued[k] = 0
  <2> DEFINE a == Earned(m, index, k)
             c == m.claimed[k]
             t == taken[k]
  <2>1. /\ a \in Nat /\ Entitled(m, index, k) = a + c
        /\ Settled(m, index).accrued[k] = a
    BY <1>2, SettledEarned
  <2>2. c \in Nat
    BY <1>2, PotentialFacts
  <2>3. /\ miner'[s][o].accrued[k] = SaturatingSub(a, t)
        /\ miner'[s][o].claimed[k] = c + t
    <3> HIDE DEF a
    <3> QED BY <1>3, <1>5, <2>1
  <2>4. t \in 0..a /\ (shares = m.shares => t = a)
    BY <1>4
  <2> HIDE DEF a, c, t
  <2> QED BY <2>1, <2>2, <2>3, <2>4 DEF SaturatingSub
<1> QED
  BY <1>3, <1>5, <1>6 DEF Settles, m, index

(***************************************************************************)
(* A settlement, of one position, changes nobody's entitlement; what it    *)
(* rounds off is what the potential of that position loses.                *)
(***************************************************************************)
LEMMA SettlingKeeps ==
    ASSUME TypeOK, TypeOK', NEW o \in Owner, NEW s \in Stope, Settles(o, s),
           NEW p \in Owner, NEW k \in YieldKind
    PROVE  /\ Entitled(miner'[s][p], stope'[s].yield_index, k)
                = Entitled(miner[s][p], stope[s].yield_index, k)
           /\ Potential(miner'[s][p], stope'[s].yield_index, k)
                <= Potential(miner[s][p], stope[s].yield_index, k)
<1> DEFINE m  == miner[s][p]
           mn == miner'[s][p]
           index == stope[s].yield_index
<1>1. m \in MinerRecord /\ index \in Indices
  BY RecordTypes
<1>2. mn \in MinerRecord
  BY DEF TypeOK
<1>3. stope'[s].yield_index = index
  BY DEF Settles, YieldBooksUnchanged
<1>4. /\ p # o => mn = m
      /\ p = o => /\ mn.index_snapshot = index
                  /\ mn.accrued[k] + mn.claimed[k] = Entitled(m, index, k)
  BY DEF Settles, OthersUnchanged
<1> HIDE DEF m, mn, index
<1>5. CASE p # o
  <2>1. Potential(m, index, k) \in Nat
    BY <1>1, PotentialFacts
  <2>2. mn = m
    BY <1>4, <1>5
  <2>3. Potential(m, index, k) <= Potential(m, index, k)
    BY <2>1
  <2> QED BY <1>3, <2>2, <2>3 DEF m, mn, index
<1>6. CASE p = o
  <2>1. mn.index_snapshot[k] = index[k]
    BY <1>4, <1>6
  <2>2. /\ Entitled(mn, index, k) = Entitled(m, index, k)
        /\ Potential(mn, index, k) = YIELD_INDEX_SCALE * Entitled(m, index, k)
    BY <1>1, <1>2, <1>4, <1>6, <2>1, SettledPotential
  <2>3. YIELD_INDEX_SCALE * Entitled(m, index, k) <= Potential(m, index, k)
    BY <1>1, PotentialFacts
  <2> QED BY <1>3, <2>2, <2>3 DEF m, mn, index
<1> QED
  BY <1>5, <1>6

(***************************************************************************)
(* An accrual raises the index of its kind by delta: each position earns   *)
(* delta per share, and gains no more than that.                           *)
(***************************************************************************)
LEMMA ScaledPendingGrows ==
    ASSUME NEW shares \in Nat, NEW now \in Nat, NEW snap \in Nat, NEW d \in Nat,
           snap <= now
    PROVE  ScaledPending(shares, now + d, snap)
                = ScaledPending(shares, now, snap) + d * shares
<1>1. /\ SaturatingSub(now, snap) = now - snap
      /\ SaturatingSub(now + d, snap) = (now - snap) + d
  BY DEF SaturatingSub
<1> DEFINE e == now - snap
<1>2. e \in Nat
  OBVIOUS
<1> HIDE DEF e
<1>3. shares * (e + d) = shares * e + d * shares
  BY <1>2, SMT
<1> QED
  BY <1>1, <1>3 DEF ScaledPending, e

LEMMA IndexRises ==
    ASSUME NEW m \in MinerRecord, NEW index \in Indices, NEW next \in Indices,
           NEW k \in YieldKind, NEW d \in Nat,
           next[k] = index[k] + d, m.index_snapshot[k] <= index[k]
    PROVE  /\ Potential(m, next, k) = Potential(m, index, k) + d * m.shares
           /\ Entitled(m, index, k) <= Entitled(m, next, k)
<1> DEFINE e == m.accrued[k] + m.claimed[k]
           p == ScaledPending(m.shares, index[k], m.index_snapshot[k])
           n == ScaledPending(m.shares, next[k], m.index_snapshot[k])
<1>1. m.shares \in Nat /\ index[k] \in Nat /\ m.index_snapshot[k] \in Nat
  BY Widths DEF MinerRecord, Indices
<1>2. n = p + d * m.shares
  BY <1>1, ScaledPendingGrows
<1>3. /\ Pending(m, index)[k] = p \div YIELD_INDEX_SCALE
      /\ Pending(m, next)[k] = n \div YIELD_INDEX_SCALE
  BY PendingType DEF PendingFromIndex
<1>4. /\ p \in Nat /\ m.accrued[k] \in Nat /\ m.claimed[k] \in Nat
      /\ Pending(m, index)[k] \in Nat /\ Pending(m, next)[k] \in Nat
  BY PotentialFacts
<1>5. /\ Potential(m, index, k) = e * YIELD_INDEX_SCALE + p
      /\ Potential(m, next, k) = e * YIELD_INDEX_SCALE + n
  BY DEF Potential
<1>6. e \in Nat
  BY <1>4
<1> HIDE DEF e, p, n
<1>7. d * m.shares \in Nat
  BY <1>1, SMT
<1>8. e * YIELD_INDEX_SCALE \in Nat
  BY <1>6, Widths, SMT
<1>9. Potential(m, next, k) = Potential(m, index, k) + d * m.shares
  <2> DEFINE x == d * m.shares
             y == e * YIELD_INDEX_SCALE
  <2> HIDE DEF x, y
  <2>1. y + (p + x) = (y + p) + x
    BY <1>4, <1>7, <1>8 DEF x, y, p
  <2> QED BY <1>2, <1>5, <2>1 DEF x, y
<1>10. p \div YIELD_INDEX_SCALE <= n \div YIELD_INDEX_SCALE
  <2>1. p \in Nat /\ n \in Nat /\ p <= n
    BY <1>2, <1>4, <1>7 DEF p
  <2> QED BY <2>1, QuotientMonotone, Widths
<1>11. Entitled(m, index, k) <= Entitled(m, next, k)
  <2>1. Pending(m, index)[k] <= Pending(m, next)[k]
    BY <1>3, <1>10 DEF p, n
  <2> QED BY <1>4, <2>1 DEF Entitled
<1> QED
  BY <1>9, <1>11

LEMMA PotentialsType ==
    ASSUME TypeOK, NEW s \in Stope, NEW k \in YieldKind
    PROVE  PotentialsOf(s, k) \in [1..NumOwners -> Nat]
<1>1. \A o \in Owner : Potential(miner[s][o], stope[s].yield_index, k) \in Nat
  <2> TAKE o \in Owner
  <2>1. miner[s][o] \in MinerRecord /\ stope[s].yield_index \in Indices
    BY RecordTypes
  <2> QED BY <2>1, PotentialFacts
<1> QED
  BY <1>1 DEF PotentialsOf, Owner

(***************************************************************************)
(* If every position gains at most d per share, the sum of the potentials  *)
(* gains at most d for each share of the pool.                             *)
(***************************************************************************)
LEMMA TotalPotential ==
    ASSUME TypeOK, TypeOK', PoolMatchesPositions,
           NEW s \in Stope, NEW k \in YieldKind, NEW d \in Nat,
           \A p \in Owner :
                Potential(miner'[s][p], stope'[s].yield_index, k)
                    <= Potential(miner[s][p], stope[s].yield_index, k)
                                + d * miner[s][p].shares
    PROVE  /\ Total(PotentialsOf(s, k), NumOwners) \in Nat
           /\ Total(PotentialsOf(s, k), NumOwners)' \in Nat
           /\ Total(PotentialsOf(s, k), NumOwners)'
                <= Total(PotentialsOf(s, k), NumOwners) + d * stope[s].total_shares
<1> DEFINE f == PotentialsOf(s, k)
           h == SharesOf(s)
           g == [p \in Owner |-> Potential(miner'[s][p], stope'[s].yield_index, k)]
<1>1. f \in [1..NumOwners -> Nat] /\ h \in [1..NumOwners -> Nat]
  BY PotentialsType, PoolTypes
<1>2. g \in [1..NumOwners -> Nat]
  <2>1. stope'[s].yield_index \in Indices
    BY DEF TypeOK, PoolRecord
  <2>2. \A p \in Owner : Potential(miner'[s][p], stope'[s].yield_index, k) \in Nat
    <3> TAKE p \in Owner
    <3>1. miner'[s][p] \in MinerRecord
      BY DEF TypeOK
    <3> QED BY <2>1, <3>1, PotentialFacts
  <2> QED BY <2>2 DEF Owner
<1>3. PotentialsOf(s, k)' = g
  BY DEF PotentialsOf
<1>4. \A p \in 1..NumOwners : g[p] <= f[p] + d * h[p]
  BY DEF PotentialsOf, SharesOf, Owner
<1>5. Total(h, NumOwners) = stope[s].total_shares
  BY DEF PoolMatchesPositions
<1>6. Total(PotentialsOf(s, k), NumOwners)' = Total(g, NumOwners)
  BY <1>3
<1> HIDE DEF f, g, h
<1>7. \A p \in 1..NumOwners : 1 * g[p] <= f[p] + d * h[p]
  <2> TAKE p \in 1..NumOwners
  <2>1. g[p] \in Nat
    BY <1>2
  <2>2. 1 * g[p] = g[p]
    BY <2>1
  <2> QED BY <1>4, <2>2
<1>8. 1 * Total(g, NumOwners) <= Total(f, NumOwners) + d * Total(h, NumOwners)
  BY <1>1, <1>2, <1>7, TotalsInequality
<1>9. Total(f, NumOwners) \in Nat /\ Total(g, NumOwners) \in Nat
  BY <1>1, <1>2, TotalType
<1>10. Total(g, NumOwners) <= Total(f, NumOwners) + d * Total(h, NumOwners)
  <2>1. 1 * Total(g, NumOwners) = Total(g, NumOwners)
    BY <1>9
  <2> QED BY <1>8, <2>1
<1> QED
  BY <1>5, <1>6, <1>9, <1>10 DEF f

(***************************************************************************)
(* A stope that a step leaves alone.                                       *)
(***************************************************************************)
StopeUntouched(t) == stope'[t] = stope[t] /\ miner'[t] = miner[t]

YieldKept(t) ==
    /\ \A k \in YieldKind :
            Total(PotentialsOf(t, k), NumOwners)'
                <= stope'[t].realized[k] * YIELD_INDEX_SCALE
    /\ \A o \in Owner, k \in YieldKind :
            miner'[t][o].index_snapshot[k] <= stope'[t].yield_index[k]
    /\ \A o \in Owner :
            /\ miner'[t][o].shares > 0 => miner'[t][o].opened
            /\ miner'[t][o].shares = 0 => miner'[t][o].accrued = NoYield

EntitlementsMoveOnAccrual(t) ==
    \A o \in Owner, k \in YieldKind :
        IF stope'[t].realized[k] = stope[t].realized[k]
        THEN Entitlement(o, t, k)' = Entitlement(o, t, k)
        ELSE Entitlement(o, t, k)' >= Entitlement(o, t, k)

LEMMA UntouchedKeepsYield ==
    ASSUME YieldInv, NEW t \in Stope, StopeUntouched(t)
    PROVE  YieldKept(t) /\ EntitlementsMoveOnAccrual(t)
<1>1. \A k \in YieldKind : PotentialsOf(t, k)' = PotentialsOf(t, k)
  BY DEF PotentialsOf, StopeUntouched
<1>2. \A o \in Owner, k \in YieldKind : Entitlement(o, t, k)' = Entitlement(o, t, k)
  BY DEF Entitlement, StopeUntouched
<1>3. \A k \in YieldKind : Total(PotentialsOf(t, k), NumOwners)'
            <= stope'[t].realized[k] * YIELD_INDEX_SCALE
  BY <1>1 DEF StopeUntouched, YieldInv, YieldBacked
<1>4. \A o \in Owner, k \in YieldKind :
            miner'[t][o].index_snapshot[k] <= stope'[t].yield_index[k]
  BY DEF StopeUntouched, YieldInv, SnapshotsInThePast
<1>5. \A o \in Owner :
            /\ miner'[t][o].shares > 0 => miner'[t][o].opened
            /\ miner'[t][o].shares = 0 => miner'[t][o].accrued = NoYield
  BY DEF StopeUntouched, YieldInv, SharesAreOwned, NoYieldWithoutShares
<1>6. EntitlementsMoveOnAccrual(t)
  BY <1>2 DEF EntitlementsMoveOnAccrual, StopeUntouched
<1> QED
  BY <1>3, <1>4, <1>5, <1>6 DEF YieldKept

LEMMA EntitlementIs ==
    \A o \in Owner, s \in Stope, k \in YieldKind :
        /\ Entitlement(o, s, k) = Entitled(miner[s][o], stope[s].yield_index, k)
        /\ Entitlement(o, s, k)' = Entitled(miner'[s][o], stope'[s].yield_index, k)
BY DEF Entitlement, Entitled

LEMMA SettlingKeepsYield ==
    ASSUME YieldInv, TypeOK', NEW o \in Owner, NEW s \in Stope, Settles(o, s),
           miner'[s][o].shares > 0 => miner'[s][o].opened,
           miner'[s][o].shares = 0 => miner'[s][o].accrued = NoYield
    PROVE  YieldKept(s) /\ EntitlementsMoveOnAccrual(s)
<1>1. TypeOK /\ PoolMatchesPositions
  BY DEF YieldInv, PoolInv
<1>2. ASSUME NEW k \in YieldKind
      PROVE  Total(PotentialsOf(s, k), NumOwners)'
                <= stope'[s].realized[k] * YIELD_INDEX_SCALE
  <2>1. ASSUME NEW p \in Owner
        PROVE  Potential(miner'[s][p], stope'[s].yield_index, k)
                  <= Potential(miner[s][p], stope[s].yield_index, k)
                                + 0 * miner[s][p].shares
    <3>1. Potential(miner'[s][p], stope'[s].yield_index, k)
                  <= Potential(miner[s][p], stope[s].yield_index, k)
      BY <1>1, SettlingKeeps
    <3>2. Potential(miner[s][p], stope[s].yield_index, k) \in Nat
      BY <1>1, RecordTypes, PotentialFacts
    <3>3. 0 * miner[s][p].shares = 0
      BY <1>1, PoolTypes
    <3> QED BY <3>1, <3>2, <3>3
  <2> DEFINE T == Total(PotentialsOf(s, k), NumOwners)
  <2>2. T \in Nat /\ T' \in Nat /\ T' <= T + 0 * stope[s].total_shares
    BY <1>1, <2>1, TotalPotential
  <2>3. 0 * stope[s].total_shares = 0
    BY <1>1, PoolTypes
  <2>4. T <= stope[s].realized[k] * YIELD_INDEX_SCALE
    BY DEF YieldInv, YieldBacked
  <2>5. stope'[s].realized[k] = stope[s].realized[k]
    BY DEF Settles, YieldBooksUnchanged
  <2>6. stope[s].realized[k] \in Nat
    BY <1>1, RecordTypes, Widths DEF Balances
  <2> DEFINE b == stope[s].realized[k] * YIELD_INDEX_SCALE
  <2>7. b \in Nat
    BY <2>6, Widths, SMT
  <2>8. stope'[s].realized[k] * YIELD_INDEX_SCALE = b
    BY <2>5
  <2> HIDE DEF T, b
  <2>9. T' <= b
    BY <2>2, <2>3, <2>4, <2>7 DEF b
  <2> QED BY <2>8, <2>9 DEF T
<1>3. ASSUME NEW p \in Owner, NEW k \in YieldKind
      PROVE  miner'[s][p].index_snapshot[k] <= stope'[s].yield_index[k]
  <2>1. stope'[s].yield_index = stope[s].yield_index
    BY DEF Settles, YieldBooksUnchanged
  <2>2. CASE p = o
    <3>1. stope[s].yield_index[k] \in Nat
      BY <1>1, RecordTypes, Widths DEF Indices
    <3>2. stope[s].yield_index[k] <= stope[s].yield_index[k]
      BY <3>1
    <3>3. miner'[s][p].index_snapshot = stope[s].yield_index
      BY <2>2 DEF Settles
    <3> QED BY <2>1, <3>2, <3>3
  <2>3. CASE p # o
    <3>1. miner'[s][p] = miner[s][p]
      BY <2>3 DEF Settles, OthersUnchanged
    <3> QED BY <2>1, <3>1 DEF YieldInv, SnapshotsInThePast
  <2> QED BY <2>2, <2>3
<1>4. ASSUME NEW p \in Owner
      PROVE  /\ miner'[s][p].shares > 0 => miner'[s][p].opened
             /\ miner'[s][p].shares = 0 => miner'[s][p].accrued = NoYield
  <2>1. CASE p # o
    <3>1. miner'[s][p] = miner[s][p]
      BY <2>1 DEF Settles, OthersUnchanged
    <3> QED BY <3>1 DEF YieldInv, SharesAreOwned, NoYieldWithoutShares
  <2> QED BY <2>1
<1>5. EntitlementsMoveOnAccrual(s)
  <2> SUFFICES ASSUME NEW p \in Owner, NEW k \in YieldKind
               PROVE  Entitlement(p, s, k)' = Entitlement(p, s, k)
                      /\ stope'[s].realized[k] = stope[s].realized[k]
    BY DEF EntitlementsMoveOnAccrual
  <2>1. Entitled(miner'[s][p], stope'[s].yield_index, k)
            = Entitled(miner[s][p], stope[s].yield_index, k)
    BY <1>1, SettlingKeeps
  <2>2. stope'[s].realized[k] = stope[s].realized[k]
    BY DEF Settles, YieldBooksUnchanged
  <2> QED BY <2>1, <2>2, EntitlementIs
<1> QED
  BY <1>2, <1>3, <1>4, <1>5 DEF YieldKept

(***************************************************************************)
(* What accrue books, scaled, covers what the index hands to the shares.   *)
(***************************************************************************)
LEMMA DeltaCovered ==
    ASSUME NEW amount \in Nat, NEW ts \in Nat \ {0}, NEW total \in Nat,
           NEW realized \in Nat, NEW next \in Nat,
           total <= realized * YIELD_INDEX_SCALE,
           next <= total + IndexDelta(amount, ts) * ts
    PROVE  next <= (realized + amount) * YIELD_INDEX_SCALE
<1> DEFINE x == amount * YIELD_INDEX_SCALE
           y == realized * YIELD_INDEX_SCALE
           d == IndexDelta(amount, ts)
<1>1. x \in Nat /\ y \in Nat
  BY Widths, SMT
<1>2. (realized + amount) * YIELD_INDEX_SCALE = y + x
  BY Widths, SMT
<1>3. d = x \div ts
  BY DEF IndexDelta
<1> HIDE DEF x, y, d
<1>4. d \in Nat /\ ts * d <= x
  BY <1>1, <1>3, DivBounds
<1>5. d * ts <= x /\ d * ts \in Nat
  BY <1>4, SMT
<1>6. next <= total + d * ts /\ total <= y
  BY DEF d, y
<1>7. next <= y + x
  <2> DEFINE z == d * ts
  <2> HIDE DEF z
  <2>1. z <= x /\ z \in Nat /\ next <= total + z
    BY <1>5, <1>6 DEF z
  <2> QED BY <1>1, <1>6, <2>1
<1> QED
  BY <1>2, <1>7

LEMMA BookKeepsYield ==
    ASSUME YieldInv, TypeOK', NEW s \in Stope, NEW kind \in YieldKind,
           NEW normalized \in U64, BookYield(s, kind, normalized)
    PROVE  YieldKept(s) /\ EntitlementsMoveOnAccrual(s)
<1> DEFINE pool == stope[s]
           next == stope'[s]
           delta == IndexDelta(normalized, pool.total_shares)
           d(k) == IF k = kind THEN delta ELSE 0
<1>1. TypeOK /\ PoolMatchesPositions
  BY DEF YieldInv, PoolInv
<1>2. /\ miner' = miner
      /\ pool.total_shares > 0 /\ normalized > 0
      /\ next.realized = [pool.realized EXCEPT ![kind] = @ + normalized]
      /\ next.yield_index = [pool.yield_index EXCEPT ![kind] =
                                    NextIndex(pool, kind, normalized)]
  BY <1>1, BookEffect DEF Booked
<1>3. /\ pool.total_shares \in Nat \ {0} /\ normalized \in Nat
      /\ pool.yield_index \in Indices /\ pool.realized \in Balances
      /\ next.yield_index \in Indices
  <2>1. next \in PoolRecord /\ pool \in PoolRecord
    BY <1>1 DEF TypeOK
  <2> HIDE DEF next, pool
  <2>2. /\ pool.total_shares \in U64 /\ pool.yield_index \in Indices
        /\ pool.realized \in Balances /\ next.yield_index \in Indices
    BY <2>1 DEF PoolRecord
  <2>3. pool.total_shares > 0
    BY <1>2
  <2>4. pool.total_shares \in Nat
    BY <2>2, Widths
  <2>5. normalized \in Nat
    BY Widths
  <2>6. pool.total_shares \in Nat \ {0}
    BY <2>3, <2>4
  <2> QED BY <2>2, <2>5, <2>6
<1>4. delta \in Nat
  BY <1>3, IndexDeltaType
<1>5. ASSUME NEW k \in YieldKind
      PROVE  /\ d(k) \in Nat
             /\ next.yield_index[k] = pool.yield_index[k] + d(k)
             /\ pool.yield_index[k] \in Nat /\ pool.realized[k] \in Nat
             /\ k # kind => next.realized[k] = pool.realized[k]
             /\ k = kind => next.realized[k] = pool.realized[k] + normalized
  <2>1. pool.yield_index[k] \in Nat /\ pool.realized[k] \in Nat
    BY <1>3, Widths DEF Indices, Balances
  <2>2. /\ k # kind => next.realized[k] = pool.realized[k]
        /\ k = kind => next.realized[k] = pool.realized[k] + normalized
    BY <1>2, <1>3 DEF Balances
  <2>3. NextIndex(pool, kind, normalized) = pool.yield_index[kind] + delta
    BY DEF NextIndex
  <2> HIDE DEF delta
  <2>4. CASE k = kind
    BY <1>2, <1>3, <1>4, <2>1, <2>2, <2>3, <2>4 DEF Indices
  <2>5. CASE k # kind
    BY <1>2, <1>3, <2>1, <2>2, <2>5 DEF Indices
  <2> QED BY <2>4, <2>5
<1>6. ASSUME NEW p \in Owner, NEW k \in YieldKind
      PROVE  /\ Potential(miner'[s][p], next.yield_index, k)
                    = Potential(miner[s][p], pool.yield_index, k)
                                + d(k) * miner[s][p].shares
             /\ Entitled(miner[s][p], pool.yield_index, k)
                    <= Entitled(miner'[s][p], next.yield_index, k)
             /\ Potential(miner[s][p], pool.yield_index, k) \in Nat
             /\ miner[s][p].shares \in Nat
  <2>1. miner[s][p] \in MinerRecord /\ miner'[s][p] = miner[s][p]
    BY <1>1, <1>2, RecordTypes
  <2>2. miner[s][p].index_snapshot[k] <= pool.yield_index[k]
    BY DEF YieldInv, SnapshotsInThePast
  <2>3. d(k) \in Nat /\ next.yield_index[k] = pool.yield_index[k] + d(k)
    BY <1>5
  <2>4. miner[s][p].shares \in Nat
    BY <1>1, PoolTypes
  <2> HIDE DEF d, pool, next
  <2> QED BY <1>3, <2>1, <2>2, <2>3, <2>4, IndexRises, PotentialFacts
<1> HIDE DEF delta
<1>7. ASSUME NEW k \in YieldKind
      PROVE  Total(PotentialsOf(s, k), NumOwners)'
                <= next.realized[k] * YIELD_INDEX_SCALE
  <2> DEFINE T == Total(PotentialsOf(s, k), NumOwners)
  <2>1. ASSUME NEW p \in Owner
        PROVE  Potential(miner'[s][p], next.yield_index, k)
                  <= Potential(miner[s][p], pool.yield_index, k)
                            + d(k) * miner[s][p].shares
    <3> DEFINE x == Potential(miner[s][p], pool.yield_index, k)
               y == d(k) * miner[s][p].shares
    <3>1. x \in Nat /\ Potential(miner'[s][p], next.yield_index, k) = x + y
      BY <1>6
    <3>2. y \in Nat
      <4>1. d(k) \in Nat /\ miner[s][p].shares \in Nat
        BY <1>5, <1>6
      <4> HIDE DEF d
      <4> QED BY <4>1, SMT
    <3> HIDE DEF x, y
    <3>3. x + y <= x + y
      BY <3>1, <3>2
    <3> QED BY <3>1, <3>3 DEF x, y
  <2>2. d(k) \in Nat
    BY <1>5
  <2> HIDE DEF d
  <2>3. T \in Nat /\ T' \in Nat /\ T' <= T + d(k) * pool.total_shares
    BY <1>1, <2>1, <2>2, TotalPotential
  <2>4. T <= pool.realized[k] * YIELD_INDEX_SCALE
    BY DEF YieldInv, YieldBacked
  <2> HIDE DEF T
  <2>5. CASE k = kind
    <3>1. d(k) = IndexDelta(normalized, pool.total_shares)
      BY <2>5 DEF d, delta
    <3>2. pool.realized[k] \in Nat
      BY <1>5
    <3>3. T' <= (pool.realized[k] + normalized) * YIELD_INDEX_SCALE
      <4> HIDE DEF pool
      <4> QED BY <1>3, <2>3, <2>4, <3>1, <3>2, DeltaCovered
    <3>4. next.realized[k] = pool.realized[k] + normalized
      BY <1>5, <2>5
    <3> QED BY <3>3, <3>4 DEF T
  <2>6. CASE k # kind
    <3>1. d(k) * pool.total_shares = 0
      BY <1>3, <2>6 DEF d
    <3>2. next.realized[k] = pool.realized[k]
      BY <1>5, <2>6
    <3> DEFINE b == pool.realized[k] * YIELD_INDEX_SCALE
    <3>3. b \in Nat
      BY <1>5, Widths, SMT
    <3>4. T <= b
      BY <2>4
    <3> HIDE DEF b
    <3>5. T' <= b
      BY <2>3, <3>1, <3>3, <3>4
    <3> QED BY <3>2, <3>5 DEF T, b
  <2> QED BY <2>5, <2>6
<1>8. ASSUME NEW p \in Owner, NEW k \in YieldKind
      PROVE  miner'[s][p].index_snapshot[k] <= next.yield_index[k]
  <2>1. miner[s][p].index_snapshot[k] <= pool.yield_index[k]
    BY DEF YieldInv, SnapshotsInThePast
  <2>2. miner[s][p].index_snapshot[k] \in Nat
    <3> DEFINE m == miner[s][p]
    <3>1. m \in MinerRecord
      BY <1>1, RecordTypes
    <3> HIDE DEF m
    <3>2. m.index_snapshot[k] \in Nat
      BY <3>1, Widths DEF MinerRecord, Indices
    <3> QED BY <3>2 DEF m
  <2>3. /\ next.yield_index[k] = pool.yield_index[k] + d(k)
        /\ d(k) \in Nat /\ pool.yield_index[k] \in Nat
    BY <1>5
  <2> HIDE DEF d, pool, next
  <2> QED BY <1>2, <2>1, <2>2, <2>3
<1>9. ASSUME NEW p \in Owner
      PROVE  /\ miner'[s][p].shares > 0 => miner'[s][p].opened
             /\ miner'[s][p].shares = 0 => miner'[s][p].accrued = NoYield
  BY <1>2 DEF YieldInv, SharesAreOwned, NoYieldWithoutShares
<1>10. EntitlementsMoveOnAccrual(s)
  <2> SUFFICES ASSUME NEW p \in Owner, NEW k \in YieldKind
               PROVE  IF next.realized[k] = pool.realized[k]
                      THEN Entitlement(p, s, k)' = Entitlement(p, s, k)
                      ELSE Entitlement(p, s, k)' >= Entitlement(p, s, k)
    BY DEF EntitlementsMoveOnAccrual
  <2>1. CASE k = kind
    <3>1. next.realized[k] # pool.realized[k]
      <4>1. /\ next.realized[k] = pool.realized[k] + normalized
            /\ pool.realized[k] \in Nat
        BY <1>5, <2>1
      <4> HIDE DEF next, pool
      <4> QED BY <1>2, <1>3, <4>1
    <3>2. Entitlement(p, s, k) <= Entitlement(p, s, k)'
      BY <1>6, EntitlementIs
    <3> QED BY <3>1, <3>2
  <2>2. CASE k # kind
    <3>1. next.realized[k] = pool.realized[k]
      BY <1>5, <2>2
    <3>2. next.yield_index[k] = pool.yield_index[k]
      BY <1>2, <1>3, <2>2 DEF Indices
    <3>3. Entitlement(p, s, k)' = Entitlement(p, s, k)
      <4>1. Pending(miner[s][p], next.yield_index)[k]
                = Pending(miner[s][p], pool.yield_index)[k]
        BY <3>2 DEF Pending
      <4>2. miner'[s][p] = miner[s][p]
        BY <1>2
      <4> QED BY <4>1, <4>2 DEF Entitlement
    <3> QED BY <3>1, <3>3
  <2> QED BY <2>1, <2>2
<1> QED
  BY <1>7, <1>8, <1>9, <1>10 DEF YieldKept

LEMMA InitYieldInv == Init => YieldInv
<1> SUFFICES ASSUME Init PROVE YieldInv
  OBVIOUS
<1>1. PoolInv
  BY InitPoolInv
<1>2. TypeOK
  BY <1>1 DEF PoolInv
<1>3. ASSUME NEW s \in Stope
      PROVE  stope[s] = EmptyPool /\ \A o \in Owner : miner[s][o] = EmptyMiner
  BY DEF Init
<1>4. YieldBacked
  <2> SUFFICES ASSUME NEW s \in Stope, NEW k \in YieldKind
               PROVE  Total(PotentialsOf(s, k), NumOwners)
                        <= stope[s].realized[k] * YIELD_INDEX_SCALE
    BY DEF YieldBacked
  <2>1. Potential(EmptyMiner, EmptyPool.yield_index, k) = 0
    <3>1. /\ EmptyMiner.accrued[k] = 0 /\ EmptyMiner.claimed[k] = 0
          /\ EmptyMiner.shares = 0 /\ EmptyMiner.index_snapshot[k] = 0
          /\ EmptyPool.yield_index[k] = 0
      BY DEF EmptyMiner, EmptyPool, NoYield
    <3>2. ScaledPending(0, 0, 0) = 0
      BY DEF ScaledPending, SaturatingSub
    <3>3. (0 + 0) * YIELD_INDEX_SCALE + 0 = 0
      BY Widths, SMT
    <3> QED BY <3>1, <3>2, <3>3 DEF Potential
  <2>2. \A o \in 1..NumOwners : PotentialsOf(s, k)[o] = 0
    BY <1>3, <2>1 DEF PotentialsOf, Owner
  <2>3. Total(PotentialsOf(s, k), NumOwners) = 0
    BY <1>2, <2>2, PotentialsType, TotalOfZeros
  <2>4. stope[s].realized[k] = 0
    BY <1>3 DEF EmptyPool, NoYield
  <2>5. 0 * YIELD_INDEX_SCALE = 0
    BY Widths, SMT
  <2> QED BY <2>3, <2>4, <2>5
<1>5. SnapshotsInThePast
  BY <1>3 DEF SnapshotsInThePast, EmptyMiner, EmptyPool, NoYield
<1>6. SharesAreOwned /\ NoYieldWithoutShares
  BY <1>3 DEF SharesAreOwned, NoYieldWithoutShares, EmptyMiner
<1> QED
  BY <1>1, <1>4, <1>5, <1>6 DEF YieldInv

(***************************************************************************)
(* Every step keeps the attribution of every stope.                        *)
(***************************************************************************)
LEMMA MintKeepsYield ==
    ASSUME YieldInv, NEW o \in Owner, NEW s \in Stope, NEW normalized \in U64 \ {0},
           MintShares(o, s, normalized)
    PROVE  YieldKept(s) /\ EntitlementsMoveOnAccrual(s)
<1>1. TypeOK /\ TypeOK'
  BY MintTypeOK DEF YieldInv, PoolInv
<1>2. Settles(o, s)
  BY <1>1, MintSettles
<1>3. Minted(o, s, normalized)
  BY <1>1, MintEffect
<1>4. miner'[s][o].opened
  BY <1>3 DEF Minted
<1>5. miner'[s][o].shares # 0
  <2> DEFINE minted == SharesFor(stope[s], normalized)
  <2>1. miner'[s][o].shares = miner[s][o].shares + minted
    BY <1>3 DEF Minted
  <2>2. minted > 0 /\ minted \in U64
    BY DEF MintShares, Fits64
  <2>3. minted \in Nat /\ miner[s][o].shares \in Nat
    BY <1>1, <2>2, PoolTypes, Widths
  <2> HIDE DEF minted
  <2> QED BY <2>1, <2>2, <2>3
<1> QED
  BY <1>1, <1>2, <1>4, <1>5, SettlingKeepsYield

LEMMA BurnKeepsYield ==
    ASSUME YieldInv, NEW o \in Owner, NEW s \in Stope, NEW shares \in U64 \ {0},
           BurnShares(o, s, shares)
    PROVE  YieldKept(s) /\ EntitlementsMoveOnAccrual(s)
<1>1. TypeOK /\ TypeOK' /\ PoolInv
  BY BurnTypeOK DEF YieldInv, PoolInv
<1>2. /\ Settles(o, s)
      /\ shares = miner[s][o].shares =>
            \A k \in YieldKind : miner'[s][o].accrued[k] = 0
  BY <1>1, BurnSettles
<1>3. /\ shares <= miner[s][o].shares
      /\ miner'[s][o].shares = miner[s][o].shares - shares
  BY <1>1, BurnIsExact
<1>4. miner'[s][o].opened
  <2>1. miner'[s][o].opened = miner[s][o].opened
    BY <1>1, BurnEffect DEF Redeemed
  <2>2. miner[s][o].opened
    BY DEF BurnShares, CanBurn
  <2> QED BY <2>1, <2>2
<1>5. ASSUME miner'[s][o].shares = 0
      PROVE  miner'[s][o].accrued = NoYield
  <2>1. miner[s][o].shares \in Nat /\ shares \in Nat
    BY <1>1, PoolTypes, Widths
  <2>2. shares = miner[s][o].shares
    BY <1>3, <1>5, <2>1
  <2>3. \A k \in YieldKind : miner'[s][o].accrued[k] = 0
    BY <1>2, <2>2
  <2>4. miner'[s][o].accrued \in Balances
    <3>1. miner'[s][o] \in MinerRecord
      BY <1>1 DEF TypeOK
    <3> QED BY <3>1 DEF MinerRecord
  <2> QED BY <2>3, <2>4 DEF Balances, NoYield
<1> QED
  BY <1>1, <1>2, <1>4, <1>5, SettlingKeepsYield

LEMMA NextKeepsYield ==
    ASSUME YieldInv, Next, NEW t \in Stope
    PROVE  YieldKept(t) /\ EntitlementsMoveOnAccrual(t)
<1>1. TypeOK
  BY DEF YieldInv, PoolInv
<1>2. ASSUME NEW s \in Stope, NEW amount \in U64 \ {0}, NEW o \in Owner,
             MintShares(o, s, amount)
      PROVE  YieldKept(t) /\ EntitlementsMoveOnAccrual(t)
  <2>1. OthersUnchanged(o, s)
    BY <1>1, <1>2, MintEffect DEF Minted
  <2>2. t # s => StopeUntouched(t)
    BY <2>1 DEF OthersUnchanged, StopeUntouched
  <2> QED BY <1>2, <2>2, MintKeepsYield, UntouchedKeepsYield
<1>3. ASSUME NEW s \in Stope, NEW amount \in U64 \ {0}, NEW o \in Owner,
             BurnShares(o, s, amount)
      PROVE  YieldKept(t) /\ EntitlementsMoveOnAccrual(t)
  <2>1. OthersUnchanged(o, s)
    BY <1>1, <1>3, BurnEffect DEF Redeemed
  <2>2. t # s => StopeUntouched(t)
    BY <2>1 DEF OthersUnchanged, StopeUntouched
  <2> QED BY <1>3, <2>2, BurnKeepsYield, UntouchedKeepsYield
<1>4. ASSUME NEW s \in Stope, NEW amount \in U64 \ {0}, NEW kind \in SeamKinds,
             BookYield(s, kind, amount)
      PROVE  YieldKept(t) /\ EntitlementsMoveOnAccrual(t)
  <2>1. kind \in YieldKind
    OBVIOUS
  <2>2. TypeOK'
    BY <1>1, <1>4, <2>1, BookTypeOK
  <2>3. t # s => StopeUntouched(t)
    BY ZenonT(60), <1>1, <1>4, <2>1, BookEffect DEF Booked, StopeUntouched
  <2> QED BY <1>4, <2>1, <2>2, <2>3, BookKeepsYield, UntouchedKeepsYield
<1> QED
  BY <1>2, <1>3, <1>4 DEF Next

LEMMA NextYieldInv == YieldInv /\ [Next]_vars => YieldInv'
<1> SUFFICES ASSUME YieldInv, [Next]_vars PROVE YieldInv'
  OBVIOUS
<1>1. PoolInv'
  BY NextPoolInv DEF YieldInv
<1>2. \A t \in Stope : YieldKept(t)
  <2>1. CASE Next
    BY <2>1, NextKeepsYield
  <2>2. CASE UNCHANGED vars
    BY <2>2, UntouchedKeepsYield DEF vars, StopeUntouched
  <2> QED BY <2>1, <2>2
<1>3. YieldBacked'
  BY <1>2 DEF YieldBacked, YieldKept
<1>4. SnapshotsInThePast'
  BY <1>2 DEF SnapshotsInThePast, YieldKept
<1>5. SharesAreOwned' /\ NoYieldWithoutShares'
  BY <1>2 DEF SharesAreOwned, NoYieldWithoutShares, YieldKept
<1> QED
  BY <1>1, <1>3, <1>4, <1>5 DEF YieldInv

LEMMA YieldInvariant == Spec => []YieldInv
BY InitYieldInv, NextYieldInv, PTL DEF Spec

(***************************************************************************)
(* A position that has redeemed everything leaves no settled yield behind. *)
(***************************************************************************)
THEOREM NothingOutlivesItsShares == Spec => []NoYieldWithoutShares
BY YieldInvariant, PTL DEF YieldInv

(***************************************************************************)
(* Only an accrual of a kind changes anyone's entitlement to it, and none  *)
(* is ever lowered: not by a deposit, not by a redemption.                 *)
(***************************************************************************)
LEMMA NextMovesEntitlement ==
    YieldInv /\ [Next]_vars =>
        [\A s \in Stope, o \in Owner, k \in YieldKind :
            IF stope'[s].realized[k] = stope[s].realized[k]
            THEN Entitlement(o, s, k)' = Entitlement(o, s, k)
            ELSE Entitlement(o, s, k)' >= Entitlement(o, s, k)]_vars
<1> SUFFICES ASSUME YieldInv, Next
             PROVE  \A s \in Stope : EntitlementsMoveOnAccrual(s)
  BY DEF EntitlementsMoveOnAccrual
<1> QED
  BY NextKeepsYield

(***************************************************************************)
(* Only an accrual of a kind changes an entitlement to that kind, and it   *)
(* raises it; deposits, settlements and redemptions, of anyone, leave it.  *)
(***************************************************************************)
THEOREM EntitlementIsNeverDiluted == Spec => OnlyAccrualMovesEntitlement
BY YieldInvariant, NextMovesEntitlement, PTL DEF Spec, OnlyAccrualMovesEntitlement

(***************************************************************************)
(* What all positions together are credited with was accrued: dividing the *)
(* sum of potentials by the scale rounds down once more.                   *)
(***************************************************************************)
LEMMA AttributionFollows ==
    ASSUME YieldInv, NEW s \in Stope, NEW k \in YieldKind
    PROVE  Total([o \in Owner |-> Entitlement(o, s, k)], NumOwners)
                <= stope[s].realized[k]
<1> DEFINE f == [o \in Owner |-> Entitlement(o, s, k)]
           g == PotentialsOf(s, k)
           F == Total(f, NumOwners)
           G == Total(g, NumOwners)
           r == stope[s].realized[k]
<1>1. TypeOK
  BY DEF YieldInv, PoolInv
<1>2. g \in [1..NumOwners -> Nat]
  BY <1>1, PotentialsType
<1>3. ASSUME NEW o \in Owner
      PROVE  f[o] \in Nat /\ YIELD_INDEX_SCALE * f[o] <= g[o]
  <2>1. miner[s][o] \in MinerRecord /\ stope[s].yield_index \in Indices
    BY <1>1, RecordTypes
  <2>2. /\ Entitled(miner[s][o], stope[s].yield_index, k) \in Nat
        /\ YIELD_INDEX_SCALE * Entitled(miner[s][o], stope[s].yield_index, k)
                <= Potential(miner[s][o], stope[s].yield_index, k)
    BY <2>1, PotentialFacts
  <2>3. f[o] = Entitled(miner[s][o], stope[s].yield_index, k)
    BY EntitlementIs
  <2>4. g[o] = Potential(miner[s][o], stope[s].yield_index, k)
    BY DEF PotentialsOf
  <2> QED BY <2>2, <2>3, <2>4
<1>4. f \in [1..NumOwners -> Nat]
  BY <1>3 DEF Owner
<1>5. r \in Nat
  <2>1. stope[s].realized \in Balances
    BY <1>1 DEF TypeOK, PoolRecord
  <2>2. stope[s].realized[k] \in U64
    BY <2>1 DEF Balances
  <2> QED BY <2>2, Widths
<1>6. G <= r * YIELD_INDEX_SCALE
  BY DEF YieldInv, YieldBacked
<1> HIDE DEF f, g, r
<1>7. F \in Nat /\ G \in Nat
  BY <1>2, <1>4, TotalType
<1>8. \A o \in 1..NumOwners : YIELD_INDEX_SCALE * f[o] <= g[o] + 0 * g[o]
  <2> TAKE o \in 1..NumOwners
  <2>1. g[o] \in Nat /\ YIELD_INDEX_SCALE * f[o] <= g[o]
    BY <1>2, <1>3 DEF Owner
  <2>2. g[o] + 0 * g[o] = g[o]
    BY <2>1
  <2> QED BY <2>1, <2>2
<1>9. YIELD_INDEX_SCALE * F <= G + 0 * G
  BY <1>2, <1>4, <1>8, TotalsInequality, Widths
<1> HIDE DEF F, G
<1>10. YIELD_INDEX_SCALE * F <= YIELD_INDEX_SCALE * r
  <2>1. G + 0 * G = G
    BY <1>7
  <2>2. r * YIELD_INDEX_SCALE = YIELD_INDEX_SCALE * r
    BY <1>5, Widths, SMT
  <2>3. YIELD_INDEX_SCALE * F \in Nat /\ YIELD_INDEX_SCALE * r \in Nat
    BY <1>5, <1>7, Widths, SMT
  <2> QED BY <1>6, <1>7, <1>9, <2>1, <2>2, <2>3
<1>11. F <= r
  BY <1>5, <1>7, <1>10, Widths, SMT
<1> QED
  BY <1>11 DEF F, f, r

(***************************************************************************)
(* The yield attributed to the positions of a stope never exceeds what was *)
(* accrued to it, kind by kind, whatever the rounding and the order of     *)
(* deposits, accruals and redemptions.                                     *)
(***************************************************************************)
THEOREM YieldIsNeverInvented == Spec => []AttributionNeverExceedsAccrued
<1>1. YieldInv => AttributionNeverExceedsAccrued
  BY AttributionFollows DEF AttributionNeverExceedsAccrued
<1> QED
  BY <1>1, YieldInvariant, PTL

(***************************************************************************)
(* One position: what it earned fits its balance, and the product that     *)
(* settle_indices forms on the way fits u128.                              *)
(***************************************************************************)
LEMMA EntitlementWithinAccrued ==
    ASSUME YieldInv, NEW s \in Stope, NEW o \in Owner, NEW k \in YieldKind
    PROVE  /\ Entitled(miner[s][o], stope[s].yield_index, k) <= stope[s].realized[k]
           /\ Potential(miner[s][o], stope[s].yield_index, k)
                    <= stope[s].realized[k] * YIELD_INDEX_SCALE
           /\ stope[s].realized[k] \in U64
<1> DEFINE f == [p \in Owner |-> Entitlement(p, s, k)]
           g == PotentialsOf(s, k)
           b == stope[s].realized[k] * YIELD_INDEX_SCALE
<1>1. TypeOK
  BY DEF YieldInv, PoolInv
<1>2. g \in [1..NumOwners -> Nat]
  BY <1>1, PotentialsType
<1>3. \A p \in Owner : Entitlement(p, s, k) \in Nat
  <2> TAKE p \in Owner
  <2>1. miner[s][p] \in MinerRecord /\ stope[s].yield_index \in Indices
    BY <1>1, RecordTypes
  <2>2. Entitled(miner[s][p], stope[s].yield_index, k) \in Nat
    BY <2>1, PotentialFacts
  <2> QED BY <2>2, EntitlementIs
<1>4. f \in [1..NumOwners -> Nat]
  BY <1>3 DEF Owner
<1>5. stope[s].realized[k] \in U64
  BY <1>1, RecordTypes DEF Balances
<1>6. Total(f, NumOwners) <= stope[s].realized[k]
  BY AttributionFollows
<1>7. Total(g, NumOwners) <= b
  BY DEF YieldInv, YieldBacked
<1>8. b \in Nat
  <2>1. stope[s].realized[k] \in Nat
    BY <1>5, Widths
  <2> QED BY <2>1, Widths, SMT
<1>9. f[o] = Entitled(miner[s][o], stope[s].yield_index, k)
  BY EntitlementIs
<1>10. g[o] = Potential(miner[s][o], stope[s].yield_index, k)
  BY DEF PotentialsOf
<1>11. f[o] \in Nat /\ g[o] \in Nat
  BY <1>2, <1>4 DEF Owner
<1> HIDE DEF f, g, b
<1>12. /\ f[o] <= Total(f, NumOwners) /\ g[o] <= Total(g, NumOwners)
       /\ Total(f, NumOwners) \in Nat /\ Total(g, NumOwners) \in Nat
  BY <1>2, <1>4, SummandAtMostTotal, TotalType DEF Owner
<1>13. f[o] <= stope[s].realized[k]
  <2>1. stope[s].realized[k] \in Nat
    BY <1>5, Widths
  <2> QED BY <1>6, <1>11, <1>12, <2>1
<1>14. g[o] <= b
  BY <1>7, <1>8, <1>11, <1>12
<1> QED
  BY <1>5, <1>9, <1>10, <1>13, <1>14 DEF b

LEMMA SettlementFits ==
    ASSUME YieldInv, NEW s \in Stope, NEW o \in Owner
    PROVE  SettleFits(miner[s][o], stope[s].yield_index)
<1> DEFINE m == miner[s][o]
           index == stope[s].yield_index
<1>1. TypeOK
  BY DEF YieldInv, PoolInv
<1>2. m \in MinerRecord /\ index \in Indices
  BY <1>1, RecordTypes
<1> SUFFICES ASSUME NEW k \in YieldKind
             PROVE  /\ ScaledPending(m.shares, index[k], m.index_snapshot[k]) \in U128
                    /\ m.accrued[k] + Pending(m, index)[k] \in U64
  BY DEF SettleFits, Fits64, Fits128
<1> DEFINE p == ScaledPending(m.shares, index[k], m.index_snapshot[k])
           r == stope[s].realized[k]
<1>3. /\ Entitled(m, index, k) <= r /\ r \in U64
      /\ Potential(m, index, k) <= r * YIELD_INDEX_SCALE
  BY EntitlementWithinAccrued
<1> HIDE DEF m, index
<1>4. /\ p \in Nat /\ p <= Potential(m, index, k)
      /\ Potential(m, index, k) \in Nat /\ Entitled(m, index, k) \in Nat
      /\ m.claimed[k] \in Nat
  BY <1>2, PotentialFacts
<1>5. /\ Earned(m, index, k) \in Nat
      /\ Entitled(m, index, k) = Earned(m, index, k) + m.claimed[k]
  BY <1>2, SettledEarned
<1> HIDE DEF p, r
<1>6. r \in Nat /\ r <= U64Max
  BY <1>3, Widths DEF U64
<1>7. r * YIELD_INDEX_SCALE \in Nat
  BY <1>6, Widths, SMT
<1>8. r * YIELD_INDEX_SCALE <= U128Max
  <2> DEFINE c == YIELD_INDEX_SCALE
             w == U64Max + 1
  <2>1. c \in Nat /\ w \in Nat /\ c <= w /\ c >= 1 /\ r <= w - 1
    BY <1>6, Widths
  <2>2. U128Max = w * w - 1
    BY DEF U128Max
  <2> HIDE DEF c, w
  <2>3. r * c <= (w - 1) * c
    BY <1>6, <2>1, SMT
  <2>4. (w - 1) * c <= (w - 1) * w
    BY <2>1, SMT
  <2>5. (w - 1) * w <= w * w - 1
    BY <2>1, SMT
  <2>6. /\ r * c \in Nat /\ (w - 1) * c \in Int /\ (w - 1) * w \in Int
        /\ w * w - 1 \in Int
    BY <1>6, <2>1, SMT
  <2>7. r * c <= w * w - 1
    BY <2>3, <2>4, <2>5, <2>6
  <2> QED BY <2>2, <2>7 DEF c
<1>9. U128Max \in Nat
  BY DEF U128Max
<1>10. p \in U128
  BY <1>3, <1>4, <1>7, <1>8, <1>9 DEF U128
<1>11. Earned(m, index, k) \in U64
  BY <1>3, <1>4, <1>5, <1>6 DEF U64
<1> QED
  BY <1>10, <1>11 DEF p, Earned

(***************************************************************************)
(* No history of accruals can make settle_indices fail, so none can shut   *)
(* an owner out of depositing or redeeming.                                *)
(***************************************************************************)
THEOREM SettlingAlwaysFits == Spec => []SettlementNeverFails
<1>1. YieldInv => SettlementNeverFails
  BY SettlementFits DEF SettlementNeverFails
<1> QED
  BY <1>1, YieldInvariant, PTL

(***************************************************************************)
(* A share is worth at least a unit, and no more than the pool holds.      *)
(***************************************************************************)
LEMMA ShareIsWorthSomething ==
    ASSUME NEW ts \in Nat, NEW td \in Nat, NEW n \in Nat,
           0 < n, n <= ts, ts <= td
    PROVE  MulDivFloor(n, td, ts) \in n..td
<1> DEFINE q == MulDivFloor(n, td, ts)
<1>1. q \in Nat /\ q <= td
  BY BurnKeepsBacking
<1>2. n * td < ts * q + ts
  BY MulDivFloorBounds
<1> HIDE DEF q
<1>3. ts * n <= n * td
  BY SMT
<1>4. ts * n < ts * (q + 1)
  BY <1>1, <1>2, <1>3, SMT
<1>5. n < q + 1
  BY <1>1, <1>4, SMT
<1> QED
  BY <1>1, <1>5 DEF q

LEMMA Redeemable ==
    ASSUME YieldInv, NEW s \in Stope, NEW o \in Owner,
           NEW shares \in 1..miner[s][o].shares,
           Fits64(SumOfKinds(ClaimedYield(o, s, shares)))
    PROVE  CanBurn(o, s, shares)
<1> DEFINE m == miner[s][o]
           index == stope[s].yield_index
           ts == stope[s].total_shares
           td == stope[s].total_deposits
           taken == ClaimedYield(o, s, shares)
<1>1. TypeOK /\ PoolMatchesPositions /\ ShareNeverUnderwater
  BY DEF YieldInv, PoolInv
<1>2. /\ ts \in Nat /\ td \in Nat /\ m.shares \in Nat
      /\ m.shares <= ts /\ ts <= td
  BY <1>1, PoolTypes, SharesWithinPool DEF ShareNeverUnderwater
<1>3. shares \in Nat /\ 0 < shares /\ shares <= m.shares
  BY <1>2
<1>4. td \in U64
  <2>1. stope[s] \in PoolRecord
    BY <1>1 DEF TypeOK
  <2> QED BY <2>1 DEF PoolRecord
<1>5. m.opened
  <2>1. m.shares > 0
    <3> HIDE DEF m
    <3> QED BY <1>2, <1>3
  <2> QED BY <2>1 DEF YieldInv, SharesAreOwned
<1>6. SettleFits(m, index)
  BY SettlementFits
<1>7. ts > 0 /\ RedemptionValue(s, shares) \in U64 \ {0}
  <2>1. RedemptionValue(s, shares) = MulDivFloor(shares, td, ts)
    BY DEF RedemptionValue
  <2> HIDE DEF m, ts, td
  <2>2. ts > 0 /\ shares <= ts
    BY <1>2, <1>3
  <2>3. MulDivFloor(shares, td, ts) \in shares..td
    BY <1>2, <1>3, <2>2, ShareIsWorthSomething
  <2> DEFINE q == MulDivFloor(shares, td, ts)
  <2> HIDE DEF q
  <2>4. q \in U64 \ {0}
    <3>1. q \in shares..td
      BY <2>3 DEF q
    <3> QED BY <1>2, <1>3, <1>4, <3>1 DEF U64
  <2> QED BY <2>1, <2>2, <2>4 DEF q
<1>8. ASSUME NEW k \in YieldKind
      PROVE  Settled(m, index).claimed[k] + taken[k] \in U64
  <2> DEFINE r == stope[s].realized[k]
             a == Earned(m, index, k)
             t == taken[k]
  <2>1. m \in MinerRecord /\ index \in Indices
    BY <1>1, RecordTypes
  <2>2. Entitled(m, index, k) <= r /\ r \in U64
    BY EntitlementWithinAccrued
  <2>3. t \in 0..a
    BY <1>1, <1>3, ClaimedIsPart
  <2> HIDE DEF m, index, taken, r, t
  <2>4. /\ Settled(m, index).claimed = m.claimed
        /\ m.claimed[k] \in Nat
    BY <2>1, SettledFields, PotentialFacts
  <2>5. a \in Nat /\ Entitled(m, index, k) = a + m.claimed[k]
    BY <2>1, SettledEarned
  <2> HIDE DEF a
  <2>6. r \in Nat /\ r <= U64Max
    BY <2>2, Widths DEF U64
  <2>7. m.claimed[k] + t \in U64
    BY <2>2, <2>3, <2>4, <2>5, <2>6 DEF U64
  <2> QED BY <2>4, <2>7 DEF t
<1> QED
  BY <1>5, <1>6, <1>7, <1>8 DEF CanBurn, Fits64

(***************************************************************************)
(* The pool never holds a position back: of its own guards in              *)
(* request_redemption (redemption.rs:117-165 and :229-240) none but the    *)
(* checked sum of the three kinds can refuse a burn of any part of it.     *)
(* What the payout, the ticket and the queue refuse is not in it.          *)
(***************************************************************************)
THEOREM PoolNeverBlocksBurns == Spec => []PoolLetsSharesGo
<1>1. YieldInv => PoolLetsSharesGo
  BY Redeemable DEF PoolLetsSharesGo
<1> QED
  BY <1>1, YieldInvariant, PTL
=============================================================================
