-------------------------- MODULE KeeperBondProofs --------------------------
(***************************************************************************)
(* Theorems about KeeperBond, for any number of keepers, any minimum bond  *)
(* and any cooldown.                                                       *)
(***************************************************************************)
EXTENDS KeeperBond, LodzMathProofs

USE MathAssumption, BondAssumption

LEMMA WidthFacts == U64 \subseteq Nat /\ 0 \in U64 /\ I64Max \in Nat
<1>1. I64Max \in Nat
  BY DivBounds DEF I64Max
<1> QED
  BY <1>1 DEF U64

LEMMA FewKeepers ==
    ASSUME NEW A \in SUBSET Keeper
    PROVE  IsFiniteSet(A) /\ Cardinality(A) \in 0..NumKeepers
<1>1. IsFiniteSet(Keeper) /\ Cardinality(Keeper) = NumKeepers
  BY FS_Interval DEF Keeper
<1>2. IsFiniteSet(A) /\ Cardinality(A) <= NumKeepers
  BY <1>1, FS_Subset
<1> QED
  BY <1>2, FS_CardinalityType

LEMMA RebondedKeeper ==
    ASSUME keeper \in [Keeper -> KeeperRecord], NEW k \in Keeper,
           NEW bonded, NEW slashed, Rebonds(k, bonded, slashed)
    PROVE  /\ keeper' \in [Keeper -> KeeperRecord]
           /\ keeper'[k].bonded_amount = bonded
           /\ keeper'[k].slashed_amount = slashed
           /\ keeper'[k].active = ShouldBeActive(bonded)
           /\ keeper'[k].last_rebalance_at = keeper[k].last_rebalance_at
           /\ keeper'[k].unbond_ready_at = keeper[k].unbond_ready_at
           /\ \A j \in Keeper : j # k => keeper'[j] = keeper[j]
<1>1. ShouldBeActive(bonded) \in BOOLEAN
  BY DEF ShouldBeActive
<1>2. keeper' = [keeper EXCEPT ![k].bonded_amount = bonded,
                               ![k].slashed_amount = slashed,
                               ![k].active = ShouldBeActive(bonded)]
  BY DEF Rebonds, SetBond
<1>3. keeper'[k] = [keeper[k] EXCEPT !.bonded_amount = bonded,
                                     !.slashed_amount = slashed,
                                     !.active = ShouldBeActive(bonded)]
  BY <1>2
<1>4. keeper'[k] \in KeeperRecord
  BY <1>1, <1>3 DEF Rebonds, KeeperRecord
<1>5. /\ keeper'[k].bonded_amount = bonded
      /\ keeper'[k].slashed_amount = slashed
      /\ keeper'[k].active = ShouldBeActive(bonded)
      /\ keeper'[k].last_rebalance_at = keeper[k].last_rebalance_at
      /\ keeper'[k].unbond_ready_at = keeper[k].unbond_ready_at
  BY <1>3 DEF KeeperRecord
<1>6. \A j \in Keeper : j # k => keeper'[j] = keeper[j]
  BY <1>2
<1>7. keeper' \in [Keeper -> KeeperRecord]
  BY <1>2, <1>4, <1>6
<1> QED
  BY <1>5, <1>6, <1>7

LEMMA RebondedCount ==
    ASSUME BondInv, NEW k \in Keeper, NEW bonded, NEW slashed,
           Rebonds(k, bonded, slashed)
    PROVE  CountMatchesActiveKeepers'
<1> DEFINE A == {j \in Keeper : keeper[j].active}
           B == {j \in Keeper : keeper'[j].active}
           on == ShouldBeActive(bonded)
<1>1. /\ \A j \in Keeper : keeper[j].active \in BOOLEAN
      /\ keeper_count = Cardinality(A)
      /\ keeper'[k].active = on /\ on \in BOOLEAN
      /\ \A j \in Keeper : j # k => keeper'[j] = keeper[j]
  BY RebondedKeeper DEF BondInv, KeeperRecord, CountMatchesActiveKeepers,
                        ShouldBeActive
<1>2. IsFiniteSet(A) /\ Cardinality(A) \in Nat
  BY FewKeepers
<1>3. B = IF on THEN A \cup {k} ELSE A \ {k}
  BY <1>1
<1>4. keeper_count' = RefreshedCount(k, bonded)
  BY DEF Rebonds, SetBond
<1> HIDE DEF A, B
<1>5. keeper_count' = Cardinality(B)
  <2>1. CASE on /\ keeper[k].active
    <3>1. A \cup {k} = A
      BY <2>1 DEF A
    <3>2. RefreshedCount(k, bonded) = keeper_count
      <4>1. ShouldBeActive(bonded) = keeper[k].active
        BY <1>1, <2>1
      <4> QED BY <4>1 DEF RefreshedCount
    <3> QED BY <1>1, <1>3, <1>4, <2>1, <3>1, <3>2
  <2>2. CASE on /\ ~ keeper[k].active
    <3>1. k \notin A
      BY <2>2 DEF A
    <3>2. RefreshedCount(k, bonded) = keeper_count + 1
      <4>1. ShouldBeActive(bonded) # keeper[k].active
        BY <1>1, <2>2, Zenon
      <4> QED BY <2>2, <4>1, SMT DEF RefreshedCount
    <3>3. Cardinality(A \cup {k}) = Cardinality(A) + 1
      BY <1>2, <3>1, FS_AddElement
    <3> QED BY <1>1, <1>3, <1>4, <2>2, <3>2, <3>3
  <2>3. CASE ~ on /\ keeper[k].active
    <3>1. k \in A
      BY <2>3 DEF A
    <3>2. RefreshedCount(k, bonded) = SaturatingSub(keeper_count, 1)
      <4>1. ShouldBeActive(bonded) # keeper[k].active
        BY <1>1, <2>3, Zenon
      <4> QED BY <2>3, <4>1, SMT DEF RefreshedCount
    <3>3. Cardinality(A \ {k}) = Cardinality(A) - 1 /\ Cardinality(A \ {k}) \in Nat
      <4>1. Cardinality(A \ {k}) = Cardinality(A) - 1 /\ IsFiniteSet(A \ {k})
        BY <1>2, <3>1, FS_RemoveElement
      <4> QED BY <4>1, FS_CardinalityType
    <3>4. SaturatingSub(keeper_count, 1) = keeper_count - 1
      BY <1>1, <1>2, <3>3 DEF SaturatingSub
    <3> QED BY <1>1, <1>3, <1>4, <2>3, <3>2, <3>3, <3>4
  <2>4. CASE ~ on /\ ~ keeper[k].active
    <3>1. A \ {k} = A
      BY <2>4 DEF A
    <3>2. RefreshedCount(k, bonded) = keeper_count
      <4>1. ShouldBeActive(bonded) = keeper[k].active
        BY <1>1, <2>4
      <4> QED BY <4>1 DEF RefreshedCount
    <3> QED BY <1>1, <1>3, <1>4, <2>4, <3>1, <3>2
  <2> QED BY <2>1, <2>2, <2>3, <2>4
<1>6. ASSUME NEW j \in Keeper
      PROVE  keeper'[j].active <=> keeper'[j].bonded_amount >= min_keeper_bond
  <2>1. CASE j = k
    <3>1. keeper'[k].active = ShouldBeActive(bonded)
          /\ keeper'[k].bonded_amount = bonded
      BY RebondedKeeper DEF BondInv
    <3>2. ShouldBeActive(bonded) <=> bonded >= min_keeper_bond
      BY DEF ShouldBeActive
    <3> QED BY <2>1, <3>1, <3>2, Zenon
  <2>2. CASE j # k
    BY <1>1, <2>2 DEF BondInv, CountMatchesActiveKeepers
  <2> QED BY <2>1, <2>2
<1> QED
  BY <1>5, <1>6 DEF CountMatchesActiveKeepers, B

LEMMA BondsType ==
    ASSUME keeper \in [Keeper -> KeeperRecord]
    PROVE  TotalBonded \in Nat
<1>1. [k \in Keeper |-> keeper[k].bonded_amount] \in [1..NumKeepers -> Nat]
  BY WidthFacts DEF KeeperRecord, Keeper
<1> QED
  BY <1>1, TotalType DEF TotalBonded

LEMMA RebondedTotal ==
    ASSUME keeper \in [Keeper -> KeeperRecord], NEW k \in Keeper,
           NEW bonded, NEW slashed, Rebonds(k, bonded, slashed)
    PROVE  TotalBonded' = TotalBonded + bonded - keeper[k].bonded_amount
<1> DEFINE f == [j \in Keeper |-> keeper[j].bonded_amount]
           g == [j \in Keeper |-> keeper'[j].bonded_amount]
<1>1. f \in [1..NumKeepers -> Nat] /\ g \in [1..NumKeepers -> Nat]
  BY WidthFacts, RebondedKeeper DEF KeeperRecord, Keeper
<1>2. /\ \A j \in 1..NumKeepers : j # k => g[j] = f[j]
      /\ f[k] = keeper[k].bonded_amount /\ g[k] = bonded
  BY RebondedKeeper DEF Keeper
<1>3. TotalBonded = Total(f, NumKeepers) /\ TotalBonded' = Total(g, NumKeepers)
  BY DEF TotalBonded
<1>4. k \in 1..NumKeepers
  BY DEF Keeper
<1> HIDE DEF f, g
<1>5. Total(g, NumKeepers) = Total(f, NumKeepers) + g[k] - f[k]
  BY <1>1, <1>2, <1>4, TotalOfUpdate, Zenon
<1> QED
  BY <1>2, <1>3, <1>5

LEMMA RebondedCooldown ==
    ASSUME BondInv, NEW k \in Keeper, NEW bonded, NEW slashed,
           Rebonds(k, bonded, slashed)
    PROVE  CooldownIsCurrent'
<1>1. \A j \in Keeper :
        /\ keeper'[j].unbond_ready_at = keeper[j].unbond_ready_at
        /\ keeper'[j].last_rebalance_at = keeper[j].last_rebalance_at
  BY RebondedKeeper DEF BondInv
<1> QED
  BY <1>1 DEF BondInv, CooldownIsCurrent, HasRebalanced

-----------------------------------------------------------------------------
LEMMA KeeperFacts ==
    ASSUME BondInv, NEW k \in Keeper
    PROVE  /\ keeper[k] \in KeeperRecord
           /\ keeper[k].bonded_amount \in U64 /\ keeper[k].bonded_amount \in Nat
           /\ keeper[k].slashed_amount \in U64 /\ keeper[k].slashed_amount \in Nat
           /\ bond_vault \in Nat /\ treasury \in Nat
           /\ lodz \in [Keeper -> Nat]
BY WidthFacts DEF BondInv, KeeperRecord, BalancesTyped

LEMMA RebondInv ==
    ASSUME BondInv, NEW k \in Keeper, NEW bonded, NEW slashed,
           Rebonds(k, bonded, slashed), now' = now, BalancesTyped',
           bond_vault' = bond_vault + bonded - keeper[k].bonded_amount
    PROVE  BondInv'
<1>1. BondsCovered'
  <2>1. /\ TotalBonded' = TotalBonded + bonded - keeper[k].bonded_amount
        /\ TotalBonded \in Nat /\ TotalBonded <= bond_vault
        /\ bonded \in Nat /\ keeper[k].bonded_amount \in Nat /\ bond_vault \in Nat
    BY RebondedTotal, KeeperFacts, BondsType, WidthFacts
       DEF BondInv, BondsCovered, Rebonds
  <2> QED BY <2>1 DEF BondsCovered
<1>2. keeper' \in [Keeper -> KeeperRecord]
  BY RebondedKeeper DEF BondInv
<1> QED
  BY <1>1, <1>2, RebondedCount, RebondedCooldown DEF BondInv

LEMMA BondIsRebond ==
    ASSUME BondInv, NEW k \in Keeper, NEW amount \in 1..InitialLodz, Bond(k, amount)
    PROVE  /\ Rebonds(k, keeper[k].bonded_amount + amount, keeper[k].slashed_amount)
           /\ BondInv'
<1> DEFINE bonded == keeper[k].bonded_amount + amount
<1>1. Rebonds(k, bonded, keeper[k].slashed_amount)
  BY KeeperFacts DEF Bond, Rebonds, Fits64
<1>2. BalancesTyped'
  <2>1. lodz[k] \in Nat /\ amount <= lodz[k]
    BY KeeperFacts DEF Bond
  <2>2. lodz[k] - amount \in Nat
    BY <2>1
  <2> QED BY <2>2, KeeperFacts DEF Bond, BalancesTyped
<1>3. /\ bond_vault' = bond_vault + bonded - keeper[k].bonded_amount
      /\ now' = now
  BY KeeperFacts DEF Bond
<1> HIDE DEF bonded
<1>4. BondInv'
  BY <1>1, <1>2, <1>3, RebondInv
<1> QED
  BY <1>1, <1>4 DEF bonded

LEMMA LoweredBond ==
    ASSUME NEW b \in U64, NEW amount \in Nat, amount <= b
    PROVE  SaturatingSub(b, amount) \in U64 /\ SaturatingSub(b, amount) = b - amount
BY DEF SaturatingSub, U64

LEMMA UnbondIsRebond ==
    ASSUME BondInv, NEW k \in Keeper, NEW amount \in 1..InitialLodz, Unbond(k, amount)
    PROVE  /\ Rebonds(k, keeper[k].bonded_amount - amount, keeper[k].slashed_amount)
           /\ BondInv'
<1> DEFINE bonded == keeper[k].bonded_amount - amount
<1>1. SaturatingSub(keeper[k].bonded_amount, amount) = bonded /\ bonded \in U64
  BY KeeperFacts, LoweredBond DEF Unbond
<1>2. Rebonds(k, bonded, keeper[k].slashed_amount)
  BY <1>1, KeeperFacts DEF Unbond, Rebonds
<1>3. BalancesTyped'
  <2>1. bond_vault - amount \in Nat /\ lodz[k] + amount \in Nat
    BY KeeperFacts DEF Unbond
  <2> QED BY <2>1, KeeperFacts DEF Unbond, BalancesTyped
<1>4. /\ bond_vault' = bond_vault + bonded - keeper[k].bonded_amount
      /\ now' = now
  BY KeeperFacts DEF Unbond
<1> HIDE DEF bonded
<1>5. BondInv'
  BY <1>2, <1>3, <1>4, RebondInv
<1> QED
  BY <1>2, <1>5 DEF bonded

LEMMA SlashIsRebond ==
    ASSUME BondInv, NEW k \in Keeper, NEW amount \in 1..InitialLodz, Slash(k, amount)
    PROVE  /\ Rebonds(k, keeper[k].bonded_amount - amount,
                         keeper[k].slashed_amount + amount)
           /\ treasury' = treasury + amount
           /\ BondInv'
<1> DEFINE bonded == keeper[k].bonded_amount - amount
           slashed == keeper[k].slashed_amount + amount
<1>1. SaturatingSub(keeper[k].bonded_amount, amount) = bonded /\ bonded \in U64
  BY KeeperFacts, LoweredBond DEF Slash, CanSlash
<1>2. Rebonds(k, bonded, slashed)
  BY <1>1 DEF Slash, CanSlash, Rebonds, Fits64
<1>3. BalancesTyped'
  <2>1. bond_vault - amount \in Nat /\ treasury + amount \in Nat
    BY KeeperFacts DEF Slash, CanSlash
  <2> QED BY <2>1, KeeperFacts DEF Slash, BalancesTyped
<1>4. /\ bond_vault' = bond_vault + bonded - keeper[k].bonded_amount
      /\ treasury' = treasury + amount
      /\ now' = now
  BY KeeperFacts DEF Slash
<1> HIDE DEF bonded, slashed
<1>5. BondInv'
  BY <1>2, <1>3, <1>4, RebondInv
<1> QED
  BY <1>2, <1>4, <1>5 DEF bonded, slashed

(***************************************************************************)
(* update_seam_allocation stamps the keeper and moves no bond.             *)
(***************************************************************************)
LEMMA RebalancedKeepers ==
    ASSUME BondInv, NEW k \in Keeper, Rebalance(k)
    PROVE  /\ keeper' \in [Keeper -> KeeperRecord]
           /\ \A j \in Keeper :
                /\ keeper'[j].bonded_amount = keeper[j].bonded_amount
                /\ keeper'[j].slashed_amount = keeper[j].slashed_amount
                /\ keeper'[j].active = keeper[j].active
                /\ j # k => keeper'[j] = keeper[j]
           /\ keeper'[k].last_rebalance_at = now
           /\ keeper'[k].unbond_ready_at = now + keeper_unbond_cooldown_sec
<1>1. keeper \in [Keeper -> KeeperRecord] /\ now \in 0..MaxTime
  BY DEF BondInv
<1>2. CooldownEnd(k) \in 0..I64Max
  BY <1>1, WidthFacts DEF Rebalance, FitsI64, CooldownEnd
<1>3. keeper' = [keeper EXCEPT ![k].last_rebalance_at = now,
                               ![k].unbond_ready_at = CooldownEnd(k)]
  BY DEF Rebalance
<1>4. keeper'[k] = [keeper[k] EXCEPT !.last_rebalance_at = now,
                                     !.unbond_ready_at = CooldownEnd(k)]
  BY <1>1, <1>3
<1>5. \A j \in Keeper : j # k => keeper'[j] = keeper[j]
  BY <1>1, <1>3
<1>6. keeper'[k] \in KeeperRecord
  BY <1>1, <1>2, <1>4 DEF KeeperRecord
<1>7. /\ keeper'[k].bonded_amount = keeper[k].bonded_amount
      /\ keeper'[k].slashed_amount = keeper[k].slashed_amount
      /\ keeper'[k].active = keeper[k].active
      /\ keeper'[k].last_rebalance_at = now
      /\ keeper'[k].unbond_ready_at = now + keeper_unbond_cooldown_sec
  BY <1>1, <1>4 DEF KeeperRecord, CooldownEnd
<1>8. keeper' \in [Keeper -> KeeperRecord]
  BY <1>1, <1>3, <1>5, <1>6
<1> QED
  BY <1>5, <1>7, <1>8

LEMMA RebalanceInv ==
    ASSUME BondInv, NEW k \in Keeper, Rebalance(k)
    PROVE  BondInv'
<1>1. UNCHANGED <<now, keeper_count, lodz, bond_vault, treasury>>
  BY DEF Rebalance
<1>2. CountMatchesActiveKeepers'
  <2>1. {j \in Keeper : keeper'[j].active} = {j \in Keeper : keeper[j].active}
    BY RebalancedKeepers
  <2> QED BY <1>1, <2>1, RebalancedKeepers DEF BondInv, CountMatchesActiveKeepers
<1>3. BondsCovered'
  <2>1. [j \in Keeper |-> keeper'[j].bonded_amount]
                = [j \in Keeper |-> keeper[j].bonded_amount]
    BY RebalancedKeepers
  <2> QED BY <1>1, <2>1 DEF BondInv, BondsCovered, TotalBonded
<1>4. CooldownIsCurrent'
  BY RebalancedKeepers DEF BondInv, CooldownIsCurrent, HasRebalanced
<1>5. BalancesTyped' /\ now' \in 0..MaxTime
  BY <1>1 DEF BondInv, BalancesTyped
<1> QED
  BY <1>2, <1>3, <1>4, <1>5, RebalancedKeepers DEF BondInv

LEMMA KeepersStay ==
    ASSUME BondInv, UNCHANGED <<keeper, keeper_count>>, BalancesTyped',
           bond_vault' >= bond_vault, now' \in 0..MaxTime
    PROVE  BondInv'
<1>1. BondsCovered'
  <2>1. TotalBonded' = TotalBonded
    BY DEF TotalBonded
  <2>2. TotalBonded \in Nat /\ bond_vault \in Nat /\ bond_vault' \in Nat
    BY BondsType DEF BondInv, BalancesTyped
  <2> QED BY <2>1, <2>2 DEF BondInv, BondsCovered
<1> QED
  BY <1>1 DEF BondInv, CountMatchesActiveKeepers, CooldownIsCurrent, HasRebalanced

(***************************************************************************)
(* Transfers from outside reach the bond vault; none takes from it.        *)
(***************************************************************************)
LEMMA TransfersInv ==
    ASSUME BondInv, NEW k \in Keeper, NEW amount,
           SendToBondVault(k, amount) \/ SpendTreasury(k, amount)
    PROVE  BondInv' /\ keeper' = keeper
<1>1. lodz[k] \in Nat /\ lodz \in [Keeper -> Nat] /\ bond_vault \in Nat /\ treasury \in Nat
  BY DEF BondInv, BalancesTyped
<1>2. CASE SendToBondVault(k, amount)
  <2>1. amount \in Nat /\ lodz[k] - amount \in Nat
    BY <1>1, <1>2 DEF SendToBondVault
  <2>2. BalancesTyped'
    BY <1>1, <1>2, <2>1 DEF SendToBondVault, BalancesTyped
  <2>3. /\ UNCHANGED <<now, keeper, keeper_count>>
        /\ bond_vault' >= bond_vault
    BY <1>1, <1>2, <2>1 DEF SendToBondVault
  <2> QED BY <2>2, <2>3, KeepersStay DEF BondInv
<1>3. CASE SpendTreasury(k, amount)
  <2>1. amount \in Nat /\ treasury - amount \in Nat /\ lodz[k] + amount \in Nat
    BY <1>1, <1>3 DEF SpendTreasury
  <2>2. BalancesTyped'
    BY <1>1, <1>3, <2>1 DEF SpendTreasury, BalancesTyped
  <2>3. /\ UNCHANGED <<now, keeper, keeper_count>>
        /\ bond_vault' >= bond_vault
    BY <1>1, <1>3 DEF SpendTreasury
  <2> QED BY <2>2, <2>3, KeepersStay DEF BondInv
<1> QED
  BY <1>2, <1>3

LEMMA NextBondInv == BondInv /\ [Next]_vars => BondInv'
<1> SUFFICES ASSUME BondInv, [Next]_vars PROVE BondInv'
  OBVIOUS
<1>1. Tick => BondInv'
  <2>1. Tick => now' \in 0..MaxTime /\ BalancesTyped' /\ bond_vault' >= bond_vault
    BY DEF BondInv, BalancesTyped, Tick
  <2> QED BY <2>1, KeepersStay DEF Tick
<1>2. UNCHANGED vars => BondInv'
  <2>1. UNCHANGED vars
            => now' \in 0..MaxTime /\ BalancesTyped' /\ bond_vault' >= bond_vault
    BY DEF BondInv, BalancesTyped, vars
  <2> QED BY <2>1, KeepersStay DEF vars
<1> QED
  BY <1>1, <1>2, BondIsRebond, UnbondIsRebond, SlashIsRebond, TransfersInv,
     RebalanceInv DEF Next

LEMMA InitBondInv == Init => BondInv
<1> SUFFICES ASSUME Init PROVE BondInv
  OBVIOUS
<1>1. keeper \in [Keeper -> KeeperRecord]
  BY WidthFacts DEF Init, NewKeeper, KeeperRecord
<1>2. BalancesTyped /\ now \in 0..MaxTime
  BY DEF Init, BalancesTyped
<1>3. CountMatchesActiveKeepers
  <2>1. {k \in Keeper : keeper[k].active} = {}
    BY DEF Init, NewKeeper
  <2>2. \A k \in Keeper :
            keeper[k].active <=> keeper[k].bonded_amount >= min_keeper_bond
    BY DEF Init, NewKeeper
  <2> QED BY <2>1, <2>2, FS_EmptySet DEF Init, CountMatchesActiveKeepers
<1>4. BondsCovered
  <2> DEFINE f == [k \in Keeper |-> keeper[k].bonded_amount]
  <2>1. f \in [1..NumKeepers -> Nat] /\ \A i \in 1..NumKeepers : f[i] = 0
    BY DEF Init, NewKeeper, Keeper
  <2> HIDE DEF f
  <2>2. Total(f, NumKeepers) = 0
    BY <2>1, TotalOfZeros
  <2> QED BY <2>2 DEF Init, BondsCovered, TotalBonded, f
<1>5. CooldownIsCurrent
  BY DEF Init, NewKeeper, CooldownIsCurrent, HasRebalanced
<1> QED
  BY <1>1, <1>2, <1>3, <1>4, <1>5 DEF BondInv

LEMMA BondInvariant == Spec => []BondInv
BY InitBondInv, NextBondInv, PTL DEF Spec

-----------------------------------------------------------------------------
(***************************************************************************)
(* Types of the keepers' state, the count among them.                      *)
(***************************************************************************)
THEOREM KeepersTypeCorrect == Spec => []TypeOK
<1>1. BondInv => TypeOK
  <2> SUFFICES ASSUME BondInv PROVE TypeOK
    OBVIOUS
  <2>1. Cardinality({k \in Keeper : keeper[k].active}) \in 0..NumKeepers
    BY FewKeepers
  <2> QED
    BY <2>1 DEF BondInv, BalancesTyped, CountMatchesActiveKeepers, KeeperRecord,
                TypeOK
<1> QED
  BY <1>1, BondInvariant, PTL

(***************************************************************************)
(* keeper_count counts exactly the keepers whose bond is at the minimum.   *)
(***************************************************************************)
THEOREM CountIsExact == Spec => []CountMatchesActiveKeepers
<1>1. BondInv => CountMatchesActiveKeepers
  BY DEF BondInv
<1> QED
  BY <1>1, BondInvariant, PTL

(***************************************************************************)
(* Whatever is bonded, unbonded, slashed and sent, the bond vault holds at *)
(* least the sum of the bonds.                                             *)
(***************************************************************************)
THEOREM BondsAreFunded == Spec => []BondsCovered
<1>1. BondInv => BondsCovered
  BY DEF BondInv
<1> QED
  BY <1>1, BondInvariant, PTL

(***************************************************************************)
(* What a step may do to keeper k while its cooldown runs.                 *)
(***************************************************************************)
Stays(k) ==
    InCooldown(k) =>
        LET drop == keeper[k].bonded_amount - keeper'[k].bonded_amount
        IN  drop > 0 => treasury' - treasury = drop

LEMMA NextBondStays == BondInv /\ [Next]_vars => [\A k \in Keeper : Stays(k)]_vars
<1> SUFFICES ASSUME BondInv, Next, NEW k \in Keeper PROVE Stays(k)
  OBVIOUS
<1>1. keeper[k].bonded_amount \in Nat
  BY KeeperFacts
<1>2. keeper'[k].bonded_amount = keeper[k].bonded_amount => Stays(k)
  BY <1>1 DEF Stays
<1>3. ASSUME NEW j \in Keeper, NEW amount \in 1..InitialLodz, Bond(j, amount)
      PROVE  Stays(k)
  <2>1. /\ keeper'[j].bonded_amount = keeper[j].bonded_amount + amount
        /\ j # k => keeper'[k] = keeper[k]
    BY <1>3, BondIsRebond, RebondedKeeper DEF BondInv
  <2> QED BY <1>1, <1>2, <2>1 DEF Stays
<1>4. ASSUME NEW j \in Keeper, NEW amount \in 1..InitialLodz, Unbond(j, amount)
      PROVE  Stays(k)
  <2>1. j # k => keeper'[k] = keeper[k]
    BY <1>4, UnbondIsRebond, RebondedKeeper DEF BondInv
  <2>2. j = k => ~ InCooldown(k)
    BY <1>4 DEF Unbond, InCooldown, BondInv, CooldownIsCurrent, KeeperRecord
  <2> QED BY <1>2, <2>1, <2>2 DEF Stays
<1>5. ASSUME NEW j \in Keeper, NEW amount \in 1..InitialLodz, Slash(j, amount)
      PROVE  Stays(k)
  <2>1. /\ keeper'[j].bonded_amount = keeper[j].bonded_amount - amount
        /\ j # k => keeper'[k] = keeper[k]
        /\ treasury' = treasury + amount
    BY <1>5, SlashIsRebond, RebondedKeeper DEF BondInv
  <2> QED BY <1>1, <1>2, <2>1, KeeperFacts DEF Stays
<1>6. ASSUME NEW j \in Keeper, Rebalance(j) PROVE Stays(k)
  BY <1>2, <1>6, RebalancedKeepers
<1>7. ASSUME NEW j \in Keeper, NEW amount \in 1..InitialLodz,
             SendToBondVault(j, amount) \/ SpendTreasury(j, amount)
      PROVE  Stays(k)
  BY <1>2, <1>7, TransfersInv
<1>8. Tick => Stays(k)
  BY <1>2 DEF Tick
<1> QED
  BY <1>3, <1>4, <1>5, <1>6, <1>7, <1>8 DEF Next

(***************************************************************************)
(* After a rebalance a bond leaves a keeper only by a slash, until the     *)
(* cooldown is over.                                                       *)
(***************************************************************************)
THEOREM BondHeldThroughCooldown == Spec => BondStaysThroughCooldown
<1>1. [\A k \in Keeper : Stays(k)]_vars =>
        [\A k \in Keeper :
            InCooldown(k) =>
                LET drop == keeper[k].bonded_amount - keeper'[k].bonded_amount
                IN  drop > 0 => treasury' - treasury = drop]_vars
  BY Zenon DEF Stays
<1> QED
  BY <1>1, BondInvariant, NextBondStays, PTL DEF Spec, BondStaysThroughCooldown

(***************************************************************************)
(* The bond vault holds every bond, and slash_keeper reads neither the     *)
(* cooldown nor the flag: a keeper's bond can be slashed in any amount in  *)
(* every state, as long as the sum of its slashes fits u64.                *)
(***************************************************************************)
THEOREM BondsAlwaysSlashable == Spec => []BondAlwaysSlashable
<1>1. BondInv => BondAlwaysSlashable
  <2> SUFFICES ASSUME BondInv, NEW k \in Keeper,
                      NEW amount \in 1..keeper[k].bonded_amount,
                      Fits64(keeper[k].slashed_amount + amount)
               PROVE  CanSlash(k, amount)
    BY DEF BondAlwaysSlashable
  <2> DEFINE f == [j \in Keeper |-> keeper[j].bonded_amount]
  <2>1. f \in [1..NumKeepers -> Nat]
    BY WidthFacts DEF BondInv, KeeperRecord, Keeper
  <2>2. Total(f, NumKeepers) <= bond_vault /\ Total(f, NumKeepers) \in Nat
    BY BondsType DEF BondInv, BondsCovered, TotalBonded
  <2>3. f[k] = keeper[k].bonded_amount /\ k \in 1..NumKeepers
    BY DEF Keeper
  <2> HIDE DEF f
  <2>4. f[k] <= Total(f, NumKeepers)
    BY <2>1, <2>3, SummandAtMostTotal
  <2>5. keeper[k].bonded_amount \in Nat /\ bond_vault \in Nat
    BY KeeperFacts
  <2> QED
    BY <2>2, <2>3, <2>4, <2>5 DEF CanSlash
<1> QED
  BY <1>1, BondInvariant, PTL
=============================================================================
