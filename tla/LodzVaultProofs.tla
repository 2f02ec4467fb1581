-------------------------- MODULE LodzVaultProofs ---------------------------
(***************************************************************************)
(* Theorems about the program, for any owners, stopes, assets, seams,      *)
(* keepers and keys.  Every instruction is a step, or a stutter, of every  *)
(* component, so what is proved of a component on its own holds here; what *)
(* relates two components is proved from their invariants together.        *)
(*                                                                         *)
(* The first parts are about single steps and take from the components     *)
(* only what Proved says.  The last part instantiates the proofs of the    *)
(* components, which establish Proved, and states what holds of every run. *)
(***************************************************************************)
EXTENDS LodzVault, LodzMathProofs

-----------------------------------------------------------------------------
(***************************************************************************)
(* What the steps of one component need to know of another.                *)
(***************************************************************************)
VaultInv ==
    /\ Custody!CustodyInv
    /\ Custody!RatiosPinned
    /\ Pool!TypeOK
    /\ Seams!RegistryInv
    /\ Queue!TypeOK

Advance ==
    /\ [Admin!Next]_(Admin!vars)
    /\ [Custody!Next]_(Custody!vars)
    /\ [Pool!Next]_(Pool!vars)
    /\ [Seams!Next]_(Seams!vars)
    /\ [Keepers!Next]_(Keepers!vars)
    /\ [Queue!Next]_(Queue!vars)

(***************************************************************************)
(* An instruction that leaves a component's variables alone lets it        *)
(* stutter.                                                                *)
(***************************************************************************)
LEMMA Stutters ==
    /\ UNCHANGED admin_vars => UNCHANGED Admin!vars
    /\ UNCHANGED custody_vars => UNCHANGED Custody!vars
    /\ UNCHANGED pool_vars => UNCHANGED Pool!vars
    /\ UNCHANGED <<now, seam_vars>> => UNCHANGED Seams!vars
    /\ UNCHANGED <<now, keeper_vars>> => UNCHANGED Keepers!vars
    /\ UNCHANGED <<now, queue_vars>> => UNCHANGED Queue!vars
BY DEF admin_vars, custody_vars, pool_vars, seam_vars, keeper_vars, queue_vars,
       Admin!vars, Custody!vars, Pool!vars, Seams!vars,
       Keepers!vars, Queue!vars

(***************************************************************************)
(* What the bounds of a payout need to know of the assets.                 *)
(***************************************************************************)
LEMMA CustodyFacts ==
    ASSUME VaultInv
    PROVE  /\ DOMAIN adit \subseteq Asset
           /\ \A a \in DOMAIN adit :
                /\ adit[a].conversion.num \in Nat \ {0}
                /\ adit[a].conversion.den \in Nat \ {0}
           /\ \A a \in Asset : adit_vault[a] \in Nat /\ adit_vault[a] <= Supply
           /\ Supply \in Nat
<1>1. Custody!CustodyAssumption
  BY AssetsAssumption DEF Custody!CustodyAssumption, Custody!U64
<1>2. Custody!TypeOK /\ Custody!SupplyInv /\ Custody!RatiosPinned
  BY DEF VaultInv, Custody!CustodyInv
<1>3. Supply \in Nat /\ Custody!U64 \subseteq Nat
  BY <1>1, MathAssumption DEF Custody!CustodyAssumption, Custody!U64
<1>4. DOMAIN adit \subseteq Asset /\ \A a \in DOMAIN adit : adit[a].conversion \in Conversions
  BY <1>2 DEF Custody!TypeOK, Custody!AditRecord
<1>5. \A a \in DOMAIN adit : /\ adit[a].conversion.num \in Nat \ {0}
                             /\ adit[a].conversion.den \in Nat \ {0}
  BY <1>1, <1>2, <1>4 DEF Custody!CustodyAssumption, Custody!RatiosPinned
<1>6. \A a \in Asset : adit_vault[a] \in Nat /\ outside[a] \in Nat /\ withheld[a] \in Nat
  BY <1>2, <1>3, Zenon DEF Custody!TypeOK
<1>7. \A a \in Asset : adit_vault[a] + outside[a] + withheld[a] <= Supply
  BY <1>2 DEF Custody!SupplyInv, Custody!Lost
<1>8. \A a \in Asset : adit_vault[a] <= Supply
  BY <1>3, <1>6, <1>7
<1> QED
  BY <1>3, <1>4, <1>5, <1>6, <1>8

(***************************************************************************)
(* Instruction by instruction: the operations it calls are steps of their  *)
(* components, with arguments of the right types.                          *)
(***************************************************************************)
LEMMA MakeDepositAdvances ==
    ASSUME VaultInv, NEW o \in Owner, NEW s \in Stope, NEW a \in Asset,
           NEW amount \in 1..Supply, MakeDeposit(o, s, a, amount)
    PROVE  Advance
<1> DEFINE n == Custody!Normalized(a, amount)
<1>1. /\ Custody!TakeDeposit(a, amount) /\ Pool!MintShares(o, s, n)
      /\ UNCHANGED <<now, admin_vars, seam_vars, keeper_vars, queue_vars>>
  BY DEF MakeDeposit
<1>2. n \in U64 \ {0}
  BY <1>1 DEF Custody!TakeDeposit, Custody!Receive, Custody!RoomForCredit, Custody!Fits64,
              Custody!U64, U64
<1>3. Custody!Next
  BY <1>1 DEF Custody!Next
<1>4. Pool!Next
  BY <1>1, <1>2 DEF Pool!Next, Pool!Stope, Pool!Owner, Pool!U64,
                    Stope, Owner, U64
<1> QED
  BY <1>1, <1>3, <1>4, Stutters DEF Advance

LEMMA SeamFacts ==
    ASSUME VaultInv, NEW id \in DOMAIN seam
    PROVE  /\ seam[id].stope_id \in Stope
           /\ seam[id].asset_mint \in Asset
           /\ seam[id].yield_kind \in YieldKind
           /\ id \in 1..NumSeams
BY DEF VaultInv, Seams!RegistryInv, Seams!SeamsTyped, Seams!SeamRecord,
       Seams!YieldKind, YieldKind, Seams!SeamId

LEMMA AccrueYieldAdvances ==
    ASSUME VaultInv, NEW k \in Keeper, NEW id \in 1..NumSeams,
           NEW amount \in 1..Supply, AccrueYield(k, id, amount)
    PROVE  Advance
<1> DEFINE a == seam[id].asset_mint
           s == seam[id].stope_id
           kind == seam[id].yield_kind
           n == Custody!Normalized(a, amount)
<1>1. /\ id \in DOMAIN seam
      /\ Custody!TakeYield(a, amount)
      /\ Seams!SeamAccrues(id, n)
      /\ Pool!BookYield(s, kind, n)
      /\ UNCHANGED <<now, admin_vars, keeper_vars, queue_vars>>
  BY DEF AccrueYield, KindBooked
<1>2. a \in Asset /\ s \in Stope /\ kind \in YieldKind
  BY <1>1, SeamFacts
<1>3. n \in U64 \ {0}
  BY <1>1 DEF Custody!TakeYield, Custody!Receive, Custody!RoomForCredit, Custody!Fits64,
              Custody!U64, U64
<1> HIDE DEF n, a, s, kind
<1>4. Custody!Next
  BY <1>1, <1>2 DEF Custody!Next
<1>5. Pool!Next
  BY <1>1, <1>2, <1>3 DEF Pool!Next, Pool!Stope, Pool!U64, Stope, U64
<1>6. Seams!Next
  BY <1>1, <1>3 DEF Seams!Next, Seams!U64, U64
<1> QED
  BY <1>1, <1>4, <1>5, <1>6, Stutters DEF Advance

LEMMA FeeWithinBasis ==
    ASSUME NEW basis \in Nat
    PROVE  BpsFraction(basis, fee_bps) \in 0..basis
<1>1. /\ fee_bps \in Nat /\ fee_bps <= BPS_DENOMINATOR
      /\ BPS_DENOMINATOR \in Nat /\ BPS_DENOMINATOR > 0
  BY MathAssumption, VaultAssumption
<1> DEFINE fee == BpsFraction(basis, fee_bps)
<1>2. fee \in Nat /\ BPS_DENOMINATOR * fee <= basis * fee_bps
  BY <1>1, MulDivFloorBounds DEF BpsFraction
<1> HIDE DEF fee
<1>3. basis * fee_bps <= BPS_DENOMINATOR * basis
  BY <1>1, SMT
<1>4. BPS_DENOMINATOR * fee <= BPS_DENOMINATOR * basis
  <2>1. BPS_DENOMINATOR * fee \in Nat /\ basis * fee_bps \in Nat /\ BPS_DENOMINATOR * basis \in Nat
    BY <1>1, <1>2, SMT
  <2> QED BY <1>2, <1>3, <2>1
<1>5. fee <= basis
  <2>1. SUFFICES ASSUME fee >= basis + 1 PROVE FALSE
    BY <1>2
  <2>2. BPS_DENOMINATOR * (basis + 1) <= BPS_DENOMINATOR * fee
    BY <1>1, <1>2, <2>1, SMT
  <2>3. BPS_DENOMINATOR * (basis + 1) = BPS_DENOMINATOR * basis + BPS_DENOMINATOR
    BY <1>1, SMT
  <2> QED BY <1>1, <1>2, <1>4, <2>2, <2>3, SMT
<1> QED
  BY <1>2, <1>5 DEF fee

LEMMA TermsFit ==
    ASSUME VaultInv, NEW o \in Owner, NEW s \in Stope, NEW a \in DOMAIN adit,
           NEW shares \in U64, Pool!CanBurn(o, s, shares),
           Fits64(Custody!NativeUnits(a, Terms(o, s, a, shares).normalized_amount))
    PROVE  Terms(o, s, a, shares) \in TicketTerms
<1> DEFINE n == Pool!RedemptionValue(s, shares)
           basis == Pool!FeeBasis(o, s, shares)
           fee == BpsFraction(basis, fee_bps)
           left == SaturatingSub(n, fee)
           num == adit[a].conversion.num
           den == adit[a].conversion.den
           sum == Pool!SumOfKinds(Pool!ClaimedYield(o, s, shares))
<1>1. n \in 0..U64Max /\ sum \in 0..U64Max
  BY DEF Pool!CanBurn, Pool!Fits64, Pool!U64
<1>2. basis = IF sum <= n THEN sum ELSE n
  BY DEF Pool!FeeBasis, Pool!AtMost
<1>3. /\ Terms(o, s, a, shares).normalized_amount = n
      /\ Terms(o, s, a, shares)
            = [asset_mint |-> a, normalized_amount |-> n, fee_normalized |-> fee,
               payout_amount |-> (left * den) \div num]
  BY DEF Terms, Custody!NativeUnits, Custody!FromNormalized, Custody!MulDivFloor
<1>4. a \in Asset /\ num \in Nat /\ num > 0 /\ den \in Nat
  BY CustodyFacts
<1>5. (n * den) \div num \in 0..U64Max
  BY <1>3
     DEF Custody!NativeUnits, Custody!FromNormalized, Custody!MulDivFloor, Fits64, U64
<1> HIDE DEF n, basis, sum, num, den
<1>6. basis \in Nat /\ basis <= n
  BY <1>1, <1>2
<1>7. fee \in 0..basis
  BY <1>6, FeeWithinBasis
<1> HIDE DEF fee
<1>8. left \in Nat /\ left <= n
  BY <1>1, <1>6, <1>7 DEF SaturatingSub
<1> HIDE DEF left
<1>9. (left * den) \div num <= (n * den) \div num /\ (left * den) \div num \in Nat
  <2>1. left * den \in Nat /\ n * den \in Nat /\ left * den <= n * den
    BY <1>1, <1>4, <1>8, SMT
  <2> QED BY <1>4, <2>1, QuotientMonotone, DivBounds
<1>10. U64Max \in Nat
  BY MathAssumption
<1> QED
  BY <1>1, <1>3, <1>4, <1>5, <1>6, <1>7, <1>9, <1>10 DEF TicketTerms, U64

LEMMA RequestRedemptionAdvances ==
    ASSUME VaultInv, NEW o \in Owner, NEW s \in Stope, NEW a \in Asset,
           NEW shares \in U64, RequestRedemption(o, s, a, shares)
    PROVE  Advance
<1>1. /\ a \in DOMAIN adit
      /\ Pool!BurnShares(o, s, shares)
      /\ Fits64(Custody!NativeUnits(a, Terms(o, s, a, shares).normalized_amount))
      /\ Queue!Issue(o, s, Terms(o, s, a, shares))
      /\ UNCHANGED <<admin_vars, custody_vars, seam_vars, keeper_vars>>
  BY Zenon DEF RequestRedemption
<1>2. Terms(o, s, a, shares) \in TicketTerms
  BY <1>1, TermsFit DEF Pool!BurnShares
<1>3. shares # 0 /\ UNCHANGED now
  <2>1. shares \in 1..miner[s][o].shares
    BY <1>1 DEF Pool!BurnShares, Pool!CanBurn
  <2>2. UNCHANGED now
    BY <1>1 DEF Queue!Issue
  <2> QED BY <2>1, <2>2
<1>4. Pool!Next
  BY <1>1, <1>3 DEF Pool!Next, Pool!Stope, Pool!Owner, Pool!U64,
                    Stope, Owner, U64
<1>5. Queue!Next
  BY <1>1, <1>2, Zenon DEF Queue!Next
<1> QED
  BY <1>1, <1>3, <1>4, <1>5, Stutters DEF Advance

LEMMA ClaimRedemptionAdvances ==
    ASSUME VaultInv, NEW address \in DOMAIN ticket, ClaimRedemption(address)
    PROVE  Advance
<1> DEFINE a == ticket[address].terms.asset_mint
           payout == ticket[address].terms.payout_amount
<1>1. /\ Queue!Settle(address)
      /\ Custody!PayOut(a, payout)
      /\ UNCHANGED <<admin_vars, pool_vars, seam_vars, keeper_vars>>
  BY DEF ClaimRedemption
<1>2. a \in Asset /\ payout \in Nat
  <2>1. ticket[address].terms \in TicketTerms
    BY DEF VaultInv, Queue!TypeOK, Queue!TicketRecord
  <2>2. U64 \subseteq Nat
    BY MathAssumption DEF U64
  <2> QED BY <2>1, <2>2 DEF TicketTerms
<1> HIDE DEF a, payout
<1>3. payout > 0 /\ payout <= adit_vault[a]
  BY <1>1, <1>2, CustodyFacts DEF Custody!PayOut
<1>4. payout \in 1..Supply
  BY <1>2, <1>3, CustodyFacts
<1>5. Custody!Next
  BY <1>1, <1>2, <1>4 DEF Custody!Next
<1>6. Queue!Next
  BY <1>1, ZenonT(60) DEF Queue!Next
<1>7. UNCHANGED now
  BY <1>1, Zenon DEF Queue!Settle
<1> QED
  BY <1>1, <1>5, <1>6, <1>7, Stutters DEF Advance

LEMMA UpdateSeamAllocationAdvances ==
    ASSUME VaultInv, NEW k \in Keeper, NEW id \in 1..NumSeams, NEW bps \in Weights,
           UpdateSeamAllocation(k, id, bps)
    PROVE  Advance
<1>1. /\ id \in DOMAIN seam
      /\ Keepers!Rebalance(k)
      /\ Seams!UpdateAllocation(id, bps)
      /\ UNCHANGED <<admin_vars, custody_vars, pool_vars, queue_vars>>
  BY Zenon DEF UpdateSeamAllocation
<1>2. Seams!Next
  BY <1>1, Zenon DEF Seams!Next
<1>3. Keepers!Next
  BY <1>1, Zenon DEF Keepers!Next, Keepers!Keeper, Keeper
<1>4. UNCHANGED now
  BY <1>1 DEF Seams!UpdateAllocation
<1> QED
  BY <1>1, <1>2, <1>3, <1>4, Stutters DEF Advance

LEMMA BondAdvances ==
    ASSUME VaultInv, NEW k \in Keeper, NEW amount \in 1..InitialLodz,
           \/ BondKeeper(k, amount) \/ UnbondKeeper(k, amount)
           \/ \E signer : SlashKeeper(signer, k, amount)
    PROVE  Advance
<1>1. /\ \/ Keepers!Bond(k, amount) \/ Keepers!Unbond(k, amount)
         \/ Keepers!Slash(k, amount)
      /\ UNCHANGED <<admin_vars, custody_vars, pool_vars, seam_vars, queue_vars>>
  BY Zenon DEF BondKeeper, UnbondKeeper, SlashKeeper
<1>2. Keepers!Next
  BY <1>1, Zenon DEF Keepers!Next, Keepers!Keeper, Keeper
<1>3. UNCHANGED now
  BY <1>1 DEF Keepers!Bond, Keepers!Unbond, Keepers!Slash
<1> QED
  BY <1>1, <1>2, <1>3, Stutters DEF Advance

LEMMA RegisterAditAdvances ==
    ASSUME VaultInv, NEW k \in Signers, NEW a \in Asset, NEW c \in Conversions,
           NEW cap \in DepositCaps, RegisterAdit(k, a, c, cap)
    PROVE  Advance
<1>1. /\ Custody!RegisterAdit(a, c, cap)
      /\ UNCHANGED <<now, admin_vars, pool_vars, seam_vars, keeper_vars, queue_vars>>
  BY Zenon DEF RegisterAdit
<1>2. Custody!Next
  BY <1>1, Zenon DEF Custody!Next
<1> QED
  BY <1>1, <1>2, Stutters DEF Advance

LEMMA RegisterSeamAdvances ==
    ASSUME VaultInv, NEW k \in Signers, NEW id \in 1..NumSeams, NEW s \in Stope,
           NEW declared \in Seams!Declarations, RegisterSeam(k, id, s, declared)
    PROVE  Advance
<1>1. /\ Seams!RegisterSeam(id, s, declared)
      /\ declared \in Seams!Declarations
      /\ UNCHANGED <<admin_vars, custody_vars, pool_vars, keeper_vars, queue_vars>>
  BY Zenon DEF RegisterSeam
<1>2. Seams!Next
  BY <1>1, Zenon DEF Seams!Next, Seams!SeamId
<1>3. UNCHANGED now
  BY <1>1 DEF Seams!RegisterSeam
<1> QED
  BY <1>1, <1>2, <1>3, Stutters DEF Advance

LEMMA AdministerAdvances ==
    ASSUME VaultInv, NEW k \in Signers, Administer(k)
    PROVE  Advance
<1>1. UNCHANGED <<now, custody_vars, pool_vars, seam_vars, keeper_vars, queue_vars>>
  BY Zenon DEF Administer
<1>2. Admin!Next
  <2>1. CASE Admin!InitializeVault(k, InitialParams)
    BY <2>1 DEF Admin!Next
  <2>2. ASSUME NEW s \in Stope, NEW profile \in {"Conservative", "Balanced",
  "Aggressive"},
               Admin!OpenStope(k, s - 1, profile)
        PROVE  Admin!Next
    <3>1. s - 1 \in 0..Admin!STOPE_COUNT
      BY VaultAssumption DEF Admin!STOPE_COUNT, Stope
    <3> QED BY <2>2, <3>1, Zenon DEF Admin!Next
  <2>3. ASSUME NEW newAuthority \in Admin!Key \cup {NoKey},
               Admin!ProposeAuthority(k, newAuthority)
        PROVE  Admin!Next
    BY <2>3, Zenon DEF Admin!Next
  <2>4. CASE \/ Admin!InitializeBondVault(k) \/ Admin!PauseVault(k)
             \/ Admin!UnpauseVault(k) \/ Admin!AcceptAuthority(k)
    BY <2>4, Zenon DEF Admin!Next
  <2> QED
    BY <2>1, <2>2, <2>3, <2>4, Zenon DEF Administer
<1> QED
  BY <1>1, <1>2, Stutters DEF Advance

LEMMA SendDirectlyAdvances ==
    ASSUME VaultInv, NEW a \in Asset, NEW amount \in 1..Supply, SendDirectly(a, amount)
    PROVE  Advance
<1>1. /\ Custody!SendDirectly(a, amount)
      /\ UNCHANGED <<now, admin_vars, pool_vars, seam_vars, keeper_vars, queue_vars>>
  BY Zenon DEF SendDirectly
<1>2. Custody!Next
  BY <1>1, Zenon DEF Custody!Next
<1> QED
  BY <1>1, <1>2, Stutters DEF Advance

LEMMA SendLodzAdvances ==
    ASSUME VaultInv, NEW k \in Keeper, NEW amount \in 1..InitialLodz, SendLodz(k, amount)
    PROVE  Advance
<1>1. /\ Keepers!SendToBondVault(k, amount) \/ Keepers!SpendTreasury(k, amount)
      /\ UNCHANGED <<now, admin_vars, custody_vars, pool_vars, seam_vars, queue_vars>>
  BY Zenon DEF SendLodz
<1>2. Keepers!Next
  BY <1>1, Zenon DEF Keepers!Next, Keepers!Keeper, Keeper
<1> QED
  BY <1>1, <1>2, Stutters DEF Advance

LEMMA TickAdvances ==
    ASSUME VaultInv, Tick
    PROVE  Advance
<1>1. /\ Seams!Tick /\ Keepers!Tick /\ Queue!Tick
      /\ UNCHANGED <<admin_vars, custody_vars, pool_vars>>
  BY Zenon DEF Tick
<1> QED
  BY <1>1, Stutters DEF Advance, Seams!Next, Keepers!Next, Queue!Next

LEMMA NextAdvances == VaultInv /\ [Next]_vars => Advance
<1> SUFFICES ASSUME VaultInv, [Next]_vars PROVE Advance
  OBVIOUS
<1>1. CASE Money
  BY <1>1, MakeDepositAdvances, RequestRedemptionAdvances, ClaimRedemptionAdvances
     DEF Money
<1>2. CASE Keeping
  BY <1>2, AccrueYieldAdvances, UpdateSeamAllocationAdvances, BondAdvances DEF Keeping
<1>3. CASE Governing
  BY <1>3, AdministerAdvances, BondAdvances, RegisterAditAdvances, RegisterSeamAdvances
     DEF Governing
<1>4. CASE \E a \in Asset, amount \in 1..Supply : SendDirectly(a, amount)
  BY <1>4, SendDirectlyAdvances
<1>5. CASE Tick
  BY <1>5, TickAdvances
<1>6. CASE \E k \in Keeper, amount \in 1..InitialLodz : SendLodz(k, amount)
  BY <1>6, SendLodzAdvances
<1>7. CASE UNCHANGED vars
  BY <1>7, Stutters DEF vars, Advance
<1> QED
  BY <1>1, <1>2, <1>3, <1>4, <1>5, <1>6, <1>7 DEF Next

-----------------------------------------------------------------------------
(***************************************************************************)
(* What is proved of each component on its own, and used of it here: its   *)
(* invariants are inductive, and its operations do what their effects say. *)
(* The lemmas that rest on it assume it, and the last part of this module  *)
(* discharges it from the proofs of the components.                        *)
(***************************************************************************)
CustodyProved ==
    /\ Custody!Init => Custody!CustodyInv
    /\ Custody!CustodyInv /\ [Custody!Next]_(Custody!vars) => Custody!CustodyInv'
    /\ Custody!TypeOK /\ Custody!RatiosPinned /\ [Custody!Next]_(Custody!vars)
            => Custody!RatiosPinned'

PoolProved ==
    /\ Pool!Init => Pool!TypeOK
    /\ Pool!TypeOK /\ [Pool!Next]_(Pool!vars) => Pool!TypeOK'
    /\ Pool!TypeOK =>
            \A s \in Stope, n \in U64 :
                /\ \A o \in Owner : Pool!MintShares(o, s, n) => Pool!Minted(o, s, n)
                /\ \A o \in Owner : Pool!BurnShares(o, s, n) => Pool!Redeemed(o, s, n)
                /\ \A kind \in YieldKind :
                        Pool!BookYield(s, kind, n) => Pool!Booked(s, kind, n)
    /\ Pool!PoolInv =>
            \A o \in Owner, s \in Stope, n \in U64 \ {0} :
                Pool!BurnShares(o, s, n) =>
                    /\ Pool!RedemptionValue(s, n) <= stope[s].total_deposits
                    /\ stope'[s].total_shares = stope[s].total_shares - n
                    /\ stope'[s].total_deposits
                            = stope[s].total_deposits - Pool!RedemptionValue(s, n)
                    /\ miner'[s][o].shares = miner[s][o].shares - n

SeamsProved ==
    /\ Seams!Init => Seams!RegistryInv
    /\ Seams!RegistryInv /\ [Seams!Next]_(Seams!vars) => Seams!RegistryInv'
    /\ Seams!RegistryInv =>
            \A id \in DOMAIN seam : seam[id].yield_kind = "Counterparty" =>
                seam[id].allocation_bps <= allocation[seam[id].stope_id].counterparty_bps

KeepersProved ==
    Keepers!BondInv =>
        \A k \in Keeper :
            /\ \A n \in 1..InitialLodz :
                /\ Keepers!Bond(k, n) =>
                        Keepers!Rebonds(k, keeper[k].bonded_amount + n,
                                        keeper[k].slashed_amount)
                /\ Keepers!Unbond(k, n) =>
                        Keepers!Rebonds(k, keeper[k].bonded_amount - n,
                                        keeper[k].slashed_amount)
                /\ Keepers!Slash(k, n) =>
                        Keepers!Rebonds(k, keeper[k].bonded_amount - n,
                                        keeper[k].slashed_amount + n)
            /\ \A bonded, slashed : Keepers!Rebonds(k, bonded, slashed) =>
                /\ keeper'[k].bonded_amount = bonded
                /\ keeper'[k].slashed_amount = slashed
                /\ keeper'[k].active = Keepers!ShouldBeActive(bonded)
                /\ keeper'[k].last_rebalance_at = keeper[k].last_rebalance_at
                /\ \A j \in Keeper : j # k => keeper'[j] = keeper[j]
            /\ Keepers!Rebalance(k) =>
                /\ keeper'[k].last_rebalance_at = now
                /\ \A j \in Keeper :
                    /\ keeper'[j].bonded_amount = keeper[j].bonded_amount
                    /\ keeper'[j].slashed_amount = keeper[j].slashed_amount
                    /\ keeper'[j].active = keeper[j].active
                    /\ j # k => keeper'[j] = keeper[j]

QueueProved ==
    /\ Queue!Init => Queue!TypeOK
    /\ Queue!TypeOK /\ [Queue!Next]_(Queue!vars) => Queue!TypeOK'
    /\ \A o \in Owner, s \in Stope, terms \in TicketTerms :
            Queue!Issue(o, s, terms) => Queue!Issued(o, s, terms)
    /\ Queue!TypeOK => \A x \in DOMAIN ticket : Queue!Settle(x) => Queue!Claimed(x)

Proved ==
    CustodyProved /\ PoolProved /\ SeamsProved /\ KeepersProved /\ QueueProved

LEMMA MintEffect ==
    ASSUME Proved, Pool!TypeOK, NEW o \in Owner, NEW s \in Stope, NEW n \in U64,
           Pool!MintShares(o, s, n)
    PROVE  Pool!Minted(o, s, n)
BY DEF Proved, PoolProved

LEMMA BurnEffect ==
    ASSUME Proved, Pool!TypeOK, NEW o \in Owner, NEW s \in Stope, NEW n \in U64,
           Pool!BurnShares(o, s, n)
    PROVE  Pool!Redeemed(o, s, n)
BY DEF Proved, PoolProved

LEMMA BookEffect ==
    ASSUME Proved, Pool!TypeOK, NEW s \in Stope, NEW kind \in YieldKind, NEW n \in U64,
           Pool!BookYield(s, kind, n)
    PROVE  Pool!Booked(s, kind, n)
BY DEF Proved, PoolProved

LEMMA BurnIsExact ==
    ASSUME Proved, Pool!PoolInv, NEW o \in Owner, NEW s \in Stope, NEW n \in U64 \ {0},
           Pool!BurnShares(o, s, n)
    PROVE  /\ Pool!RedemptionValue(s, n) <= stope[s].total_deposits
           /\ stope'[s].total_shares = stope[s].total_shares - n
           /\ stope'[s].total_deposits
                    = stope[s].total_deposits - Pool!RedemptionValue(s, n)
           /\ miner'[s][o].shares = miner[s][o].shares - n
BY DEF Proved, PoolProved

LEMMA WeightIsCounted ==
    ASSUME Proved, Seams!RegistryInv, NEW id \in DOMAIN seam,
           seam[id].yield_kind = "Counterparty"
    PROVE  seam[id].allocation_bps <= allocation[seam[id].stope_id].counterparty_bps
BY DEF Proved, SeamsProved

LEMMA RebondedKeeper ==
    ASSUME Proved, Keepers!BondInv, NEW k \in Keeper, NEW bonded, NEW slashed,
           Keepers!Rebonds(k, bonded, slashed)
    PROVE  /\ keeper'[k].bonded_amount = bonded
           /\ keeper'[k].slashed_amount = slashed
           /\ keeper'[k].active = Keepers!ShouldBeActive(bonded)
           /\ keeper'[k].last_rebalance_at = keeper[k].last_rebalance_at
           /\ \A j \in Keeper : j # k => keeper'[j] = keeper[j]
BY DEF Proved, KeepersProved

LEMMA BondIsRebond ==
    ASSUME Proved, Keepers!BondInv, NEW k \in Keeper, NEW n \in 1..InitialLodz
    PROVE  /\ Keepers!Bond(k, n) =>
                Keepers!Rebonds(k, keeper[k].bonded_amount + n, keeper[k].slashed_amount)
           /\ Keepers!Unbond(k, n) =>
                Keepers!Rebonds(k, keeper[k].bonded_amount - n, keeper[k].slashed_amount)
           /\ Keepers!Slash(k, n) =>
                Keepers!Rebonds(k, keeper[k].bonded_amount - n,
                                keeper[k].slashed_amount + n)
BY DEF Proved, KeepersProved

LEMMA RebalancedKeepers ==
    ASSUME Proved, Keepers!BondInv, NEW k \in Keeper, Keepers!Rebalance(k)
    PROVE  /\ keeper'[k].last_rebalance_at = now
           /\ \A j \in Keeper :
                /\ keeper'[j].bonded_amount = keeper[j].bonded_amount
                /\ keeper'[j].slashed_amount = keeper[j].slashed_amount
                /\ keeper'[j].active = keeper[j].active
                /\ j # k => keeper'[j] = keeper[j]
BY DEF Proved, KeepersProved

LEMMA KeeperFacts ==
    ASSUME Keepers!BondInv, NEW k \in Keeper
    PROVE  /\ keeper[k] \in Keepers!KeeperRecord
           /\ keeper[k].bonded_amount \in Nat
BY MathAssumption
   DEF Keepers!BondInv, Keepers!KeeperRecord, Keepers!Keeper, Keeper, Keepers!U64

LEMMA ReallocatedType ==
    ASSUME NEW a \in Seams!RoutingRecord, NEW kind, NEW previous \in Nat, NEW next \in Nat
    PROVE  Seams!Reallocated(a, kind, previous, next) \in Seams!RoutingRecord
<1>1. \A total \in Nat : Seams!Moved(total, previous, next) \in Nat
  BY DEF Seams!Moved, Seams!SaturatingSub
<1> QED
  BY <1>1 DEF Seams!Reallocated, Seams!RoutingRecord

LEMMA IssueEffect ==
    ASSUME Proved, NEW o \in Owner, NEW s \in Stope, NEW terms \in TicketTerms,
           Queue!Issue(o, s, terms)
    PROVE  Queue!Issued(o, s, terms)
BY DEF Proved, QueueProved

LEMMA SettleEffect ==
    ASSUME Proved, Queue!TypeOK, NEW x \in DOMAIN ticket, Queue!Settle(x)
    PROVE  Queue!Claimed(x)
BY DEF Proved, QueueProved

LEMMA AdvanceKeepsInv == Proved /\ VaultInv /\ Advance => VaultInv'
<1> SUFFICES ASSUME Proved, VaultInv, Advance PROVE VaultInv'
  OBVIOUS
<1>1. Custody!CustodyInv' /\ Custody!RatiosPinned'
  BY Zenon DEF Proved, CustodyProved, VaultInv, Advance, Custody!CustodyInv
<1>2. Pool!TypeOK'
  BY Zenon DEF Proved, PoolProved, VaultInv, Advance
<1>3. Seams!RegistryInv'
  BY Zenon DEF Proved, SeamsProved, VaultInv, Advance
<1>4. Queue!TypeOK'
  BY Zenon DEF Proved, QueueProved, VaultInv, Advance
<1> QED
  BY <1>1, <1>2, <1>3, <1>4 DEF VaultInv

LEMMA InitVaultInv == Proved /\ Init => VaultInv
<1> SUFFICES ASSUME Proved, Init PROVE VaultInv
  OBVIOUS
<1>1. Custody!RatiosPinned
  BY DEF Init, Custody!Init, Custody!RatiosPinned
<1>2. Custody!CustodyInv
  BY Zenon DEF Proved, CustodyProved, Init
<1>3. Pool!TypeOK
  BY Zenon DEF Proved, PoolProved, Init
<1>4. Seams!RegistryInv
  BY Zenon DEF Proved, SeamsProved, Init
<1>5. Queue!TypeOK
  BY Zenon DEF Proved, QueueProved, Init
<1> QED
  BY <1>1, <1>2, <1>3, <1>4, <1>5 DEF VaultInv

(***************************************************************************)
(* No seam is older than the program.                                      *)
(***************************************************************************)
LEMMA NoLegacy ==
    /\ DOMAIN <<>> = {}
    /\ \A s \in Stope : \A kinds : Seams!RoutedBps(<<>>, s, kinds) = 0
<1>1. DOMAIN <<>> = {}
  OBVIOUS
<1>2. ASSUME NEW s \in Stope, NEW kinds PROVE Seams!RoutedBps(<<>>, s, kinds) = 0
  <2>1. Seams!WeightsOf(<<>>, s, kinds) = [id \in 1..NumSeams |-> 0]
    BY <1>1, Zenon DEF Seams!WeightsOf, Seams!SeamId
  <2>2. Total([id \in 1..NumSeams |-> 0], NumSeams) = 0
    BY VaultAssumption, TotalOfZeros
  <2>3. \A f, n : Total(f, n) = Seams!Total(f, n)
    BY Zenon DEF Total, Seams!Total, PrefixSum, Seams!PrefixSum
  <2> QED BY <2>1, <2>2, <2>3, Zenon DEF Seams!RoutedBps
<1> QED BY <1>1, <1>2

-----------------------------------------------------------------------------
(***************************************************************************)
(* The two records of realized yield.  An accrual adds the same amount to  *)
(* one seam and to the total of that seam's stope and kind; no other       *)
(* instruction changes either.                                             *)
(***************************************************************************)
Report(seams, s, k) ==
    [id \in 1..NumSeams |->
        IF id \in DOMAIN seams /\ Seams!IsSeamOf(seams[id], s, {k})
        THEN seams[id].realized_yield ELSE 0]

LEMMA ReportTypes ==
    ASSUME VaultInv, NEW s, NEW k
    PROVE  /\ Report(seam, s, k) \in [1..NumSeams -> Nat]
           /\ RealizedBy(s, k) = Total(Report(seam, s, k), NumSeams)
           /\ RealizedBy(s, k) \in Nat
<1>1. \A id \in DOMAIN seam : seam[id].realized_yield \in Nat
  BY DEF VaultInv, Seams!RegistryInv, Seams!SeamsTyped, Seams!SeamRecord,
         Seams!U64
<1>2. Report(seam, s, k) \in [1..NumSeams -> Nat]
  BY <1>1 DEF Report
<1>3. RealizedBy(s, k) = Total(Report(seam, s, k), NumSeams)
  BY Zenon DEF RealizedBy, Report
<1> QED
  BY <1>2, <1>3, TotalType, VaultAssumption

SameReports == \A s \in Stope, k \in YieldKind : Report(seam', s, k) = Report(seam, s, k)

SameRealized ==
    \A s \in Stope, k \in YieldKind : stope'[s].realized[k] = stope[s].realized[k]

LEMMA NothingRealized ==
    ASSUME StopesBookWhatSeamsReport, SameReports, SameRealized
    PROVE  StopesBookWhatSeamsReport'
<1>1. \A s, k : RealizedBy(s, k) = Total(Report(seam, s, k), NumSeams)
  BY Zenon DEF RealizedBy, Report
<1>2. \A s, k : RealizedBy(s, k)' = Total(Report(seam', s, k), NumSeams)
  BY Zenon DEF RealizedBy, Report
<1>3. \A s \in Stope, k \in YieldKind : RealizedBy(s, k)' = RealizedBy(s, k)
  BY <1>1, <1>2, Zenon DEF SameReports
<1> QED
  BY <1>3 DEF StopesBookWhatSeamsReport, SameRealized

LEMMA SeamsKeepReports ==
    ASSUME DOMAIN seam' = DOMAIN seam,
           \A id \in DOMAIN seam :
                /\ seam'[id].stope_id = seam[id].stope_id
                /\ seam'[id].yield_kind = seam[id].yield_kind
                /\ seam'[id].realized_yield = seam[id].realized_yield
    PROVE  SameReports
BY DEF SameReports, Report, Seams!IsSeamOf

LEMMA UpdateKeepsReports ==
    ASSUME VaultInv, NEW id \in DOMAIN seam, NEW bps, Seams!UpdateAllocation(id, bps)
    PROVE  SameReports
<1>1. seam' = [seam EXCEPT ![id].allocation_bps = bps]
  BY DEF Seams!UpdateAllocation
<1>2. \A i \in DOMAIN seam : seam[i] \in Seams!SeamRecord
  BY DEF VaultInv, Seams!RegistryInv, Seams!SeamsTyped
<1> QED
  BY <1>1, <1>2, SeamsKeepReports DEF Seams!SeamRecord

LEMMA RegisterKeepsReports ==
    ASSUME VaultInv, NEW id, NEW s, NEW declared, Seams!RegisterSeam(id, s, declared)
    PROVE  SameReports
<1>1. /\ id \notin DOMAIN seam /\ DOMAIN seam' = DOMAIN seam \cup {id}
      /\ seam'[id].realized_yield = 0
      /\ \A i \in DOMAIN seam : seam'[i] = seam[i]
  BY DEF Seams!RegisterSeam
<1> QED
  BY <1>1 DEF SameReports, Report

LEMMA AccrueReports ==
    ASSUME Proved, VaultInv, VaultInv', StopesBookWhatSeamsReport,
           NEW id \in DOMAIN seam, NEW n \in Nat, n \in Pool!U64,
           Seams!SeamAccrues(id, n),
           Pool!BookYield(seam[id].stope_id, seam[id].yield_kind, n)
    PROVE  StopesBookWhatSeamsReport'
<1> DEFINE x == seam[id].stope_id
           kind == seam[id].yield_kind
<1>1. x \in Stope /\ kind \in YieldKind /\ id \in 1..NumSeams
  BY SeamFacts
<1>2. /\ \A s \in Stope : s # x => stope'[s] = stope[s]
      /\ stope'[x].realized = [stope[x].realized EXCEPT ![kind] = @ + n]
  <2>1. Pool!Booked(x, kind, n)
    BY <1>1, BookEffect DEF VaultInv, Pool!U64, U64
  <2> QED
    BY <2>1 DEF Pool!Booked, Pool!Stope, Stope
<1>3. \A s \in Stope : stope[s].realized \in [YieldKind -> Nat]
  BY DEF VaultInv, Pool!TypeOK, Pool!PoolRecord, Pool!Balances,
         Pool!YieldKind, YieldKind, Pool!Stope, Stope, Pool!U64
<1>4. /\ DOMAIN seam' = DOMAIN seam
      /\ \A i \in DOMAIN seam :
            /\ seam'[i].stope_id = seam[i].stope_id
            /\ seam'[i].yield_kind = seam[i].yield_kind
            /\ i # id => seam'[i].realized_yield = seam[i].realized_yield
      /\ seam'[id].realized_yield = seam[id].realized_yield + n
      /\ seam[id].realized_yield \in Nat
  <2>1. seam' = [seam EXCEPT ![id].realized_yield = @ + n, ![id].last_accrual_at = now]
    BY DEF Seams!SeamAccrues
  <2>2. \A i \in DOMAIN seam : seam[i] \in Seams!SeamRecord
    BY DEF VaultInv, Seams!RegistryInv, Seams!SeamsTyped
  <2> QED
    BY <2>1, <2>2 DEF Seams!SeamRecord, Seams!U64
<1> SUFFICES ASSUME NEW s \in Stope, NEW k \in YieldKind
             PROVE  stope'[s].realized[k] = RealizedBy(s, k)'
  BY DEF StopesBookWhatSeamsReport
<1> DEFINE f == Report(seam, s, k)
           g == Report(seam', s, k)
<1>5. /\ f \in [1..NumSeams -> Nat] /\ g \in [1..NumSeams -> Nat]
      /\ RealizedBy(s, k) = Total(f, NumSeams) /\ RealizedBy(s, k)' = Total(g, NumSeams)
      /\ Total(f, NumSeams) \in Nat
  <2>1. f \in [1..NumSeams -> Nat] /\ RealizedBy(s, k) = Total(f, NumSeams)
    BY ReportTypes
  <2>2. g \in [1..NumSeams -> Nat]
    <3>1. \A i \in DOMAIN seam' : seam'[i].realized_yield \in Nat
      BY DEF VaultInv, Seams!RegistryInv, Seams!SeamsTyped,
             Seams!SeamRecord, Seams!U64
    <3> QED BY <3>1 DEF Report
  <2>3. RealizedBy(s, k)' = Total(g, NumSeams)
    BY Zenon DEF RealizedBy, Report
  <2> QED BY <2>1, <2>2, <2>3, TotalType, VaultAssumption
<1>6. stope[s].realized[k] = RealizedBy(s, k)
  BY DEF StopesBookWhatSeamsReport
<1>7. CASE s = x /\ k = kind
  <2>1. /\ f[id] = seam[id].realized_yield /\ g[id] = f[id] + n
        /\ \A i \in 1..NumSeams : i # id => g[i] = f[i]
    BY <1>1, <1>4, <1>7 DEF Report, Seams!IsSeamOf
  <2> HIDE DEF f, g
  <2>2. Total(g, NumSeams) = Total(f, NumSeams) + n
    <3>1. /\ NumSeams \in Nat /\ id \in 1..NumSeams /\ n \in Int
          /\ f \in [1..NumSeams -> Nat] /\ g \in [1..NumSeams -> Nat]
          /\ g[id] = f[id] + n
          /\ \A i \in 1..NumSeams : i # id => g[i] = f[i]
      <4>1. NumSeams \in Nat
        BY VaultAssumption
      <4>2. id \in 1..NumSeams /\ n \in Int
        BY <1>1
      <4> QED BY <1>5, <2>1, <4>1, <4>2, Zenon
    <3> QED BY <3>1, TotalGrows, Zenon
  <2>3. stope'[s].realized[k] = stope[s].realized[k] + n
    BY <1>1, <1>2, <1>3, <1>7
  <2> QED BY <1>5, <1>6, <2>2, <2>3
<1>8. CASE ~ (s = x /\ k = kind)
  <2>1. f = g
    BY <1>1, <1>4, <1>8 DEF Report, Seams!IsSeamOf
  <2>2. stope'[s].realized[k] = stope[s].realized[k]
    BY <1>1, <1>2, <1>3, <1>8
  <2> QED BY <1>5, <1>6, <2>1, <2>2
<1> QED
  BY <1>7, <1>8

LEMMA SharesMoveNoReports ==
    ASSUME Proved, VaultInv, NEW o \in Owner, NEW s \in Stope, NEW n \in Pool!U64,
           Pool!MintShares(o, s, n) \/ Pool!BurnShares(o, s, n)
    PROVE  SameRealized
<1>1. Pool!OthersUnchanged(o, s) /\ Pool!YieldBooksUnchanged(s)
  <2>1. Pool!TypeOK /\ n \in U64
    BY DEF VaultInv, Pool!U64, U64
  <2>2. CASE Pool!MintShares(o, s, n)
    <3>1. Pool!Minted(o, s, n)
      BY <2>1, <2>2, MintEffect
    <3> QED BY <3>1 DEF Pool!Minted
  <2>3. CASE Pool!BurnShares(o, s, n)
    <3>1. Pool!Redeemed(o, s, n)
      BY <2>1, <2>3, BurnEffect
    <3> QED BY <3>1 DEF Pool!Redeemed
  <2> QED BY <2>2, <2>3
<1> QED
  BY <1>1 DEF SameRealized, Pool!OthersUnchanged, Pool!YieldBooksUnchanged,
              Pool!Stope, Stope

LEMMA NextKeepsReports ==
    ASSUME Proved, VaultInv, VaultInv', StopesBookWhatSeamsReport, [Next]_vars
    PROVE  StopesBookWhatSeamsReport'
<1>1. CASE UNCHANGED <<stope, seam>>
  BY <1>1, NothingRealized DEF SameReports, SameRealized
<1>2. ASSUME NEW o \in Owner, NEW s \in Stope, NEW a \in Asset,
NEW amount \in 1..Supply,
             MakeDeposit(o, s, a, amount)
      PROVE  StopesBookWhatSeamsReport'
  <2> DEFINE n == Custody!Normalized(a, amount)
  <2>1. Custody!TakeDeposit(a, amount) /\ Pool!MintShares(o, s, n)
    BY <1>2 DEF MakeDeposit
  <2>2. n \in Pool!U64
    BY <2>1 DEF Custody!TakeDeposit, Custody!Receive, Custody!RoomForCredit, Custody!Fits64,
                Custody!U64, Pool!U64
  <2>3. UNCHANGED seam
    BY <1>2 DEF MakeDeposit, seam_vars
  <2> HIDE DEF n
  <2> QED
    BY <2>1, <2>2, <2>3, SharesMoveNoReports, NothingRealized DEF SameReports
<1>3. ASSUME NEW o \in Owner, NEW s \in Stope, NEW a \in Asset, NEW shares \in U64,
             RequestRedemption(o, s, a, shares)
      PROVE  StopesBookWhatSeamsReport'
  <2>1. Pool!BurnShares(o, s, shares) /\ UNCHANGED seam
    BY <1>3, Zenon DEF RequestRedemption, seam_vars
  <2>2. shares \in Pool!U64
    BY DEF Pool!U64, U64
  <2> QED
    BY <2>1, <2>2, SharesMoveNoReports, NothingRealized DEF SameReports
<1>4. ASSUME NEW k \in Keeper, NEW id \in 1..NumSeams, NEW amount \in 1..Supply,
             AccrueYield(k, id, amount)
      PROVE  StopesBookWhatSeamsReport'
  <2> DEFINE n == Custody!Normalized(seam[id].asset_mint, amount)
  <2>1. /\ id \in DOMAIN seam
        /\ Custody!TakeYield(seam[id].asset_mint, amount)
        /\ Seams!SeamAccrues(id, n)
        /\ Pool!BookYield(seam[id].stope_id, seam[id].yield_kind, n)
    BY <1>4 DEF AccrueYield, KindBooked
  <2>2. n \in Pool!U64 /\ n \in Nat
    BY <2>1 DEF Custody!TakeYield, Custody!Receive, Custody!RoomForCredit, Custody!Fits64,
                Custody!U64, Pool!U64
  <2> HIDE DEF n
  <2> QED
    BY <2>1, <2>2, AccrueReports
<1>5. ASSUME NEW k \in Keeper, NEW id \in 1..NumSeams, NEW bps \in Weights,
             UpdateSeamAllocation(k, id, bps)
      PROVE  StopesBookWhatSeamsReport'
  <2>1. /\ id \in DOMAIN seam /\ Seams!UpdateAllocation(id, bps) /\ UNCHANGED stope
    BY <1>5, Zenon DEF UpdateSeamAllocation, pool_vars
  <2> QED
    BY <2>1, UpdateKeepsReports, NothingRealized DEF SameRealized
<1>6. ASSUME NEW k \in Signers, NEW id \in 1..NumSeams, NEW s \in Stope,
             NEW declared \in Seams!Declarations, RegisterSeam(k, id, s, declared)
      PROVE  StopesBookWhatSeamsReport'
  <2>1. Seams!RegisterSeam(id, s, declared) /\ UNCHANGED stope
    BY <1>6, Zenon DEF RegisterSeam, pool_vars
  <2> QED
    BY <2>1, RegisterKeepsReports, NothingRealized DEF SameRealized
<1>7. CASE Money
  <2>1. ASSUME NEW address \in DOMAIN ticket, ClaimRedemption(address)
        PROVE  UNCHANGED <<stope, seam>>
    BY <2>1, Zenon DEF ClaimRedemption, pool_vars, seam_vars
  <2> QED BY <1>1, <1>2, <1>3, <1>7, <2>1 DEF Money
<1>8. CASE Keeping
  <2>1. ASSUME NEW k \in Keeper, NEW amount \in 1..InitialLodz,
               BondKeeper(k, amount) \/ UnbondKeeper(k, amount)
        PROVE  UNCHANGED <<stope, seam>>
    BY <2>1, Zenon DEF BondKeeper, UnbondKeeper, pool_vars, seam_vars
  <2> QED BY <1>1, <1>4, <1>5, <1>8, <2>1 DEF Keeping
<1>9. CASE Governing
  <2>1. ASSUME NEW k \in Signers, Administer(k)
        PROVE  UNCHANGED <<stope, seam>>
    BY <2>1, Zenon DEF Administer, pool_vars, seam_vars
  <2>2. ASSUME NEW k \in Signers, NEW bonded \in Keeper, NEW amount \in 1..InitialLodz,
               SlashKeeper(k, bonded, amount)
        PROVE  UNCHANGED <<stope, seam>>
    BY <2>2, Zenon DEF SlashKeeper, pool_vars, seam_vars
  <2>3. ASSUME NEW k \in Signers, NEW a \in Asset, NEW c \in Conversions,
               NEW cap \in DepositCaps, RegisterAdit(k, a, c, cap)
        PROVE  UNCHANGED <<stope, seam>>
    BY <2>3, Zenon DEF RegisterAdit, pool_vars, seam_vars
  <2> QED BY <1>1, <1>6, <1>9, <2>1, <2>2, <2>3 DEF Governing
<1>10. CASE \E a \in Asset, amount \in 1..Supply : SendDirectly(a, amount)
  BY <1>1, <1>10, Zenon DEF SendDirectly, pool_vars, seam_vars
<1>11. CASE Tick
  <2>1. UNCHANGED <<stope, seam>>
    BY <1>11, Zenon DEF Tick, pool_vars, Seams!Tick
  <2> QED BY <1>1, <2>1
<1>12. CASE \E k \in Keeper, amount \in 1..InitialLodz : SendLodz(k, amount)
  BY <1>1, <1>12, Zenon DEF SendLodz, pool_vars, seam_vars
<1>13. CASE UNCHANGED vars
  BY <1>1, <1>13, Zenon DEF vars, pool_vars, seam_vars
<1> QED
  BY <1>7, <1>8, <1>9, <1>10, <1>11, <1>12, <1>13 DEF Next

LEMMA InitReports == Proved /\ Init => StopesBookWhatSeamsReport
<1> SUFFICES ASSUME Proved, Init, NEW s \in Stope, NEW k \in YieldKind
             PROVE  stope[s].realized[k] = RealizedBy(s, k)
  BY DEF StopesBookWhatSeamsReport
<1>1. Pool!Init /\ Seams!Init
  BY DEF Init
<1>2. DOMAIN seam = {}
  BY <1>1, NoLegacy DEF Seams!Init
<1>3. \A id \in 1..NumSeams : Report(seam, s, k)[id] = 0
  BY <1>2 DEF Report
<1>4. Report(seam, s, k) \in [1..NumSeams -> Nat]
  BY InitVaultInv, ReportTypes
<1>5. RealizedBy(s, k) = Total(Report(seam, s, k), NumSeams)
  BY Zenon DEF RealizedBy, Report
<1>6. RealizedBy(s, k) = 0
  BY <1>3, <1>4, <1>5, TotalOfZeros, VaultAssumption
<1>7. stope[s].realized[k] = 0
  BY <1>1 DEF Pool!Init, Pool!EmptyPool, Pool!NoYield,
              Pool!YieldKind, YieldKind, Pool!Stope, Stope
<1> QED
  BY <1>6, <1>7

-----------------------------------------------------------------------------
(***************************************************************************)
(* The ledger.  What VaultLedger moves is a sum over assets, stopes or     *)
(* tickets in the program; an instruction moves one summand.               *)
(***************************************************************************)
Principal(pools) == [s \in Stope |-> pools[s].total_deposits]

Pending(queues)  == [s \in Stope |-> queues[s].total_pending]

Paid(queues)     == [s \in Stope |-> queues[s].total_claimed]

ValueOf(tickets, X) ==
    SumFunctionOnSet([x \in X |-> tickets[x].terms.normalized_amount], X)

CreditOf(adits, A) == SumFunctionOnSet([a \in A |-> adits[a].total_normalized], A)

LEMMA LedgerTerms ==
    /\ CreditedTo(DOMAIN adit) = CreditOf(adit, DOMAIN adit)
    /\ CreditedTo(DOMAIN adit)' = CreditOf(adit', DOMAIN adit')
    /\ \A X : NormalizedOf(X) = ValueOf(ticket, X)
    /\ \A X : NormalizedOf(X)' = ValueOf(ticket', X)
BY Zenon DEF CreditedTo, CreditOf, NormalizedOf, ValueOf

(***************************************************************************)
(* The vault total is the sum of what the stopes hold, and there are       *)
(* finitely many assets.                                                   *)
(***************************************************************************)
VaultTotals ==
    /\ IsFiniteSet(DOMAIN adit)
    /\ total_normalized_deposits = Total(Principal(stope), NumStopes)

(***************************************************************************)
(* What the queue's own books say of a queued ticket: its amount is still  *)
(* pending, and the counters its claim will move are within what the stope *)
(* has claimed.                                                            *)
(***************************************************************************)
TicketBooks ==
    /\ IsFiniteSet(DOMAIN ticket)
    /\ \A x \in DOMAIN ticket : ticket[x].status = "Queued" =>
        LET s == ticket[x].stope_id
        IN  /\ ticket[x].terms.normalized_amount <= queue[s].total_pending
            /\ (\A y \in DOMAIN ticket :
                    ticket[y].terms.fee_normalized <= ticket[y].terms.normalized_amount) =>
                /\ queue[s].head + 1 <= queue[s].tail
                /\ reserve[s].total_redeemed = queue[s].total_claimed
                /\ queue[s].total_fees <= queue[s].total_claimed
                /\ position[s][ticket[x].owner].withdrawn <= queue[s].total_claimed

LEMMA QueuedTicket ==
    ASSUME TicketBooks, NEW x \in DOMAIN ticket, ticket[x].status = "Queued"
    PROVE  LET s == ticket[x].stope_id
           IN  /\ ticket[x].terms.normalized_amount <= queue[s].total_pending
               /\ (\A y \in DOMAIN ticket :
                    ticket[y].terms.fee_normalized <= ticket[y].terms.normalized_amount) =>
                    /\ queue[s].head + 1 <= queue[s].tail
                    /\ reserve[s].total_redeemed = queue[s].total_claimed
                    /\ queue[s].total_fees <= queue[s].total_claimed
                    /\ position[s][ticket[x].owner].withdrawn <= queue[s].total_claimed
BY DEF TicketBooks

LedgerInv ==
    /\ VaultInv
    /\ Pool!PoolInv
    /\ TicketBooks
    /\ VaultTotals

LedgerMoves ==
    /\ [Books!Next]_(Books!vars)
    /\ [Totals!Next]_(Totals!vars)
    /\ VaultTotals'

LEMMA LedgerTypes ==
    ASSUME LedgerInv
    PROVE  /\ Principal(stope) \in [1..NumStopes -> Nat]
           /\ Pending(queue) \in [1..NumStopes -> Nat]
           /\ Paid(queue) \in [1..NumStopes -> Nat]
           /\ \A a \in DOMAIN adit : adit[a].total_normalized \in Nat
           /\ \A x \in DOMAIN ticket : ticket[x].terms.normalized_amount \in U64
           /\ IsFiniteSet(DOMAIN ticket) /\ IsFiniteSet(DOMAIN adit)
           /\ U64 \subseteq Nat
<1>1. /\ \A s \in Stope : stope[s].total_deposits \in Nat
      /\ \A s \in Stope : queue[s].total_pending \in Nat /\ queue[s].total_claimed \in Nat
  BY DEF LedgerInv, VaultInv, Pool!TypeOK, Pool!PoolRecord, Pool!Stope,
         Stope, Pool!U64, Queue!TypeOK, Queue!U64
<1>2. \A a \in DOMAIN adit : adit[a].total_normalized \in Nat
  BY DEF LedgerInv, VaultInv, Custody!CustodyInv, Custody!TypeOK,
         Custody!AditRecord, Custody!U64
<1>3. \A x \in DOMAIN ticket : ticket[x].terms \in TicketTerms
  BY DEF LedgerInv, VaultInv, Queue!TypeOK, Queue!TicketRecord
<1>4. IsFiniteSet(DOMAIN ticket)
  BY DEF LedgerInv, TicketBooks
<1>5. IsFiniteSet(DOMAIN adit)
  BY DEF LedgerInv, VaultTotals
<1>6. U64 \subseteq Nat
  BY MathAssumption DEF U64
<1> QED
  BY <1>1, <1>2, <1>3, <1>4, <1>5, <1>6 DEF Principal, Pending, Paid, Stope, TicketTerms

(***************************************************************************)
(* Credit.                                                                 *)
(***************************************************************************)
LEMMA ReceiveCredits ==
    ASSUME LedgerInv, NEW a \in Asset, NEW amount, Custody!Receive(a, amount)
    PROVE  /\ IsFiniteSet(DOMAIN adit')
           /\ CreditedTo(DOMAIN adit)'
                = CreditedTo(DOMAIN adit) + Custody!Normalized(a, amount)
<1> DEFINE n == Custody!Normalized(a, amount)
           A == DOMAIN adit
           f == [b \in A |-> adit[b].total_normalized]
           g == [b \in A |-> adit'[b].total_normalized]
<1>1. /\ a \in A /\ n \in Custody!U64
      /\ adit' = [adit EXCEPT ![a].total_deposited = @ + amount,
                              ![a].total_normalized = @ + n]
  BY DEF Custody!Receive, Custody!RoomForCredit, Custody!Fits64
<1>2. \A b \in A : adit[b] \in Custody!AditRecord /\ adit[b].total_normalized \in Nat
  BY LedgerTypes DEF LedgerInv, VaultInv, Custody!CustodyInv, Custody!TypeOK
<1>3. IsFiniteSet(A)
  BY LedgerTypes
<1>4. n \in Nat
  BY <1>1 DEF Custody!U64
<1> HIDE DEF n
<1>5. /\ DOMAIN adit' = A
      /\ adit'[a].total_normalized = adit[a].total_normalized + n
      /\ \A b \in A : b # a => adit'[b] = adit[b]
  BY <1>1, <1>2 DEF Custody!AditRecord
<1> HIDE DEF A
<1>6. /\ f \in [A -> Nat] /\ g \in [A -> Nat] /\ g[a] = f[a] + n
      /\ \A b \in A : b # a => g[b] = f[b]
  BY <1>1, <1>2, <1>4, <1>5
<1>7. CreditOf(adit, A) = SumFunctionOnSet(f, A) /\ CreditOf(adit', A) = SumFunctionOnSet(g, A)
  BY Zenon DEF CreditOf
<1> HIDE DEF f, g
<1>8. SumFunctionOnSet(g, A) = SumFunctionOnSet(f, A) + n
  BY <1>1, <1>3, <1>4, <1>6, SumGrows
<1> QED
  BY <1>3, <1>5, <1>7, <1>8, LedgerTerms DEF A, n

LEMMA CreditMoves ==
    ASSUME LedgerInv, NEW s \in Stope, NEW n \in U64,
           IsFiniteSet(DOMAIN adit'),
           CreditedTo(DOMAIN adit)' = CreditedTo(DOMAIN adit) + n,
           total_normalized_deposits' = total_normalized_deposits + n,
           stope'[s].total_deposits = stope[s].total_deposits + n,
           \A r \in Stope : r # s => stope'[r] = stope[r],
           UNCHANGED <<ticket, queue>>
    PROVE  LedgerMoves
<1>1. n \in Nat /\ s \in 1..NumStopes /\ NumStopes \in Nat
  BY LedgerTypes, VaultAssumption DEF Stope
<1>2. Principal(stope) \in [1..NumStopes -> Nat]
  BY LedgerTypes
<1> DEFINE f == Principal(stope)
           g == Principal(stope')
<1>3. /\ g \in [1..NumStopes -> Nat] /\ g[s] = f[s] + n
      /\ \A r \in 1..NumStopes : r # s => g[r] = f[r]
  BY <1>1, <1>2 DEF Principal, Stope
<1>4. Total(g, NumStopes) = Total(f, NumStopes) + n
  <2> HIDE DEF f, g
  <2>1. f \in [1..NumStopes -> Nat] /\ n \in Int
    BY <1>1, <1>2 DEF f
  <2> QED BY <1>1, <1>3, <2>1, TotalGrows, Zenon
<1>5. VaultTotals'
  BY <1>4 DEF LedgerInv, VaultTotals
<1>6. Books!Credit(n)
  BY Zenon DEF Books!Credit, NormalizedOf, Queued
<1>7. Totals!Credit(n)
  BY <1>4, Zenon DEF Totals!Credit, Principal
<1> QED
  BY <1>5, <1>6, <1>7
     DEF LedgerMoves, Books!Next, Totals!Next, Books!U64, Totals!U64, U64

LEMMA MakeDepositCredits ==
    ASSUME Proved, LedgerInv, NEW o \in Owner, NEW s \in Stope, NEW a \in Asset,
           NEW amount \in 1..Supply, MakeDeposit(o, s, a, amount)
    PROVE  LedgerMoves
<1> DEFINE n == Custody!Normalized(a, amount)
<1>1. /\ Custody!Receive(a, amount) /\ Pool!MintShares(o, s, n)
      /\ UNCHANGED <<ticket, queue>>
  BY DEF MakeDeposit, Custody!TakeDeposit, queue_vars
<1>2. n \in U64 /\ n \in Pool!U64
  BY <1>1
     DEF Custody!Receive, Custody!RoomForCredit, Custody!Fits64, Custody!U64, Pool!U64, U64
<1>3. /\ IsFiniteSet(DOMAIN adit')
      /\ CreditedTo(DOMAIN adit)' = CreditedTo(DOMAIN adit) + n
  BY <1>1, ReceiveCredits
<1> HIDE DEF n
<1>4. total_normalized_deposits' = total_normalized_deposits + n
  BY <1>1 DEF Pool!MintShares
<1>5. Pool!Minted(o, s, n)
  <2>1. Pool!TypeOK /\ o \in Pool!Owner /\ s \in Pool!Stope
    BY DEF LedgerInv, VaultInv, Pool!Stope, Stope, Pool!Owner, Owner
  <2> QED
    BY <1>1, <1>2, <2>1, MintEffect
<1>6. /\ stope'[s].total_deposits = stope[s].total_deposits + n
      /\ \A r \in Stope : r # s => stope'[r] = stope[r]
  BY <1>5 DEF Pool!Minted, Pool!OthersUnchanged, Pool!Stope, Stope
<1> QED
  BY <1>1, <1>2, <1>3, <1>4, <1>6, CreditMoves

LEMMA AccrueYieldCredits ==
    ASSUME Proved, LedgerInv, NEW k \in Keeper, NEW id \in 1..NumSeams,
           NEW amount \in 1..Supply, AccrueYield(k, id, amount)
    PROVE  LedgerMoves
<1> DEFINE a == seam[id].asset_mint
           s == seam[id].stope_id
           kind == seam[id].yield_kind
           n == Custody!Normalized(a, amount)
<1>1. /\ id \in DOMAIN seam
      /\ Custody!Receive(a, amount)
      /\ Pool!BookYield(s, kind, n)
      /\ UNCHANGED <<ticket, queue>>
  BY DEF AccrueYield, KindBooked, Custody!TakeYield, queue_vars
<1>2. a \in Asset /\ s \in Stope /\ kind \in YieldKind
  BY <1>1, SeamFacts DEF LedgerInv
<1>3. n \in U64 /\ n \in Pool!U64
  BY <1>1
     DEF Custody!Receive, Custody!RoomForCredit, Custody!Fits64, Custody!U64, Pool!U64, U64
<1>4. /\ IsFiniteSet(DOMAIN adit')
      /\ CreditedTo(DOMAIN adit)' = CreditedTo(DOMAIN adit) + n
  BY <1>1, <1>2, ReceiveCredits
<1> HIDE DEF n, a, s, kind
<1>5. total_normalized_deposits' = total_normalized_deposits + n
  BY <1>1 DEF Pool!BookYield
<1>6. Pool!Booked(s, kind, n)
  BY <1>1, <1>2, <1>3, BookEffect DEF LedgerInv, VaultInv,
     Pool!Stope, Stope, Pool!YieldKind, YieldKind
<1>7. /\ stope'[s].total_deposits = stope[s].total_deposits + n
      /\ \A r \in Stope : r # s => stope'[r] = stope[r]
  BY <1>6 DEF Pool!Booked, Pool!Stope, Stope
<1> QED
  BY <1>1, <1>2, <1>3, <1>4, <1>5, <1>7, CreditMoves

(***************************************************************************)
(* Sums over tickets, of which one is new or leaves the queue.             *)
(***************************************************************************)
TermsKept(t, u, X) == \A y \in X : u[y].terms = t[y].terms

LEMMA ValuePlusOne ==
    ASSUME NEW X, IsFiniteSet(X), NEW x, x \notin X, NEW t, NEW u, TermsKept(t, u, X),
           \A y \in X : t[y].terms.normalized_amount \in Nat,
           u[x].terms.normalized_amount \in Nat
    PROVE  /\ ValueOf(t, X) \in Nat
           /\ ValueOf(u, X \cup {x}) = ValueOf(t, X) + u[x].terms.normalized_amount
<1> DEFINE f == [y \in X |-> t[y].terms.normalized_amount]
           g == [y \in X \cup {x} |-> u[y].terms.normalized_amount]
<1>1. /\ IsFiniteSet(X) /\ x \notin X
      /\ f \in [X -> Nat] /\ g \in [X \cup {x} -> Nat]
      /\ \A y \in X : f[y] = g[y]
      /\ g[x] = u[x].terms.normalized_amount
  BY DEF TermsKept
<1> HIDE DEF f, g
<1>2. /\ SumFunctionOnSet(f, X) \in Nat
      /\ SumFunctionOnSet(g, X \cup {x}) = SumFunctionOnSet(f, X) + g[x]
  <2>1. SumFunctionOnSet(f, X) \in Nat
    BY ONLY <1>1, SumType, Zenon
  <2>2. SumFunctionOnSet(g, X \cup {x}) = SumFunctionOnSet(f, X) + g[x]
    BY ONLY <1>1, SumPlusOne, ZenonT(60)
  <2> QED BY ONLY <2>1, <2>2
<1> QED
  BY <1>1, <1>2, Zenon DEF ValueOf, f, g

LEMMA ValueKept ==
    ASSUME NEW X, NEW t, NEW u, TermsKept(t, u, X)
    PROVE  ValueOf(u, X) = ValueOf(t, X)
<1> DEFINE f == [y \in X |-> t[y].terms.normalized_amount]
           g == [y \in X |-> u[y].terms.normalized_amount]
<1>1. f = g
  BY Zenon DEF TermsKept
<1> QED
  BY <1>1, Zenon DEF ValueOf

(***************************************************************************)
(* Ask.                                                                    *)
(***************************************************************************)
LEMMA AskMoves ==
    ASSUME LedgerInv, NEW s \in Stope, NEW n \in U64, NEW x, x \notin DOMAIN ticket,
           UNCHANGED adit,
           n <= stope[s].total_deposits,
           stope'[s].total_deposits = stope[s].total_deposits - n,
           \A r \in Stope : r # s => stope'[r] = stope[r],
           total_normalized_deposits' = SaturatingSub(total_normalized_deposits, n),
           queue'[s].total_pending = queue[s].total_pending + n,
           queue'[s].total_claimed = queue[s].total_claimed,
           \A r \in Stope : r # s => queue'[r] = queue[r],
           DOMAIN ticket' = DOMAIN ticket \cup {x},
           \A y \in DOMAIN ticket : ticket'[y] = ticket[y],
           ticket'[x].status = "Queued", ticket'[x].terms.normalized_amount = n
    PROVE  /\ LedgerMoves
           /\ total_normalized_deposits' = total_normalized_deposits - n
           /\ NormalizedOf(Queued)' = NormalizedOf(Queued) + n
<1>1. n \in Nat /\ s \in 1..NumStopes /\ NumStopes \in Nat
  BY LedgerTypes, VaultAssumption DEF Stope
<1>2. Principal(stope) \in [1..NumStopes -> Nat] /\ Pending(queue) \in [1..NumStopes -> Nat]
  BY LedgerTypes
<1> DEFINE f == Principal(stope)
           g == Principal(stope')
           p == Pending(queue)
           q == Pending(queue')
<1>3. /\ g \in [1..NumStopes -> Nat] /\ g[s] = f[s] + (-n)
      /\ \A r \in 1..NumStopes : r # s => g[r] = f[r]
      /\ n <= f[s]
  <2>1. \A r \in Stope : stope[r].total_deposits \in Nat
    BY <1>2 DEF Principal, Stope
  <2>2. /\ stope'[s].total_deposits = stope[s].total_deposits + (-n)
        /\ stope'[s].total_deposits \in Nat
    BY <1>1, <2>1
  <2> QED BY <1>1, <2>1, <2>2 DEF Principal, Stope
<1>4. /\ q \in [1..NumStopes -> Nat] /\ q[s] = p[s] + n
      /\ \A r \in 1..NumStopes : r # s => q[r] = p[r]
  <2>1. \A r \in Stope : queue[r].total_pending \in Nat
    BY <1>2 DEF Pending, Stope
  <2>2. /\ queue'[s].total_pending = queue[s].total_pending + n
        /\ queue'[s].total_pending \in Nat
    BY <1>1, <2>1
  <2> QED BY <1>1, <2>1, <2>2 DEF Pending, Stope
<1>5. Paid(queue') = Paid(queue)
  BY DEF Paid
<1>6. total_normalized_deposits = Total(f, NumStopes)
  BY DEF LedgerInv, VaultTotals
<1> HIDE DEF f, g, p, q
<1>7. Total(g, NumStopes) = Total(f, NumStopes) - n
  <2>1. f \in [1..NumStopes -> Nat] /\ -n \in Int
    BY <1>1, <1>2 DEF f
  <2>2. Total(g, NumStopes) = Total(f, NumStopes) + (-n)
    BY <1>1, <1>3, <2>1, TotalGrows, Zenon
  <2>3. Total(f, NumStopes) \in Nat
    BY <1>1, <2>1, TotalType
  <2> QED BY <1>1, <2>2, <2>3
<1>8. Total(q, NumStopes) = Total(p, NumStopes) + n
  <2>1. p \in [1..NumStopes -> Nat] /\ n \in Int
    BY <1>1, <1>2 DEF p
  <2> QED BY <1>1, <1>4, <2>1, TotalGrows, Zenon
<1>9. n <= Total(f, NumStopes) /\ Total(f, NumStopes) \in Nat
  <2>1. f \in [1..NumStopes -> Nat]
    BY <1>2 DEF f
  <2>2. f[s] <= Total(f, NumStopes) /\ Total(f, NumStopes) \in Nat
    BY <1>1, <2>1, SummandAtMostTotal, TotalType
  <2>3. f[s] \in Nat
    BY <1>1, <2>1
  <2> QED BY <1>1, <1>3, <2>2, <2>3
<1>10. total_normalized_deposits' = total_normalized_deposits - n
  BY <1>1, <1>6, <1>9 DEF SaturatingSub
<1>11. VaultTotals'
  BY <1>6, <1>7, <1>10 DEF LedgerInv, VaultTotals, f, g
<1>12. /\ Queued' = Queued \cup {x} /\ (DOMAIN ticket \ Queued)' = DOMAIN ticket \ Queued
       /\ x \notin Queued
  BY DEF Queued
<1>13. /\ NormalizedOf(Queued)' = NormalizedOf(Queued) + n
       /\ NormalizedOf(DOMAIN ticket \ Queued)' = NormalizedOf(DOMAIN ticket \ Queued)
  <2>1. Queued \in SUBSET DOMAIN ticket /\ IsFiniteSet(DOMAIN ticket)
    BY LedgerTypes DEF Queued
  <2>2. /\ IsFiniteSet(Queued)
        /\ TermsKept(ticket, ticket', Queued)
        /\ \A y \in Queued : ticket[y].terms.normalized_amount \in Nat
    <3>1. \A y \in DOMAIN ticket : ticket[y].terms.normalized_amount \in Nat
      BY LedgerTypes
    <3> QED BY <2>1, <3>1, FS_Subset DEF TermsKept
  <2> DEFINE Q == Queued
             C == DOMAIN ticket \ Queued
  <2>3. TermsKept(ticket, ticket', C)
    BY DEF TermsKept
  <2> HIDE DEF Q, C
  <2>4. ValueOf(ticket', Q \cup {x}) = ValueOf(ticket, Q) + n
    <3>1. /\ IsFiniteSet(Q) /\ x \notin Q
          /\ TermsKept(ticket, ticket', Q)
          /\ \A y \in Q : ticket[y].terms.normalized_amount \in Nat
          /\ ticket'[x].terms.normalized_amount \in Nat
      BY <1>1, <1>12, <2>2 DEF Q
    <3>2. ValueOf(ticket', Q \cup {x})
              = ValueOf(ticket, Q) + ticket'[x].terms.normalized_amount
      BY ONLY <3>1, ValuePlusOne, ZenonT(60)
    <3> QED BY <3>2
  <2>5. ValueOf(ticket', C) = ValueOf(ticket, C)
    BY <2>3, ValueKept
  <2> QED BY <1>12, <2>4, <2>5, LedgerTerms, Zenon DEF Q, C, NormalizedOf, ValueOf
<1>14. CreditedTo(DOMAIN adit)' = CreditedTo(DOMAIN adit)
  BY LedgerTerms, Zenon
<1>15. Books!Ask(n)
  BY <1>6, <1>9, <1>10, <1>13, <1>14, Zenon DEF Books!Ask
<1>16. Totals!Ask(n)
  BY <1>5, <1>7, <1>8, <1>9, <1>14, Zenon
     DEF Totals!Ask, Principal, Pending, Paid, f, g, p, q
<1> QED
  BY <1>10, <1>11, <1>13, <1>15, <1>16
     DEF LedgerMoves, Books!Next, Totals!Next, Books!U64, Totals!U64, U64

LEMMA RequestRedemptionAsks ==
    ASSUME Proved, LedgerInv, NEW o \in Owner, NEW s \in Stope, NEW a \in Asset,
           NEW shares \in U64, RequestRedemption(o, s, a, shares)
    PROVE  /\ LedgerMoves
           /\ total_normalized_deposits'
                = total_normalized_deposits - Terms(o, s, a, shares).normalized_amount
           /\ NormalizedOf(Queued)'
                = NormalizedOf(Queued) + Terms(o, s, a, shares).normalized_amount
<1> DEFINE terms == Terms(o, s, a, shares)
           n == Pool!RedemptionValue(s, shares)
           x == Queue!TicketAddress(o, s, position[s][o].ticket_count)
<1>1. /\ a \in DOMAIN adit
      /\ Pool!BurnShares(o, s, shares)
      /\ Fits64(Custody!NativeUnits(a, terms.normalized_amount))
      /\ Queue!Issue(o, s, terms)
      /\ UNCHANGED adit
  BY Zenon DEF RequestRedemption, custody_vars
<1>2. terms \in TicketTerms
  BY <1>1, TermsFit DEF Pool!BurnShares, LedgerInv
<1>3. terms.normalized_amount = n /\ n \in U64
  BY <1>2 DEF Terms, TicketTerms
<1>4. /\ shares \in Pool!U64 \ {0} /\ o \in Pool!Owner /\ s \in Pool!Stope
  <2>1. shares \in 1..miner[s][o].shares
    BY <1>1 DEF Pool!BurnShares, Pool!CanBurn
  <2> QED BY <2>1 DEF Pool!U64, U64, Pool!Owner, Owner, Pool!Stope, Stope
<1>5. /\ n <= stope[s].total_deposits
      /\ stope'[s].total_deposits = stope[s].total_deposits - n
  BY <1>1, <1>4, BurnIsExact DEF LedgerInv
<1>6. \A r \in Stope : r # s => stope'[r] = stope[r]
  <2>1. Pool!TypeOK /\ shares \in Pool!U64
    BY <1>4 DEF LedgerInv, VaultInv
  <2>2. Pool!Redeemed(o, s, shares)
    BY <1>1, <1>4, <2>1, BurnEffect
  <2> QED
    BY <2>2 DEF Pool!Redeemed, Pool!OthersUnchanged, Pool!Stope, Stope
<1>7. total_normalized_deposits' = SaturatingSub(total_normalized_deposits, n)
  BY <1>1 DEF Pool!BurnShares, Pool!SaturatingSub, SaturatingSub
<1>8. Queue!Issued(o, s, terms)
  BY <1>1, <1>2, IssueEffect
<1>9. /\ x \notin DOMAIN ticket /\ DOMAIN ticket' = DOMAIN ticket \cup {x}
      /\ \A y \in DOMAIN ticket : ticket'[y] = ticket[y]
      /\ ticket'[x].status = "Queued" /\ ticket'[x].terms = terms
  BY <1>8 DEF Queue!Issued, Queue!IssuedTicket
<1>10. /\ queue'[s].total_pending = queue[s].total_pending + n
       /\ queue'[s].total_claimed = queue[s].total_claimed
       /\ \A r \in Stope : r # s => queue'[r] = queue[r]
  <2>1. queue' = [queue EXCEPT ![s] = Queue!Enqueued(@, terms.normalized_amount)]
    BY <1>1, Zenon DEF Queue!Issue
  <2>2. /\ queue \in [Stope -> Queue!QueueRecord]
    BY DEF LedgerInv, VaultInv, Queue!TypeOK, Queue!QueueRecord
  <2>3. /\ Queue!Enqueued(queue[s], n).total_pending = queue[s].total_pending + n
        /\ Queue!Enqueued(queue[s], n).total_claimed = queue[s].total_claimed
    BY <2>2 DEF Queue!Enqueued, Queue!QueueRecord
  <2> QED BY <1>3, <2>1, <2>2, <2>3
<1> HIDE DEF n, x
<1>11. /\ LedgerMoves
       /\ total_normalized_deposits' = total_normalized_deposits - n
       /\ NormalizedOf(Queued)' = NormalizedOf(Queued) + n
  <2> HIDE DEF terms
  <2> QED BY <1>1, <1>3, <1>5, <1>6, <1>7, <1>9, <1>10, AskMoves
<1> QED
  BY <1>3, <1>11, Zenon

(***************************************************************************)
(* Settle.                                                                 *)
(***************************************************************************)
LEMMA SettleMoves ==
    ASSUME LedgerInv, NEW x \in DOMAIN ticket, NEW s \in Stope, NEW n \in U64,
           IsFiniteSet(DOMAIN adit'),
           CreditedTo(DOMAIN adit)' = CreditedTo(DOMAIN adit),
           UNCHANGED <<stope, total_normalized_deposits>>,
           n <= queue[s].total_pending,
           queue'[s].total_pending = queue[s].total_pending - n,
           queue'[s].total_claimed = queue[s].total_claimed + n,
           \A r \in Stope : r # s => queue'[r] = queue[r],
           ticket[x].status = "Queued", ticket'[x].status = "Claimed",
           DOMAIN ticket' = DOMAIN ticket,
           \A y \in DOMAIN ticket : y # x => ticket'[y] = ticket[y],
           ticket'[x].terms = ticket[x].terms, ticket[x].terms.normalized_amount = n
    PROVE  /\ LedgerMoves
           /\ n <= NormalizedOf(Queued)
           /\ NormalizedOf(Queued)' = NormalizedOf(Queued) - n
<1>1. n \in Nat /\ s \in 1..NumStopes /\ NumStopes \in Nat
  BY LedgerTypes, VaultAssumption DEF Stope
<1>2. Pending(queue) \in [1..NumStopes -> Nat] /\ Paid(queue) \in [1..NumStopes -> Nat]
  BY LedgerTypes
<1> DEFINE f == Paid(queue)
           g == Paid(queue')
           p == Pending(queue)
           q == Pending(queue')
<1>3. /\ g \in [1..NumStopes -> Nat] /\ g[s] = f[s] + n
      /\ \A r \in 1..NumStopes : r # s => g[r] = f[r]
  <2>1. \A r \in Stope : queue[r].total_claimed \in Nat
    BY <1>2 DEF Paid, Stope
  <2> QED BY <1>1, <2>1 DEF Paid, Stope
<1>4. /\ q \in [1..NumStopes -> Nat] /\ q[s] = p[s] + (-n)
      /\ \A r \in 1..NumStopes : r # s => q[r] = p[r]
      /\ n <= p[s]
  <2>1. \A r \in Stope : queue[r].total_pending \in Nat
    BY <1>2 DEF Pending, Stope
  <2>2. /\ queue'[s].total_pending = queue[s].total_pending + (-n)
        /\ queue'[s].total_pending \in Nat
    BY <1>1, <2>1
  <2> QED BY <1>1, <2>1, <2>2 DEF Pending, Stope
<1> HIDE DEF f, g, p, q
<1>5. Total(g, NumStopes) = Total(f, NumStopes) + n
  <2>1. f \in [1..NumStopes -> Nat] /\ n \in Int
    BY <1>1, <1>2 DEF f
  <2> QED BY <1>1, <1>3, <2>1, TotalGrows, Zenon
<1>6. /\ Total(q, NumStopes) = Total(p, NumStopes) - n
      /\ n <= Total(p, NumStopes)
  <2>1. p \in [1..NumStopes -> Nat] /\ -n \in Int
    BY <1>1, <1>2 DEF p
  <2>2. Total(q, NumStopes) = Total(p, NumStopes) + (-n)
    BY <1>1, <1>4, <2>1, TotalGrows, Zenon
  <2>3. p[s] <= Total(p, NumStopes) /\ Total(p, NumStopes) \in Nat /\ p[s] \in Nat
    <3>1. p[s] <= Total(p, NumStopes)
      BY <1>1, <2>1, SummandAtMostTotal, Zenon
    <3>2. Total(p, NumStopes) \in Nat
      BY <1>1, <2>1, TotalType, Zenon
    <3> QED BY <1>1, <2>1, <3>1, <3>2
  <2> QED BY <1>1, <1>4, <2>2, <2>3
<1>7. VaultTotals'
  BY DEF LedgerInv, VaultTotals
<1> DEFINE Q == Queued \ {x}
           C == DOMAIN ticket \ Queued
<1>8. /\ Queued = Q \cup {x} /\ Queued' = Q /\ x \notin Q /\ x \notin C
      /\ (DOMAIN ticket \ Queued)' = C \cup {x}
  BY DEF Queued
<1>9. /\ IsFiniteSet(Q) /\ IsFiniteSet(C) /\ x \notin Q /\ x \notin C
      /\ TermsKept(ticket, ticket, Q) /\ TermsKept(ticket, ticket', Q)
      /\ TermsKept(ticket, ticket', C)
      /\ \A y \in Q : ticket[y].terms.normalized_amount \in Nat
      /\ \A y \in C : ticket[y].terms.normalized_amount \in Nat
      /\ ticket[x].terms.normalized_amount \in Nat
      /\ ticket'[x].terms.normalized_amount \in Nat
  <2>1. /\ Q \in SUBSET DOMAIN ticket /\ C \in SUBSET DOMAIN ticket
        /\ IsFiniteSet(DOMAIN ticket)
        /\ \A y \in DOMAIN ticket : ticket[y].terms.normalized_amount \in Nat
    BY LedgerTypes DEF Queued
  <2> QED BY <1>1, <1>8, <2>1, FS_Subset DEF TermsKept
<1> HIDE DEF Q, C
<1>10. /\ ValueOf(ticket, Q) \in Nat
       /\ ValueOf(ticket, Q \cup {x})
            = ValueOf(ticket, Q) + ticket[x].terms.normalized_amount
  BY ONLY <1>9, ValuePlusOne, ZenonT(60)
<1>11. ValueOf(ticket', C \cup {x}) = ValueOf(ticket, C) + ticket'[x].terms.normalized_amount
  BY ONLY <1>9, ValuePlusOne, ZenonT(60)
<1>12. ValueOf(ticket', Q) = ValueOf(ticket, Q)
  BY <1>9, ValueKept
<1>13. /\ NormalizedOf(Queued) = ValueOf(ticket, Q) + n
       /\ NormalizedOf(Queued)' = ValueOf(ticket, Q)
       /\ NormalizedOf(DOMAIN ticket \ Queued)' = NormalizedOf(DOMAIN ticket \ Queued) + n
  <2>1. NormalizedOf(Queued) = ValueOf(ticket, Q \cup {x})
    BY <1>8, LedgerTerms, Zenon
  <2>2. NormalizedOf(Queued)' = ValueOf(ticket', Q)
    BY <1>8, Zenon DEF NormalizedOf, ValueOf
  <2>3. NormalizedOf(DOMAIN ticket \ Queued)' = ValueOf(ticket', C \cup {x})
    BY <1>8, Zenon DEF NormalizedOf, ValueOf
  <2>4. NormalizedOf(DOMAIN ticket \ Queued) = ValueOf(ticket, C)
    BY LedgerTerms, Zenon DEF C
  <2> QED BY <1>10, <1>11, <1>12, <2>1, <2>2, <2>3, <2>4
<1>14. /\ n <= NormalizedOf(Queued)
       /\ NormalizedOf(Queued)' = NormalizedOf(Queued) - n
  BY <1>1, <1>10, <1>13
<1>15. Books!Settle(n)
  BY <1>13, <1>14, Zenon DEF Books!Settle
<1>16. Totals!Settle(n)
  BY <1>5, <1>6, Zenon DEF Totals!Settle, Pending, Paid, f, g, p, q
<1> QED
  BY <1>7, <1>14, <1>15, <1>16
     DEF LedgerMoves, Books!Next, Totals!Next, Books!U64, Totals!U64, U64

(***************************************************************************)
(* A payout changes no asset's lifetime credit.                            *)
(***************************************************************************)
LEMMA PayOutKeepsCredit ==
    ASSUME LedgerInv, NEW a, NEW payout, Custody!PayOut(a, payout)
    PROVE  /\ IsFiniteSet(DOMAIN adit')
           /\ CreditedTo(DOMAIN adit)' = CreditedTo(DOMAIN adit)
<1> DEFINE A == DOMAIN adit
<1>1. adit' = [adit EXCEPT ![a] = Custody!Debited(@, payout)] /\ a \in A
  BY Zenon DEF Custody!PayOut
<1>2. \A b \in A : adit[b] \in Custody!AditRecord
  BY DEF LedgerInv, VaultInv, Custody!CustodyInv, Custody!TypeOK
<1>3. Custody!Debited(adit[a], payout).total_normalized = adit[a].total_normalized
  BY <1>1, <1>2 DEF Custody!Debited, Custody!AditRecord
<1>4. /\ DOMAIN adit' = A
      /\ \A b \in A : adit'[b].total_normalized = adit[b].total_normalized
  BY <1>1, <1>3
<1>5. CreditOf(adit', A) = CreditOf(adit, A)
  <2> HIDE DEF A
  <2>1. [b \in A |-> adit'[b].total_normalized] = [b \in A |-> adit[b].total_normalized]
    BY <1>4
  <2> QED BY <2>1, Zenon DEF CreditOf
<1> QED
  BY <1>4, <1>5, LedgerTypes, LedgerTerms

LEMMA ClaimRedemptionSettles ==
    ASSUME Proved, LedgerInv, NEW x \in DOMAIN ticket, ClaimRedemption(x)
    PROVE  /\ LedgerMoves
           /\ ticket[x].terms.normalized_amount <= NormalizedOf(Queued)
           /\ NormalizedOf(Queued)'
                = NormalizedOf(Queued) - ticket[x].terms.normalized_amount
<1> DEFINE n == ticket[x].terms.normalized_amount
           s == ticket[x].stope_id
           fee == ticket[x].terms.fee_normalized
<1>1. /\ Queue!Settle(x)
      /\ Custody!PayOut(ticket[x].terms.asset_mint, ticket[x].terms.payout_amount)
      /\ UNCHANGED <<stope, total_normalized_deposits>>
  BY Zenon DEF ClaimRedemption, pool_vars
<1>2. /\ IsFiniteSet(DOMAIN adit')
      /\ CreditedTo(DOMAIN adit)' = CreditedTo(DOMAIN adit)
  BY <1>1, PayOutKeepsCredit, Zenon
<1>3. Queue!TypeOK
  BY DEF LedgerInv, VaultInv
<1>4. Queue!Claimed(x)
  BY <1>1, <1>3, SettleEffect
<1>5. ticket[x] \in Queue!TicketRecord /\ s \in Stope /\ n \in U64
  BY <1>3, LedgerTypes DEF Queue!TypeOK, Queue!TicketRecord
<1>6. /\ DOMAIN ticket' = DOMAIN ticket
      /\ \A y \in DOMAIN ticket : y # x => ticket'[y] = ticket[y]
      /\ ticket[x].status = "Queued" /\ ticket'[x].status = "Claimed"
      /\ ticket'[x].terms = ticket[x].terms
  <2>1. ticket'[x] = [ticket[x] EXCEPT !.status = "Claimed", !.claimed_at = now]
    BY <1>4 DEF Queue!Claimed
  <2>2. ticket'[x].status = "Claimed" /\ ticket'[x].terms = ticket[x].terms
    BY <1>5, <2>1 DEF Queue!TicketRecord
  <2> QED BY <1>4, <2>2 DEF Queue!Claimed
<1>7. n <= queue[s].total_pending
  BY <1>6, QueuedTicket DEF LedgerInv
<1>8. queue' = [queue EXCEPT ![s] = Queue!Dequeued(@, n, fee)]
  BY <1>1, Zenon DEF Queue!Settle
<1> HIDE DEF n, s, fee
<1>9. /\ queue'[s].total_pending = queue[s].total_pending - n
      /\ queue'[s].total_claimed = queue[s].total_claimed + n
      /\ \A r \in Stope : r # s => queue'[r] = queue[r]
  <2>1. queue \in [Stope -> Queue!QueueRecord]
    BY <1>3 DEF Queue!TypeOK, Queue!QueueRecord
  <2>2. /\ Queue!Dequeued(queue[s], n, fee).total_pending
             = Queue!SaturatingSub(queue[s].total_pending, n)
        /\ Queue!Dequeued(queue[s], n, fee).total_claimed
             = queue[s].total_claimed + n
    BY <1>5, <2>1 DEF Queue!Dequeued, Queue!QueueRecord
  <2>3. Queue!SaturatingSub(queue[s].total_pending, n) = queue[s].total_pending - n
    BY <1>7 DEF Queue!SaturatingSub
  <2> QED BY <1>5, <1>8, <2>1, <2>2, <2>3
<1>10. ticket[x].terms.normalized_amount = n
  BY DEF n
<1>11. /\ LedgerMoves
       /\ n <= NormalizedOf(Queued)
       /\ NormalizedOf(Queued)' = NormalizedOf(Queued) - n
  BY <1>1, <1>2, <1>5, <1>6, <1>7, <1>9, <1>10, SettleMoves
<1> QED
  BY <1>10, <1>11, Zenon

(***************************************************************************)
(* Everything else moves no value.                                         *)
(***************************************************************************)
LEMMA NothingMoves ==
    ASSUME LedgerInv, IsFiniteSet(DOMAIN adit'),
           CreditedTo(DOMAIN adit)' = CreditedTo(DOMAIN adit),
           UNCHANGED <<stope, total_normalized_deposits, ticket, queue>>
    PROVE  LedgerMoves
<1>1. VaultTotals'
  BY DEF LedgerInv, VaultTotals
<1>2. UNCHANGED Books!vars
  BY Zenon DEF Books!vars, NormalizedOf, Queued
<1>3. UNCHANGED Totals!vars
  BY Zenon DEF Totals!vars
<1> QED
  BY <1>1, <1>2, <1>3 DEF LedgerMoves

LEMMA StillLedger ==
    ASSUME LedgerInv,
           UNCHANGED <<adit, stope, total_normalized_deposits, ticket, queue>>
    PROVE  LedgerMoves
<1>1. CreditedTo(DOMAIN adit)' = CreditedTo(DOMAIN adit)
  BY LedgerTerms, Zenon
<1> QED
  BY <1>1, LedgerTypes, NothingMoves

LEMMA RegisterAditMovesNothing ==
    ASSUME LedgerInv, NEW k, NEW a, NEW c, NEW cap, RegisterAdit(k, a, c, cap)
    PROVE  LedgerMoves
<1> DEFINE A == DOMAIN adit
           f == [b \in A |-> adit[b].total_normalized]
           g == [b \in A \cup {a} |-> adit'[b].total_normalized]
<1>1. /\ Custody!RegisterAdit(a, c, cap)
      /\ UNCHANGED <<stope, total_normalized_deposits, ticket, queue>>
  BY Zenon DEF RegisterAdit, pool_vars, queue_vars
<1>2. /\ a \notin A /\ DOMAIN adit' = A \cup {a}
      /\ \A b \in A : adit'[b] = adit[b]
      /\ adit'[a].total_normalized = 0
  BY <1>1 DEF Custody!RegisterAdit
<1>3. IsFiniteSet(A) /\ \A b \in A : adit[b].total_normalized \in Nat
  BY LedgerTypes
<1> HIDE DEF A
<1>4. /\ f \in [A -> Nat] /\ g \in [A \cup {a} -> Nat] /\ g[a] = 0
      /\ \A b \in A : f[b] = g[b]
  BY <1>2, <1>3
<1>5. CreditOf(adit, A) = SumFunctionOnSet(f, A)
      /\ CreditOf(adit', A \cup {a}) = SumFunctionOnSet(g, A \cup {a})
  BY Zenon DEF CreditOf
<1> HIDE DEF f, g
<1>6. /\ SumFunctionOnSet(g, A \cup {a}) = SumFunctionOnSet(f, A) + g[a]
      /\ SumFunctionOnSet(f, A) \in Nat
  <2>1. SumFunctionOnSet(g, A \cup {a}) = SumFunctionOnSet(f, A) + g[a]
    <3>1. /\ IsFiniteSet(A) /\ a \notin A
          /\ f \in [A -> Nat] /\ g \in [A \cup {a} -> Nat]
          /\ \A b \in A : f[b] = g[b]
      BY <1>2, <1>3, <1>4
    <3> QED BY ONLY <3>1, SumPlusOne, ZenonT(60)
  <2>2. SumFunctionOnSet(f, A) \in Nat
    BY ONLY <1>3, <1>4, SumType, Zenon
  <2> QED BY <2>1, <2>2
<1>7. CreditedTo(DOMAIN adit)' = CreditedTo(DOMAIN adit)
  <2>1. CreditOf(adit', A \cup {a}) = CreditOf(adit, A)
    BY <1>4, <1>5, <1>6
  <2> QED BY <1>2, <2>1, LedgerTerms, Zenon DEF A
<1>8. IsFiniteSet(DOMAIN adit')
  BY <1>2, <1>3, FS_AddElement
<1> QED
  BY <1>1, <1>7, <1>8, NothingMoves

LEMMA NextLedger == Proved /\ LedgerInv /\ [Next]_vars => LedgerMoves
<1> SUFFICES ASSUME Proved, LedgerInv, [Next]_vars PROVE LedgerMoves
  OBVIOUS
<1> DEFINE Still == UNCHANGED <<adit, stope, total_normalized_deposits, ticket, queue>>
<1>1. Still => LedgerMoves
  BY StillLedger
<1>2. CASE Money
  BY <1>2, MakeDepositCredits, RequestRedemptionAsks, ClaimRedemptionSettles, Zenon
     DEF Money
<1>3. CASE Keeping
  <2>1. ASSUME NEW k \in Keeper, NEW id \in 1..NumSeams, NEW bps \in Weights,
               UpdateSeamAllocation(k, id, bps)
        PROVE  Still
    BY <2>1, Zenon DEF UpdateSeamAllocation, custody_vars, pool_vars, queue_vars
  <2>2. ASSUME NEW k \in Keeper, NEW amount \in 1..InitialLodz,
               BondKeeper(k, amount) \/ UnbondKeeper(k, amount)
        PROVE  Still
    BY <2>2, Zenon DEF BondKeeper, UnbondKeeper, custody_vars, pool_vars, queue_vars
  <2> HIDE DEF Still
  <2> QED BY <1>1, <1>3, <2>1, <2>2, AccrueYieldCredits, Zenon DEF Keeping
<1>4. CASE Governing
  <2>1. ASSUME NEW k \in Signers, Administer(k) PROVE Still
    BY <2>1, Zenon DEF Administer, custody_vars, pool_vars, queue_vars
  <2>2. ASSUME NEW k \in Signers, NEW bonded \in Keeper, NEW amount \in 1..InitialLodz,
               SlashKeeper(k, bonded, amount)
        PROVE  Still
    BY <2>2, Zenon DEF SlashKeeper, custody_vars, pool_vars, queue_vars
  <2>3. ASSUME NEW k \in Signers, NEW id \in 1..NumSeams, NEW s \in Stope,
               NEW declared \in Seams!Declarations, RegisterSeam(k, id, s, declared)
        PROVE  Still
    BY <2>3, Zenon DEF RegisterSeam, custody_vars, pool_vars, queue_vars
  <2> HIDE DEF Still
  <2> QED BY <1>1, <1>4, <2>1, <2>2, <2>3, RegisterAditMovesNothing, Zenon DEF Governing
<1>5. CASE \E a \in Asset, amount \in 1..Supply : SendDirectly(a, amount)
  <2>1. Still
    BY <1>5, Zenon DEF SendDirectly, Custody!SendDirectly, pool_vars, queue_vars
  <2> QED BY <1>1, <2>1
<1>6. CASE Tick
  <2>1. Still
    BY <1>6, Zenon DEF Tick, custody_vars, pool_vars, Queue!Tick
  <2> QED BY <1>1, <2>1
<1>7. CASE \E k \in Keeper, amount \in 1..InitialLodz : SendLodz(k, amount)
  <2>1. Still
    BY <1>7, Zenon DEF SendLodz, custody_vars, pool_vars, queue_vars
  <2> QED BY <1>1, <2>1
<1>8. CASE UNCHANGED vars
  BY <1>1, <1>8, Zenon DEF vars, custody_vars, pool_vars, queue_vars
<1> QED
  BY <1>2, <1>3, <1>4, <1>5, <1>6, <1>7, <1>8 DEF Next

LEMMA InitLedger == Init => VaultTotals /\ Books!Init /\ Totals!Init
<1> SUFFICES ASSUME Init PROVE VaultTotals /\ Books!Init /\ Totals!Init
  OBVIOUS
<1>1. Custody!Init /\ Pool!Init /\ Queue!Init
  BY DEF Init
<1>2. /\ DOMAIN adit = {} /\ DOMAIN ticket = {} /\ Queued = {}
      /\ DOMAIN ticket \ Queued = {} /\ total_normalized_deposits = 0
  BY <1>1 DEF Custody!Init, Queue!Init, Pool!Init, Queued
<1>3. CreditedTo(DOMAIN adit) = 0
  BY <1>2, SumOfNone DEF CreditedTo
<1>4. NormalizedOf(Queued) = 0 /\ NormalizedOf(DOMAIN ticket \ Queued) = 0
  <2>1. NormalizedOf({}) = 0
    BY SumOfNone DEF NormalizedOf
  <2> QED BY <1>2, <2>1, Zenon
<1>5. /\ Principal(stope) = [s \in Stope |-> 0]
      /\ Pending(queue) = [s \in Stope |-> 0]
      /\ Paid(queue) = [s \in Stope |-> 0]
  BY <1>1 DEF Principal, Pending, Paid, Pool!Init, Pool!EmptyPool,
              Pool!Stope, Stope, Queue!Init, Queue!EmptyQueue
<1>6. Total([s \in Stope |-> 0], NumStopes) = 0
  <2>1. /\ [s \in Stope |-> 0] \in [1..NumStopes -> Nat] /\ NumStopes \in Nat
        /\ \A i \in 1..NumStopes : [s \in Stope |-> 0][i] = 0
    BY VaultAssumption DEF Stope
  <2> QED BY <2>1, TotalOfZeros, Zenon
<1>7. VaultTotals
  BY <1>2, <1>5, <1>6, FS_EmptySet DEF VaultTotals
<1>8. Books!Init
  BY <1>2, <1>3, <1>4 DEF Books!Init
<1>9. Totals!Init
  BY <1>3, <1>5, <1>6, Zenon DEF Totals!Init, Principal, Pending, Paid
<1> QED
  BY <1>7, <1>8, <1>9

Balanced(c, b, o, z) == c \in Nat /\ b \in Nat /\ o \in Nat /\ z \in Nat /\ c = b + o + z

LedgerStep(n, c, b, o, z, c2, b2, o2, z2) ==
    \/ c2 = c + n /\ b2 = b + n /\ o2 = o /\ z2 = z
    \/ n <= b /\ c2 = c /\ b2 = b - n /\ o2 = o + n /\ z2 = z
    \/ n <= o /\ c2 = c /\ b2 = b /\ o2 = o - n /\ z2 = z + n

LEMMA LedgerStepBalances ==
    ASSUME NEW n \in U64, NEW c, NEW b, NEW o, NEW z, NEW c2, NEW b2, NEW o2, NEW z2,
           Balanced(c, b, o, z), LedgerStep(n, c, b, o, z, c2, b2, o2, z2)
    PROVE  Balanced(c2, b2, o2, z2)
<1>1. n \in Nat
  BY MathAssumption DEF U64
<1>2. c \in Nat /\ b \in Nat /\ o \in Nat /\ z \in Nat /\ c = b + o + z
  BY DEF Balanced
<1>3. CASE c2 = c + n /\ b2 = b + n /\ o2 = o /\ z2 = z
  BY <1>1, <1>2, <1>3 DEF Balanced
<1>4. CASE n <= b /\ c2 = c /\ b2 = b - n /\ o2 = o + n /\ z2 = z
  BY <1>1, <1>2, <1>4 DEF Balanced
<1>5. CASE n <= o /\ c2 = c /\ b2 = b /\ o2 = o - n /\ z2 = z + n
  BY <1>1, <1>2, <1>5 DEF Balanced
<1> QED
  BY <1>3, <1>4, <1>5 DEF LedgerStep

LEMMA BooksConserve ==
    Books!TypeOK /\ Books!Conserved /\ [Books!Next]_(Books!vars)
        => Books!TypeOK' /\ Books!Conserved'
<1> DEFINE c == CreditedTo(DOMAIN adit)
           b == total_normalized_deposits
           o == NormalizedOf(Queued)
           z == NormalizedOf(DOMAIN ticket \ Queued)
<1>1. SUFFICES ASSUME Books!TypeOK, Books!Conserved, [Books!Next]_(Books!vars)
               PROVE  Books!TypeOK' /\ Books!Conserved'
  OBVIOUS
<1>2. Balanced(c, b, o, z)
  BY <1>1, Zenon DEF Books!TypeOK, Books!Conserved, Balanced
<1>3. ASSUME NEW n \in Books!U64, Books!Credit(n) \/ Books!Ask(n) \/ Books!Settle(n)
      PROVE  LedgerStep(n, c, b, o, z, c', b', o', z')
  BY <1>3, Zenon DEF Books!Credit, Books!Ask, Books!Settle, LedgerStep
<1>4. (\E n \in U64 : LedgerStep(n, c, b, o, z, c', b', o', z'))
      \/ UNCHANGED <<c, b, o, z>>
  BY <1>1, <1>3, Zenon DEF Books!Next, Books!vars, Books!U64, U64
<1> HIDE DEF c, b, o, z
<1>5. Balanced(c', b', o', z')
  BY <1>2, <1>4, LedgerStepBalances
<1> QED
  BY <1>5, Zenon DEF Books!TypeOK, Books!Conserved, Balanced, c, b, o, z

LEMMA TotalsConserve ==
    Totals!TypeOK /\ Totals!Conserved /\ [Totals!Next]_(Totals!vars)
        => Totals!TypeOK' /\ Totals!Conserved'
<1> DEFINE c == CreditedTo(DOMAIN adit)
           b == Total([s \in Stope |-> stope[s].total_deposits], NumStopes)
           o == Total([s \in Stope |-> queue[s].total_pending], NumStopes)
           z == Total([s \in Stope |-> queue[s].total_claimed], NumStopes)
<1>1. SUFFICES ASSUME Totals!TypeOK, Totals!Conserved, [Totals!Next]_(Totals!vars)
               PROVE  Totals!TypeOK' /\ Totals!Conserved'
  OBVIOUS
<1>2. Balanced(c, b, o, z)
  BY <1>1, Zenon DEF Totals!TypeOK, Totals!Conserved, Balanced
<1>3. ASSUME NEW n \in Totals!U64, Totals!Credit(n) \/ Totals!Ask(n) \/ Totals!Settle(n)
      PROVE  LedgerStep(n, c, b, o, z, c', b', o', z')
  BY <1>3, Zenon DEF Totals!Credit, Totals!Ask, Totals!Settle, LedgerStep
<1>4. (\E n \in U64 : LedgerStep(n, c, b, o, z, c', b', o', z'))
      \/ UNCHANGED <<c, b, o, z>>
  BY <1>1, <1>3, Zenon DEF Totals!Next, Totals!vars, Totals!U64, U64
<1> HIDE DEF c, b, o, z
<1>5. Balanced(c', b', o', z')
  BY <1>2, <1>4, LedgerStepBalances
<1> QED
  BY <1>5, Zenon DEF Totals!TypeOK, Totals!Conserved, Balanced, c, b, o, z

-----------------------------------------------------------------------------
(***************************************************************************)
(* Solvency.  What is in custody, as amounts of assets with their ratios.  *)
(***************************************************************************)
Held == [a \in DOMAIN adit |-> adit_vault[a] + withheld[a]]

Nums == [a \in DOMAIN adit |-> adit[a].conversion.num]

Dens == [a \in DOMAIN adit |-> adit[a].conversion.den]

Obligations == total_normalized_deposits + NormalizedOf(Queued) + FeesTaken

LEMMA CustodyTerms ==
    /\ CommonDen = Product(Dens, DOMAIN adit)
    /\ CommonDen' = Product(Dens', DOMAIN adit')
    /\ CustodyValue = ValueHeld(Held, Nums, Dens, DOMAIN adit)
    /\ CustodyValue' = ValueHeld(Held', Nums', Dens', DOMAIN adit')
<1>1. CommonDen = Product(Dens, DOMAIN adit)
  BY Zenon DEF CommonDen, Product, Dens
<1>2. CommonDen' = Product(Dens', DOMAIN adit')
  <2>1. (CommonDen = Product(Dens, DOMAIN adit))'
    BY <1>1, PTL
  <2> QED BY <2>1
<1>3. [a \in DOMAIN adit |-> (adit_vault[a] + withheld[a]) * adit[a].conversion.num
                                * (CommonDen \div adit[a].conversion.den)]
        = [a \in DOMAIN adit |-> Held[a] * Nums[a]
                                * (Product(Dens, DOMAIN adit) \div Dens[a])]
  BY <1>1 DEF Held, Nums, Dens
<1>4. [a \in DOMAIN adit' |-> (adit_vault'[a] + withheld'[a]) * adit'[a].conversion.num
                                * (CommonDen' \div adit'[a].conversion.den)]
        = [a \in DOMAIN adit' |-> Held'[a] * Nums'[a]
                                * (Product(Dens', DOMAIN adit') \div Dens'[a])]
  BY <1>2 DEF Held, Nums, Dens
<1>5. CustodyValue = ValueHeld(Held, Nums, Dens, DOMAIN adit)
  BY <1>3, Zenon DEF CustodyValue, ValueHeld
<1>6. CustodyValue' = ValueHeld(Held', Nums', Dens', DOMAIN adit')
  BY <1>4, Zenon DEF CustodyValue, ValueHeld
<1> QED
  BY <1>1, <1>2, <1>5, <1>6

LEMMA CustodyRatios ==
    LedgerInv => Ratios(Nums, Dens, DOMAIN adit) /\ Held \in [DOMAIN adit -> Nat]
<1> SUFFICES ASSUME LedgerInv
             PROVE  Ratios(Nums, Dens, DOMAIN adit) /\ Held \in [DOMAIN adit -> Nat]
  OBVIOUS
<1>1. /\ IsFiniteSet(DOMAIN adit) /\ DOMAIN adit \subseteq Asset
      /\ \A a \in DOMAIN adit : /\ adit[a].conversion.num \in Nat
                                /\ adit[a].conversion.den \in Nat \ {0}
      /\ \A a \in Asset : adit_vault[a] \in Nat
  BY CustodyFacts DEF LedgerInv, VaultTotals
<1>2. \A a \in Asset : withheld[a] \in Nat
  BY LedgerTypes DEF LedgerInv, VaultInv, Custody!CustodyInv, Custody!TypeOK,
         Custody!U64
<1> QED
  BY <1>1, <1>2 DEF Ratios, Nums, Dens, Held

Fees(queues) == [s \in Stope |-> queues[s].total_fees]

LEMMA SolventTypes ==
    LedgerInv => /\ total_normalized_deposits \in Nat /\ NormalizedOf(Queued) \in Nat
                 /\ FeesTaken \in Nat /\ Obligations \in Nat
                 /\ CommonDen \in Nat \ {0} /\ CustodyValue \in Nat
<1> SUFFICES ASSUME LedgerInv
             PROVE  /\ total_normalized_deposits \in Nat /\ NormalizedOf(Queued) \in Nat
                    /\ FeesTaken \in Nat /\ Obligations \in Nat
                    /\ CommonDen \in Nat \ {0} /\ CustodyValue \in Nat
  OBVIOUS
<1>1. NumStopes \in Nat
  BY VaultAssumption
<1>2. total_normalized_deposits \in Nat
  BY <1>1, LedgerTypes, TotalType DEF LedgerInv, VaultTotals
<1>3. NormalizedOf(Queued) \in Nat
  <2> DEFINE Q == Queued
             f == [x \in Q |-> ticket[x].terms.normalized_amount]
  <2>1. Q \in SUBSET DOMAIN ticket /\ IsFiniteSet(DOMAIN ticket)
    BY LedgerTypes DEF Queued
  <2>2. IsFiniteSet(Q) /\ f \in [Q -> Nat]
    BY <2>1, LedgerTypes, FS_Subset
  <2> HIDE DEF f
  <2>3. SumFunctionOnSet(f, Q) \in Nat
    BY <2>2, SumType
  <2> QED BY <2>3 DEF NormalizedOf, f
<1>4. FeesTaken \in Nat
  <2>1. Fees(queue) \in [1..NumStopes -> Nat]
    BY MathAssumption DEF LedgerInv, VaultInv, Queue!TypeOK, Queue!U64, Fees, Stope
  <2>2. Total(Fees(queue), NumStopes) \in Nat
    BY <1>1, <2>1, TotalType
  <2> QED BY <2>2 DEF FeesTaken, Fees
<1>5. CommonDen \in Nat \ {0}
  <2>1. IsFiniteSet(DOMAIN adit) /\ Dens \in [DOMAIN adit -> Nat \ {0}]
    BY CustodyRatios DEF Ratios
  <2> QED BY <2>1, ProductType, CustodyTerms
<1>6. CustodyValue \in Nat
  BY CustodyRatios, ValueHeldType, CustodyTerms DEF HeldFacts
<1> QED
  BY <1>2, <1>3, <1>4, <1>5, <1>6 DEF Obligations

(***************************************************************************)
(* The terms of every ticket are below the value of what it gave up: the   *)
(* payout, at the ratio of its asset, and the fee.                         *)
(***************************************************************************)
Priced(adits, t) ==
    /\ t.asset_mint \in DOMAIN adits
    /\ t.payout_amount > 0
    /\ t.fee_normalized <= t.normalized_amount
    /\ t.payout_amount * adits[t.asset_mint].conversion.num
         <= (t.normalized_amount - t.fee_normalized) * adits[t.asset_mint].conversion.den

TicketsPriced == \A x \in DOMAIN ticket : Priced(adit, ticket[x].terms)

SolventInv == LedgerInv /\ TicketsPriced /\ Solvent

(***************************************************************************)
(* One holding changes: by x units of a.                                   *)
(***************************************************************************)
RatiosKept == /\ DOMAIN adit' = DOMAIN adit
              /\ \A b \in DOMAIN adit : adit'[b].conversion = adit[b].conversion

HoldingMoves(a, held, later, x) ==
    /\ a \in DOMAIN adit /\ x \in Nat
    /\ later[a] = held[a] + x
    /\ \A b \in DOMAIN adit : b # a => later[b] = held[b]

\* What a unit of an asset is worth, in units of 1/CommonDen.
Worth(a) == UnitValue(Nums, Dens, DOMAIN adit, a)

LEMMA ValueMoves ==
    ASSUME LedgerInv, LedgerInv', RatiosKept, NEW a, NEW x
    PROVE  /\ CommonDen' = CommonDen
           /\ HoldingMoves(a, Held, Held', x)
                => CustodyValue' = CustodyValue + x * Worth(a)
           /\ HoldingMoves(a, Held', Held, x)
                => CustodyValue = CustodyValue' + x * Worth(a)
<1> DEFINE A == DOMAIN adit
           h == Held
           k == Held'
<1>1. DOMAIN adit' = A /\ Nums' = Nums /\ Dens' = Dens
  BY DEF RatiosKept, Nums, Dens
<1>2. Ratios(Nums, Dens, A) /\ h \in [A -> Nat]
  BY CustodyRatios
<1>3. k \in [A -> Nat]
  <2>1. (LedgerInv => Ratios(Nums, Dens, DOMAIN adit) /\ Held \in [DOMAIN adit -> Nat])'
    BY CustodyRatios, PTL
  <2> QED BY <1>1, <2>1
<1>4. CommonDen' = CommonDen
  BY <1>1, CustodyTerms
<1>5. /\ CustodyValue = ValueHeld(h, Nums, Dens, A)
      /\ CustodyValue' = ValueHeld(k, Nums, Dens, A)
  BY <1>1, CustodyTerms
<1> HIDE DEF h, k, A
<1>6. ASSUME a \in A, x \in Nat, k[a] = h[a] + x, \A b \in A : b # a => k[b] = h[b]
      PROVE  ValueHeld(k, Nums, Dens, A)
                = ValueHeld(h, Nums, Dens, A) + x * UnitValue(Nums, Dens, A, a)
  BY <1>2, <1>3, <1>6, OneHoldingGrows
<1>7. ASSUME a \in A, x \in Nat, h[a] = k[a] + x, \A b \in A : b # a => h[b] = k[b]
      PROVE  ValueHeld(h, Nums, Dens, A)
                = ValueHeld(k, Nums, Dens, A) + x * UnitValue(Nums, Dens, A, a)
  BY <1>2, <1>3, <1>7, OneHoldingGrows
<1> QED
  BY <1>4, <1>5, <1>6, <1>7 DEF HoldingMoves, Worth, h, k, A

LEMMA WorthFacts ==
    ASSUME LedgerInv, NEW a \in DOMAIN adit
    PROVE  /\ Worth(a) \in Nat
           /\ \A n, x \in Nat :
                /\ n * adit[a].conversion.den <= x * adit[a].conversion.num
                        => n * CommonDen <= x * Worth(a)
                /\ x * adit[a].conversion.num <= n * adit[a].conversion.den
                        => x * Worth(a) <= n * CommonDen
<1>1. UnitFacts(Nums, Dens, DOMAIN adit, a)
  BY CustodyRatios, UnitValues
<1>2. /\ adit[a].conversion.num \in Nat /\ adit[a].conversion.den \in Nat \ {0}
      /\ Nums[a] = adit[a].conversion.num /\ Dens[a] = adit[a].conversion.den
  BY CustodyFacts DEF LedgerInv, Nums, Dens
<1>3. /\ Worth(a) \in Nat /\ CommonDen \in Nat
      /\ Worth(a) * adit[a].conversion.den = adit[a].conversion.num * CommonDen
  BY <1>1, <1>2, CustodyTerms DEF UnitFacts, Worth
<1> QED
  BY <1>2, <1>3, CrossMultiply

(***************************************************************************)
(* Obligations change only with value: d more, e less, covered at the      *)
(* ratio of the asset that moves.                                          *)
(***************************************************************************)
LEMMA GainKeepsSolvent ==
    ASSUME SolventInv, LedgerInv', RatiosKept, NEW a, NEW x \in Nat, NEW n \in Nat,
           HoldingMoves(a, Held, Held', x),
           n * adit[a].conversion.den <= x * adit[a].conversion.num,
           Obligations' = Obligations + n
    PROVE  Solvent'
<1> DEFINE D == CommonDen
           L == Obligations
           V == CustodyValue
           W == x * Worth(a)
<1>1. a \in DOMAIN adit
  BY DEF HoldingMoves
<1>2. D' = D /\ V' = V + W
  BY ValueMoves DEF SolventInv
<1>3. W \in Nat /\ n * D <= W
  BY <1>1, WorthFacts DEF SolventInv
<1>4. D \in Nat /\ L \in Nat /\ V \in Nat
  BY SolventTypes DEF SolventInv
<1>5. V >= D * L
  BY DEF SolventInv, Solvent, Obligations
<1>6. L' = L + n
  OBVIOUS
<1> HIDE DEF D, L, V, W
<1>7. D * (L + n) = D * L + n * D /\ D * L \in Nat /\ n * D \in Nat
  BY <1>4, SMT
<1>8. V + W >= D * (L + n)
  BY <1>3, <1>4, <1>5, <1>7
<1>9. V' >= D' * L'
  BY <1>2, <1>6, <1>8
<1> QED
  BY <1>9, Zenon DEF Solvent, Obligations, D, L, V

LEMMA LossKeepsSolvent ==
    ASSUME SolventInv, LedgerInv', RatiosKept, NEW a, NEW x \in Nat, NEW n \in Nat,
           HoldingMoves(a, Held', Held, x),
           x * adit[a].conversion.num <= n * adit[a].conversion.den,
           Obligations = Obligations' + n
    PROVE  Solvent'
<1> DEFINE D == CommonDen
           L == Obligations
           V == CustodyValue
           W == x * Worth(a)
<1>1. a \in DOMAIN adit
  BY DEF HoldingMoves, RatiosKept
<1>2. D' = D /\ V = V' + W
  BY ValueMoves DEF SolventInv
<1>3. W \in Nat /\ W <= n * D
  BY <1>1, WorthFacts DEF SolventInv
<1>4. D \in Nat /\ L \in Nat /\ V \in Nat /\ L' \in Nat /\ V' \in Nat
  <2>1. D \in Nat /\ L \in Nat /\ V \in Nat
    BY SolventTypes DEF SolventInv
  <2>2. (LedgerInv => Obligations \in Nat /\ CustodyValue \in Nat)'
    BY SolventTypes, PTL
  <2> QED BY <2>1, <2>2
<1>5. V >= D * L
  BY DEF SolventInv, Solvent, Obligations
<1>6. L = L' + n
  OBVIOUS
<1> DEFINE M == L'
           U == V'
<1>10. M \in Nat /\ U \in Nat /\ L = M + n /\ V = U + W
  BY <1>2, <1>4, <1>6
<1> HIDE DEF D, L, V, W, M, U
<1>7. D * (M + n) = D * M + n * D /\ D * M \in Nat /\ n * D \in Nat
  BY <1>4, <1>10, SMT
<1>8. U >= D * M
  BY <1>3, <1>4, <1>5, <1>7, <1>10
<1>9. V' >= D' * L'
  BY <1>2, <1>8 DEF M, U
<1> QED
  BY <1>9, Zenon DEF Solvent, Obligations, D, L, V

LEMMA StillSolvent ==
    ASSUME Solvent, UNCHANGED <<adit, adit_vault, withheld>>,
           Obligations' = Obligations
    PROVE  Solvent'
<1>1. CommonDen' = CommonDen /\ CustodyValue' = CustodyValue
  <2>1. Held' = Held /\ Nums' = Nums /\ Dens' = Dens /\ DOMAIN adit' = DOMAIN adit
    BY DEF Held, Nums, Dens
  <2> QED BY <2>1, CustodyTerms
<1>2. CustodyValue' >= CommonDen' * Obligations'
  BY <1>1 DEF Solvent, Obligations
<1> QED
  BY <1>2, Zenon DEF Solvent, Obligations

(***************************************************************************)
(* Instruction by instruction.                                             *)
(***************************************************************************)
QueueObligationsKept == NormalizedOf(Queued)' = NormalizedOf(Queued) /\ FeesTaken' = FeesTaken

LEMMA SameQueueSameObligations == UNCHANGED <<ticket, queue>> => QueueObligationsKept
BY Zenon DEF QueueObligationsKept, NormalizedOf, Queued, FeesTaken

LEMMA ReceiveKeepsSolvent ==
    ASSUME SolventInv, LedgerInv', NEW a \in Asset, NEW amount \in 1..Supply,
           Custody!Receive(a, amount),
           total_normalized_deposits'
                = total_normalized_deposits + Custody!Normalized(a, amount),
           QueueObligationsKept
    PROVE  Solvent'
<1> DEFINE n == Custody!Normalized(a, amount)
           c == adit[a].conversion
           got == Custody!Delivered(a, amount)
<1>1. LedgerInv /\ VaultInv
  BY DEF SolventInv, LedgerInv
<1>2. /\ a \in DOMAIN adit /\ n \in Custody!U64
      /\ adit' = [adit EXCEPT ![a].total_deposited = @ + amount,
                              ![a].total_normalized = @ + n]
      /\ adit_vault' = [adit_vault EXCEPT ![a] = @ + got]
      /\ withheld' = [withheld EXCEPT ![a] = @ + amount - got]
  BY DEF Custody!Receive, Custody!RoomForCredit, Custody!TransferIn, Custody!Fits64
<1>3. /\ \A b \in DOMAIN adit : adit[b] \in Custody!AditRecord
      /\ adit_vault \in [Asset -> Nat] /\ withheld \in [Asset -> Nat]
      /\ DOMAIN adit \subseteq Asset
  BY <1>1, MathAssumption
     DEF VaultInv, Custody!CustodyInv, Custody!TypeOK, Custody!U64
<1>4. amount \in Nat /\ n \in Nat /\ got \in Int
  BY <1>1, <1>2, CustodyFacts, MathAssumption DEF Custody!U64, Custody!Delivered
<1>5. RatiosKept
  BY <1>2, <1>3 DEF RatiosKept, Custody!AditRecord
<1>6. n * c.den <= amount * c.num
  <2>1. c.num \in Nat /\ c.den \in Nat /\ c.den > 0
    BY <1>1, <1>2, CustodyFacts
  <2>2. n = MulDivFloor(amount, c.num, c.den)
    BY DEF Custody!Normalized, Custody!ToNormalized, Custody!MulDivFloor,
           MulDivFloor
  <2> HIDE DEF n, c
  <2>3. c.den * n <= amount * c.num
    BY <1>4, <2>1, <2>2, MulDivFloorBounds
  <2> QED BY <1>4, <2>1, <2>3
<1> HIDE DEF n, got
<1>7. HoldingMoves(a, Held, Held', amount)
  <2>1. /\ adit_vault'[a] = adit_vault[a] + got
        /\ withheld'[a] = withheld[a] + amount - got
        /\ adit_vault[a] \in Nat /\ withheld[a] \in Nat
        /\ \A b \in DOMAIN adit : b # a => /\ adit_vault'[b] = adit_vault[b]
                                           /\ withheld'[b] = withheld[b]
    BY <1>2, <1>3, <1>4
  <2>2. adit_vault'[a] + withheld'[a] = (adit_vault[a] + withheld[a]) + amount
    BY <1>4, <2>1
  <2>3. DOMAIN adit' = DOMAIN adit
    BY <1>5 DEF RatiosKept
  <2> QED BY <1>2, <1>4, <2>1, <2>2, <2>3 DEF HoldingMoves, Held
<1>8. Obligations' = Obligations + n
  <2>1. /\ total_normalized_deposits \in Nat /\ NormalizedOf(Queued) \in Nat
        /\ FeesTaken \in Nat
    BY <1>1, SolventTypes
  <2>2. total_normalized_deposits' = total_normalized_deposits + n
    BY DEF n
  <2> QED BY <1>4, <2>1, <2>2 DEF Obligations, QueueObligationsKept
<1> QED
  BY <1>4, <1>5, <1>6, <1>7, <1>8, GainKeepsSolvent

LEMMA MakeDepositSolvent ==
    ASSUME SolventInv, LedgerInv', NEW o \in Owner, NEW s \in Stope, NEW a \in Asset,
           NEW amount \in 1..Supply, MakeDeposit(o, s, a, amount)
    PROVE  Solvent'
<1> DEFINE n == Custody!Normalized(a, amount)
<1>1. /\ Custody!Receive(a, amount) /\ Pool!MintShares(o, s, n)
      /\ UNCHANGED <<ticket, queue>>
  BY DEF MakeDeposit, Custody!TakeDeposit, queue_vars
<1>2. total_normalized_deposits' = total_normalized_deposits + n
  BY <1>1 DEF Pool!MintShares
<1> HIDE DEF n
<1>3. QueueObligationsKept
  BY <1>1, SameQueueSameObligations
<1> QED
  BY <1>1, <1>2, <1>3, ReceiveKeepsSolvent DEF n

LEMMA AccrueYieldSolvent ==
    ASSUME SolventInv, LedgerInv', NEW k \in Keeper, NEW id \in 1..NumSeams,
           NEW amount \in 1..Supply, AccrueYield(k, id, amount)
    PROVE  Solvent'
<1> DEFINE a == seam[id].asset_mint
           s == seam[id].stope_id
           kind == seam[id].yield_kind
           n == Custody!Normalized(a, amount)
<1>1. /\ id \in DOMAIN seam
      /\ Custody!Receive(a, amount)
      /\ Pool!BookYield(s, kind, n)
      /\ UNCHANGED <<ticket, queue>>
  BY DEF AccrueYield, KindBooked, Custody!TakeYield, queue_vars
<1>2. a \in Asset
  BY <1>1, SeamFacts DEF SolventInv, LedgerInv
<1> HIDE DEF n, a, s, kind
<1>3. total_normalized_deposits' = total_normalized_deposits + n
  BY <1>1 DEF Pool!BookYield
<1>4. QueueObligationsKept
  BY <1>1, SameQueueSameObligations
<1> QED
  BY <1>1, <1>2, <1>3, <1>4, ReceiveKeepsSolvent DEF n

(***************************************************************************)
(* A request moves principal to the queue and pays nothing.                *)
(***************************************************************************)
LEMMA FeesKept ==
    ASSUME \A s \in Stope : queue'[s].total_fees = queue[s].total_fees
    PROVE  FeesTaken' = FeesTaken
<1>1. [s \in Stope |-> queue'[s].total_fees] = [s \in Stope |-> queue[s].total_fees]
  OBVIOUS
<1> QED
  BY <1>1, Zenon DEF FeesTaken

LEMMA RequestRedemptionSolvent ==
    ASSUME Proved, SolventInv, NEW o \in Owner, NEW s \in Stope, NEW a \in Asset,
           NEW shares \in U64, RequestRedemption(o, s, a, shares)
    PROVE  Solvent'
<1> DEFINE n == Terms(o, s, a, shares).normalized_amount
<1>1. /\ Queue!Issue(o, s, Terms(o, s, a, shares))
      /\ Pool!BurnShares(o, s, shares)
      /\ a \in DOMAIN adit
      /\ Fits64(Custody!NativeUnits(a, n))
      /\ UNCHANGED <<adit, adit_vault, withheld>>
  BY Zenon DEF RequestRedemption, custody_vars
<1>2. /\ total_normalized_deposits' = total_normalized_deposits - n
      /\ NormalizedOf(Queued)' = NormalizedOf(Queued) + n
  BY RequestRedemptionAsks DEF SolventInv
<1>3. n \in Nat
  <2>1. Terms(o, s, a, shares) \in TicketTerms
    BY <1>1, TermsFit DEF Pool!BurnShares, SolventInv, LedgerInv
  <2> QED BY <2>1, MathAssumption DEF TicketTerms, U64
<1>4. FeesTaken' = FeesTaken
  <2>1. queue' = [queue EXCEPT ![s] = Queue!Enqueued(@, n)]
    BY <1>1, Zenon DEF Queue!Issue
  <2>2. queue \in [Stope -> Queue!QueueRecord]
    BY DEF SolventInv, LedgerInv, VaultInv, Queue!TypeOK, Queue!QueueRecord
  <2>3. Queue!Enqueued(queue[s], n).total_fees = queue[s].total_fees
    BY <2>2 DEF Queue!Enqueued, Queue!QueueRecord
  <2>4. \A r \in Stope : queue'[r].total_fees = queue[r].total_fees
    BY <2>1, <2>2, <2>3
  <2> QED BY <2>4, FeesKept
<1>5. /\ total_normalized_deposits \in Nat /\ NormalizedOf(Queued) \in Nat
      /\ FeesTaken \in Nat
  BY SolventTypes DEF SolventInv
<1> HIDE DEF n
<1>6. Obligations' = Obligations
  BY <1>2, <1>3, <1>4, <1>5 DEF Obligations
<1> QED
  BY <1>1, <1>6, StillSolvent DEF SolventInv

(***************************************************************************)
(* A claim pays no more than the ticket is owed, the fee aside.            *)
(***************************************************************************)
LEMMA ClaimRedemptionSolvent ==
    ASSUME Proved, SolventInv, LedgerInv', NEW x \in DOMAIN ticket, ClaimRedemption(x)
    PROVE  Solvent'
<1> DEFINE t == ticket[x].terms
           s == ticket[x].stope_id
           a == t.asset_mint
           n == t.normalized_amount
           fee == t.fee_normalized
           paid == t.payout_amount
<1>1. /\ Queue!Settle(x) /\ Custody!PayOut(a, paid)
      /\ UNCHANGED total_normalized_deposits
  BY Zenon DEF ClaimRedemption, pool_vars
<1>2. /\ n <= NormalizedOf(Queued)
      /\ NormalizedOf(Queued)' = NormalizedOf(Queued) - n
  BY ClaimRedemptionSettles DEF SolventInv
<1>3. Queue!TypeOK /\ VaultInv /\ LedgerInv
  BY DEF SolventInv, LedgerInv, VaultInv
<1>4. s \in Stope /\ t \in TicketTerms
  BY <1>3 DEF Queue!TypeOK, Queue!TicketRecord
<1>5. n \in Nat /\ fee \in Nat /\ paid \in Nat /\ a \in Asset
  BY <1>4, MathAssumption DEF TicketTerms, U64
<1>6. /\ a \in DOMAIN adit /\ fee <= n
      /\ paid * adit[a].conversion.num <= (n - fee) * adit[a].conversion.den
  BY Zenon DEF SolventInv, TicketsPriced, Priced
<1>7. FeesTaken' = FeesTaken + fee
  <2>1. queue' = [queue EXCEPT ![s] = Queue!Dequeued(@, n, fee)]
    BY <1>1, Zenon DEF Queue!Settle
  <2> HIDE DEF t, s, n, fee
  <2>2. queue \in [Stope -> Queue!QueueRecord]
    BY <1>3 DEF Queue!TypeOK, Queue!QueueRecord
  <2>3. Queue!Dequeued(queue[s], n, fee).total_fees = queue[s].total_fees + fee
    BY <1>4, <2>2 DEF Queue!Dequeued, Queue!QueueRecord
  <2> DEFINE f == Fees(queue)
             g == Fees(queue')
  <2>4. /\ s \in 1..NumStopes /\ NumStopes \in Nat /\ fee \in Int
        /\ f \in [1..NumStopes -> Nat] /\ g \in [1..NumStopes -> Nat]
        /\ g[s] = f[s] + fee
        /\ \A r \in 1..NumStopes : r # s => g[r] = f[r]
    <3>1. \A r \in Stope : queue[r].total_fees \in Nat
      BY <2>2, MathAssumption DEF Queue!QueueRecord, Queue!U64
    <3>2. /\ queue'[s].total_fees = queue[s].total_fees + fee
          /\ \A r \in Stope : r # s => queue'[r].total_fees = queue[r].total_fees
      BY <1>4, <2>1, <2>2, <2>3
    <3>3. \A r \in Stope : queue'[r].total_fees \in Nat
      BY <1>5, <3>1, <3>2
    <3> QED BY <1>4, <1>5, <3>1, <3>2, <3>3, VaultAssumption DEF Fees, Stope
  <2> HIDE DEF f, g
  <2>5. Total(g, NumStopes) = Total(f, NumStopes) + fee
    BY <2>4, TotalGrows, Zenon
  <2> QED BY <2>5, Zenon DEF FeesTaken, Fees, f, g
<1>8. /\ adit_vault[a] >= paid
      /\ adit_vault' = [adit_vault EXCEPT ![a] = @ - paid]
      /\ adit' = [adit EXCEPT ![a] = Custody!Debited(@, paid)]
      /\ withheld' = withheld
  BY <1>1, Zenon DEF Custody!PayOut
<1>9. /\ \A b \in DOMAIN adit : adit[b] \in Custody!AditRecord
      /\ adit_vault \in [Asset -> Nat] /\ withheld \in [Asset -> Nat]
      /\ DOMAIN adit \subseteq Asset
  BY <1>3, MathAssumption
     DEF VaultInv, Custody!CustodyInv, Custody!TypeOK, Custody!U64
<1> HIDE DEF a, n, fee, paid, s, t
<1>10. RatiosKept
  <2>1. Custody!Debited(adit[a], paid).conversion = adit[a].conversion
    BY <1>6, <1>9 DEF Custody!Debited, Custody!AditRecord
  <2> QED BY <1>6, <1>8, <2>1 DEF RatiosKept
<1>11. HoldingMoves(a, Held', Held, paid)
  <2>1. /\ adit_vault'[a] = adit_vault[a] - paid
        /\ adit_vault[a] \in Nat /\ withheld[a] \in Nat
        /\ \A b \in DOMAIN adit : b # a => adit_vault'[b] = adit_vault[b]
    BY <1>5, <1>8, <1>9
  <2>2. adit_vault[a] + withheld[a] = (adit_vault'[a] + withheld'[a]) + paid
    BY <1>5, <1>8, <2>1
  <2>3. DOMAIN adit' = DOMAIN adit
    BY <1>10 DEF RatiosKept
  <2> QED BY <1>5, <1>6, <1>8, <2>1, <2>2, <2>3 DEF HoldingMoves, Held
<1>12. Obligations = Obligations' + (n - fee) /\ n - fee \in Nat
  <2>1. /\ total_normalized_deposits \in Nat /\ NormalizedOf(Queued) \in Nat
        /\ FeesTaken \in Nat
    BY <1>3, SolventTypes
  <2> QED BY <1>1, <1>2, <1>5, <1>6, <1>7, <2>1 DEF Obligations
<1> QED
  BY <1>5, <1>6, <1>10, <1>11, <1>12, LossKeepsSolvent

LEMMA RegisterAditSolvent ==
    ASSUME SolventInv, LedgerInv', NEW k, NEW a, NEW c, NEW cap, RegisterAdit(k, a, c, cap)
    PROVE  Solvent'
<1> DEFINE A == DOMAIN adit
           D == CommonDen
           L == Obligations
           V == CustodyValue
           d == Dens'[a]
<1>1. /\ Custody!RegisterAdit(a, c, cap)
      /\ UNCHANGED <<total_normalized_deposits, ticket, queue>>
  BY Zenon DEF RegisterAdit, pool_vars, queue_vars
<1>2. /\ a \notin A /\ DOMAIN adit' = A \cup {a}
      /\ \A b \in A : adit'[b] = adit[b]
      /\ UNCHANGED <<adit_vault, withheld>>
  BY <1>1 DEF Custody!RegisterAdit
<1>3. \A b \in A : Nums'[b] = Nums[b] /\ Dens'[b] = Dens[b] /\ Held'[b] = Held[b]
  BY <1>2 DEF Nums, Dens, Held
<1>4. Ratios(Nums, Dens, A) /\ Held \in [A -> Nat]
  BY CustodyRatios DEF SolventInv
<1>5. Ratios(Nums', Dens', A \cup {a}) /\ Held' \in [A \cup {a} -> Nat]
  <2>1. (LedgerInv => Ratios(Nums, Dens, DOMAIN adit) /\ Held \in [DOMAIN adit -> Nat])'
    BY CustodyRatios, PTL
  <2> QED BY <1>2, <2>1
<1>6. /\ D = Product(Dens, A) /\ V = ValueHeld(Held, Nums, Dens, A)
      /\ D' = Product(Dens', A \cup {a})
      /\ V' = ValueHeld(Held', Nums', Dens', A \cup {a})
  BY <1>2, CustodyTerms
<1>7. D' = d * D /\ V' >= d * V
  <2> DEFINE hn == Nums'
             hd == Dens'
             hh == Held'
  <2> HIDE DEF A, D, V, hn, hd, hh
  <2>1. /\ Product(hd, A \cup {a}) = hd[a] * Product(Dens, A)
        /\ ValueHeld(hh, hn, hd, A \cup {a}) >= hd[a] * ValueHeld(Held, Nums, Dens, A)
    <3>1. /\ a \notin A /\ Ratios(hn, hd, A \cup {a}) /\ hh \in [A \cup {a} -> Nat]
          /\ \A b \in A : hn[b] = Nums[b] /\ hd[b] = Dens[b] /\ hh[b] = Held[b]
      BY <1>2, <1>3, <1>5 DEF hn, hd, hh
    <3> QED BY <1>4, <3>1, OneAssetMore
  <2> QED BY <1>6, <2>1 DEF hn, hd, hh
<1>8. d \in Nat \ {0}
  BY <1>5 DEF Ratios
<1>9. D \in Nat /\ L \in Nat /\ V \in Nat
  BY SolventTypes DEF SolventInv
<1>10. V' \in Nat
  <2>1. (LedgerInv => CustodyValue \in Nat)'
    BY SolventTypes, PTL
  <2> QED BY <2>1
<1>11. V >= D * L
  BY DEF SolventInv, Solvent, Obligations
<1>12. L' = L
  BY <1>1, SameQueueSameObligations DEF Obligations, QueueObligationsKept
<1> HIDE DEF D, L, V, d, A
<1>13. d * V >= d * (D * L) /\ d * (D * L) = (d * D) * L /\ d * V \in Nat
  <2>1. D * L \in Nat
    BY <1>9
  <2>2. \A m \in Nat : m <= V => d * m <= d * V
    BY <1>8, <1>9, SMT
  <2>3. d * V >= d * (D * L)
    BY <1>8, <1>9, <1>11, <2>1, <2>2
  <2>4. d * (D * L) = (d * D) * L /\ d * V \in Nat
    BY <1>8, <1>9, SMT
  <2> QED BY <2>3, <2>4
<1>14. V' >= D' * L'
  <2>1. d * (D * L) \in Nat
    BY <1>8, <1>9
  <2>2. D' * L' = d * (D * L)
    BY <1>7, <1>12, <1>13
  <2> QED BY <1>7, <1>10, <1>13, <2>1, <2>2
<1> QED
  BY <1>14, Zenon DEF Solvent, Obligations, D, L, V

LEMMA SendDirectlySolvent ==
    ASSUME SolventInv, LedgerInv', NEW a \in Asset, NEW amount \in 1..Supply,
           SendDirectly(a, amount)
    PROVE  Solvent'
<1> DEFINE got == Custody!Delivered(a, amount)
<1>1. /\ Custody!SendDirectly(a, amount)
      /\ UNCHANGED <<total_normalized_deposits, ticket, queue>>
  BY Zenon DEF SendDirectly, pool_vars, queue_vars
<1>2. /\ a \in DOMAIN adit /\ UNCHANGED <<adit, withheld>>
      /\ adit_vault' = [adit_vault EXCEPT ![a] = @ + got]
  BY <1>1 DEF Custody!SendDirectly, Custody!TransferIn
<1>3. LedgerInv /\ VaultInv
  BY DEF SolventInv, LedgerInv
<1>4. got \in Nat
  <2>1. amount \in Nat
    BY <1>3, CustodyFacts
  <2> QED BY <2>1 DEF Custody!Delivered
<1> HIDE DEF got
<1>5. RatiosKept
  BY <1>2 DEF RatiosKept
<1>6. HoldingMoves(a, Held, Held', got)
  <2>1. DOMAIN adit \subseteq Asset /\ withheld[a] \in Nat /\ adit_vault \in [Asset -> Nat]
    BY <1>3, MathAssumption
       DEF VaultInv, Custody!CustodyInv, Custody!TypeOK, Custody!U64
  <2>2. /\ adit_vault'[a] + withheld'[a] = (adit_vault[a] + withheld[a]) + got
        /\ \A b \in DOMAIN adit : b # a => adit_vault'[b] = adit_vault[b]
    BY <1>2, <1>4, <2>1
  <2> QED BY <1>2, <1>4, <2>1, <2>2 DEF HoldingMoves, Held
<1>7. Obligations' = Obligations + 0
  BY <1>1, <1>3, SolventTypes, SameQueueSameObligations
     DEF Obligations, QueueObligationsKept
<1>8. 0 * adit[a].conversion.den <= got * adit[a].conversion.num
  BY <1>2, <1>3, <1>4, CustodyFacts
<1>9. 0 \in Nat
  OBVIOUS
<1> QED
  BY <1>4, <1>5, <1>6, <1>7, <1>8, <1>9, GainKeepsSolvent

LEMMA NextSolvent == Proved /\ SolventInv /\ LedgerInv' /\ [Next]_vars => Solvent'
<1> SUFFICES ASSUME Proved, SolventInv, LedgerInv', [Next]_vars PROVE Solvent'
  OBVIOUS
<1> DEFINE Still == UNCHANGED <<adit, adit_vault, withheld, total_normalized_deposits,
                                ticket, queue>>
<1>1. Still => Solvent'
  <2>1. Still => Obligations' = Obligations
    BY SameQueueSameObligations DEF Obligations, QueueObligationsKept
  <2> QED BY <2>1, StillSolvent DEF SolventInv
<1>2. CASE Money
  BY <1>2, MakeDepositSolvent, RequestRedemptionSolvent, ClaimRedemptionSolvent, Zenon
     DEF Money
<1>3. CASE Keeping
  <2>1. ASSUME NEW k \in Keeper, NEW id \in 1..NumSeams, NEW bps \in Weights,
               UpdateSeamAllocation(k, id, bps)
        PROVE  Still
    BY <2>1, Zenon DEF UpdateSeamAllocation, custody_vars, pool_vars, queue_vars
  <2>2. ASSUME NEW k \in Keeper, NEW amount \in 1..InitialLodz,
               BondKeeper(k, amount) \/ UnbondKeeper(k, amount)
        PROVE  Still
    BY <2>2, Zenon DEF BondKeeper, UnbondKeeper, custody_vars, pool_vars, queue_vars
  <2> HIDE DEF Still
  <2> QED BY <1>1, <1>3, <2>1, <2>2, AccrueYieldSolvent, Zenon DEF Keeping
<1>4. CASE Governing
  <2>1. ASSUME NEW k \in Signers, Administer(k) PROVE Still
    BY <2>1, Zenon DEF Administer, custody_vars, pool_vars, queue_vars
  <2>2. ASSUME NEW k \in Signers, NEW bonded \in Keeper, NEW amount \in 1..InitialLodz,
               SlashKeeper(k, bonded, amount)
        PROVE  Still
    BY <2>2, Zenon DEF SlashKeeper, custody_vars, pool_vars, queue_vars
  <2>3. ASSUME NEW k \in Signers, NEW id \in 1..NumSeams, NEW s \in Stope,
               NEW declared \in Seams!Declarations, RegisterSeam(k, id, s, declared)
        PROVE  Still
    BY <2>3, Zenon DEF RegisterSeam, custody_vars, pool_vars, queue_vars
  <2> HIDE DEF Still
  <2> QED BY <1>1, <1>4, <2>1, <2>2, <2>3, RegisterAditSolvent, Zenon DEF Governing
<1>5. CASE \E a \in Asset, amount \in 1..Supply : SendDirectly(a, amount)
  BY <1>5, SendDirectlySolvent
<1>6. CASE Tick
  <2>1. Still
    BY <1>6, Zenon DEF Tick, custody_vars, pool_vars, Queue!Tick
  <2> QED BY <1>1, <2>1
<1>7. CASE \E k \in Keeper, amount \in 1..InitialLodz : SendLodz(k, amount)
  <2>1. Still
    BY <1>7, Zenon DEF SendLodz, custody_vars, pool_vars, queue_vars
  <2> QED BY <1>1, <2>1
<1>8. CASE UNCHANGED vars
  BY <1>1, <1>8, Zenon DEF vars, custody_vars, pool_vars, queue_vars
<1> QED
  BY <1>2, <1>3, <1>4, <1>5, <1>6, <1>7, <1>8 DEF Next

(***************************************************************************)
(* Tickets stay priced: terms and ratios never change, and new terms are   *)
(* floors.                                                                 *)
(***************************************************************************)
LEMMA RatiosOnlyAdded ==
    Proved /\ VaultInv /\ [Next]_vars =>
        \A a \in DOMAIN adit :
            a \in DOMAIN adit' /\ adit'[a].conversion = adit[a].conversion
<1> DEFINE Added == \A a \in DOMAIN adit :
                        a \in DOMAIN adit' /\ adit'[a].conversion = adit[a].conversion
<1> SUFFICES ASSUME Proved, VaultInv, [Next]_vars PROVE Added
  OBVIOUS
<1>1. \A b \in DOMAIN adit : adit[b] \in Custody!AditRecord
  BY DEF VaultInv, Custody!CustodyInv, Custody!TypeOK
<1>2. [Custody!Next]_(Custody!vars)
  BY NextAdvances DEF Advance
<1>3. ASSUME NEW a, NEW c, NEW cap, Custody!RegisterAdit(a, c, cap) PROVE Added
  BY <1>3 DEF Custody!RegisterAdit
<1>4. ASSUME NEW a, NEW amount, Custody!Receive(a, amount) PROVE Added
  BY <1>1, <1>4 DEF Custody!Receive, Custody!AditRecord
<1>5. ASSUME NEW a, NEW payout, Custody!PayOut(a, payout) PROVE Added
  BY <1>1, <1>5 DEF Custody!PayOut, Custody!Debited, Custody!AditRecord
<1>6. ASSUME UNCHANGED adit PROVE Added
  BY <1>6
<1> HIDE DEF Added
<1> QED
  BY <1>2, <1>3, <1>4, <1>5, <1>6
     DEF Custody!Next, Custody!vars, Custody!TakeDeposit,
         Custody!TakeYield, Custody!SendDirectly

LEMMA TermsPriced ==
    ASSUME VaultInv, NEW o \in Owner, NEW s \in Stope, NEW a \in DOMAIN adit,
           NEW shares \in U64, Pool!CanBurn(o, s, shares),
           Fits64(Custody!NativeUnits(a, Terms(o, s, a, shares).normalized_amount)),
           Terms(o, s, a, shares).payout_amount > 0
    PROVE  Priced(adit, Terms(o, s, a, shares))
<1> DEFINE n == Pool!RedemptionValue(s, shares)
           basis == Pool!FeeBasis(o, s, shares)
           fee == BpsFraction(basis, fee_bps)
           left == SaturatingSub(n, fee)
           num == adit[a].conversion.num
           den == adit[a].conversion.den
           sum == Pool!SumOfKinds(Pool!ClaimedYield(o, s, shares))
<1>1. n \in 0..U64Max /\ sum \in 0..U64Max
  BY DEF Pool!CanBurn, Pool!Fits64, Pool!U64
<1>2. basis = IF sum <= n THEN sum ELSE n
  BY DEF Pool!FeeBasis, Pool!AtMost
<1>3. Terms(o, s, a, shares)
        = [asset_mint |-> a, normalized_amount |-> n, fee_normalized |-> fee,
           payout_amount |-> MulDivFloor(left, den, num)]
  BY DEF Terms, Custody!NativeUnits, Custody!FromNormalized, Custody!MulDivFloor,
         MulDivFloor
<1>4. num \in Nat /\ num > 0 /\ den \in Nat
  BY CustodyFacts
<1> HIDE DEF n, basis, sum, num, den
<1>5. basis \in Nat /\ basis <= n
  BY <1>1, <1>2
<1>6. fee \in 0..basis
  BY <1>5, FeeWithinBasis
<1> HIDE DEF fee
<1>7. left = n - fee /\ left \in Nat /\ fee <= n
  BY <1>1, <1>5, <1>6 DEF SaturatingSub
<1> HIDE DEF left
<1>8. num * MulDivFloor(left, den, num) <= left * den /\ MulDivFloor(left, den, num) \in Nat
  BY <1>4, <1>7, MulDivFloorBounds
<1>9. MulDivFloor(left, den, num) * num <= (n - fee) * den
  BY <1>4, <1>7, <1>8
<1> QED
  BY <1>3, <1>7, <1>9 DEF Priced, num, den

LEMMA NextPriced == Proved /\ LedgerInv /\ TicketsPriced /\ [Next]_vars => TicketsPriced'
<1> SUFFICES ASSUME Proved, LedgerInv, TicketsPriced, [Next]_vars PROVE TicketsPriced'
  OBVIOUS
<1>1. VaultInv /\ Queue!TypeOK
  BY DEF LedgerInv, VaultInv
<1>2. \A a \in DOMAIN adit : a \in DOMAIN adit' /\ adit'[a].conversion = adit[a].conversion
  BY <1>1, RatiosOnlyAdded
<1>3. ASSUME NEW t, Priced(adit, t) PROVE Priced(adit', t)
  BY <1>2, <1>3 DEF Priced
<1> DEFINE Kept == /\ DOMAIN ticket' = DOMAIN ticket
                   /\ \A x \in DOMAIN ticket : ticket'[x].terms = ticket[x].terms
<1>4. Kept => TicketsPriced'
  BY <1>3 DEF TicketsPriced
<1>5. UNCHANGED ticket => TicketsPriced'
  BY <1>4
<1>6. ASSUME NEW x \in DOMAIN ticket, ClaimRedemption(x) PROVE TicketsPriced'
  <2>1. Queue!Claimed(x)
    <3>1. Queue!Settle(x)
      BY <1>6, Zenon DEF ClaimRedemption
    <3> QED
      BY <1>1, <3>1, SettleEffect
  <2>2. ticket'[x].terms = ticket[x].terms
    <3>1. ticket[x] \in Queue!TicketRecord
      BY <1>1 DEF Queue!TypeOK
    <3> QED BY <2>1, <3>1 DEF Queue!Claimed, Queue!TicketRecord
  <2>3. Kept
    BY <2>1, <2>2 DEF Queue!Claimed
  <2> QED BY <1>4, <2>3
<1>7. ASSUME NEW o \in Owner, NEW s \in Stope, NEW a \in Asset, NEW shares \in U64,
             RequestRedemption(o, s, a, shares)
      PROVE  TicketsPriced'
  <2> DEFINE terms == Terms(o, s, a, shares)
             x == Queue!TicketAddress(o, s, position[s][o].ticket_count)
  <2>1. /\ Queue!Issue(o, s, terms) /\ Pool!BurnShares(o, s, shares)
        /\ a \in DOMAIN adit /\ Fits64(Custody!NativeUnits(a, terms.normalized_amount))
        /\ terms.payout_amount > 0
    BY <1>7, Zenon DEF RequestRedemption
  <2>2. Pool!CanBurn(o, s, shares)
    BY <2>1 DEF Pool!BurnShares
  <2>3. terms \in TicketTerms /\ Priced(adit, terms)
    BY <1>1, <2>1, <2>2, TermsFit, TermsPriced
  <2>4. Queue!Issued(o, s, terms)
    BY <2>1, <2>3, IssueEffect
  <2>5. /\ DOMAIN ticket' = DOMAIN ticket \cup {x}
        /\ \A y \in DOMAIN ticket : ticket'[y] = ticket[y]
        /\ ticket'[x].terms = terms
    BY <2>4 DEF Queue!Issued, Queue!IssuedTicket
  <2> HIDE DEF terms, x
  <2>6. Priced(adit', terms) /\ \A y \in DOMAIN ticket : Priced(adit', ticket[y].terms)
    BY <1>3, <2>3 DEF TicketsPriced
  <2> QED BY <2>5, <2>6 DEF TicketsPriced
<1> HIDE DEF Kept
<1>8. CASE Money
  <2>1. ASSUME NEW o \in Owner, NEW s \in Stope, NEW a \in Asset,
               NEW amount \in 1..Supply, MakeDeposit(o, s, a, amount)
        PROVE  UNCHANGED ticket
    BY <2>1, Zenon DEF MakeDeposit, queue_vars
  <2> QED BY <1>5, <1>6, <1>7, <1>8, <2>1, Zenon DEF Money
<1>9. CASE Keeping
  <2>1. ASSUME NEW k \in Keeper, NEW id \in 1..NumSeams, NEW bps \in Weights,
               UpdateSeamAllocation(k, id, bps)
        PROVE  UNCHANGED ticket
    BY <2>1, Zenon DEF UpdateSeamAllocation, queue_vars
  <2>2. ASSUME NEW k \in Keeper, NEW amount \in 1..InitialLodz,
               BondKeeper(k, amount) \/ UnbondKeeper(k, amount)
        PROVE  UNCHANGED ticket
    BY <2>2, Zenon DEF BondKeeper, UnbondKeeper, queue_vars
  <2>3. ASSUME NEW k \in Keeper, NEW id \in 1..NumSeams, NEW amount \in 1..Supply,
               AccrueYield(k, id, amount)
        PROVE  UNCHANGED ticket
    BY <2>3, Zenon DEF AccrueYield, queue_vars
  <2> QED BY <1>5, <1>9, <2>1, <2>2, <2>3, Zenon DEF Keeping
<1>10. CASE Governing
  <2>1. ASSUME NEW k \in Signers, Administer(k) PROVE UNCHANGED ticket
    BY <2>1, Zenon DEF Administer, queue_vars
  <2>2. ASSUME NEW k \in Signers, NEW bonded \in Keeper, NEW amount \in 1..InitialLodz,
               SlashKeeper(k, bonded, amount)
        PROVE  UNCHANGED ticket
    BY <2>2, Zenon DEF SlashKeeper, queue_vars
  <2>3. ASSUME NEW k \in Signers, NEW id \in 1..NumSeams, NEW s \in Stope,
               NEW declared \in Seams!Declarations, RegisterSeam(k, id, s, declared)
        PROVE  UNCHANGED ticket
    BY <2>3, Zenon DEF RegisterSeam, queue_vars
  <2>4. ASSUME NEW k, NEW a, NEW c, NEW cap, RegisterAdit(k, a, c, cap)
        PROVE  UNCHANGED ticket
    BY <2>4, Zenon DEF RegisterAdit, queue_vars
  <2> QED BY <1>5, <1>10, <2>1, <2>2, <2>3, <2>4, Zenon DEF Governing
<1>11. CASE \E a \in Asset, amount \in 1..Supply : SendDirectly(a, amount)
  BY <1>5, <1>11, Zenon DEF SendDirectly, queue_vars
<1>12. CASE Tick
  BY <1>5, <1>12, Zenon DEF Tick, Queue!Tick
<1>13. CASE \E k \in Keeper, amount \in 1..InitialLodz : SendLodz(k, amount)
  BY <1>5, <1>13, Zenon DEF SendLodz, queue_vars
<1>14. CASE UNCHANGED vars
  BY <1>5, <1>14, Zenon DEF vars, queue_vars
<1> QED
  BY <1>8, <1>9, <1>10, <1>11, <1>12, <1>13, <1>14 DEF Next

LEMMA InitSolvent == Init => TicketsPriced /\ Solvent
<1> SUFFICES ASSUME Init PROVE TicketsPriced /\ Solvent
  OBVIOUS
<1>1. Custody!Init /\ Queue!Init
  BY DEF Init
<1>2. DOMAIN adit = {} /\ DOMAIN ticket = {} /\ Queued = {}
  BY <1>1 DEF Custody!Init, Queue!Init, Queued
<1>3. TicketsPriced
  BY <1>2 DEF TicketsPriced
<1>4. CustodyValue = 0 /\ CommonDen = 1
  <2>1. ValueHeld(Held, Nums, Dens, {}) = 0
    BY SumOfNone DEF ValueHeld
  <2>2. Product(Dens, {}) = 1
    BY ProductOfNone
  <2> QED BY <1>2, <2>1, <2>2, CustodyTerms
<1>5. total_normalized_deposits = 0 /\ NormalizedOf(Queued) = 0
  <2>1. NormalizedOf({}) = 0
    BY SumOfNone DEF NormalizedOf
  <2> QED BY <1>2, <2>1, Zenon DEF Init, Pool!Init
<1>6. FeesTaken = 0
  <2>1. [s \in Stope |-> queue[s].total_fees] = [s \in Stope |-> 0]
    BY <1>1 DEF Queue!Init, Queue!EmptyQueue
  <2>2. Total([s \in Stope |-> 0], NumStopes) = 0
    <3>1. /\ [s \in Stope |-> 0] \in [1..NumStopes -> Nat] /\ NumStopes \in Nat
          /\ \A i \in 1..NumStopes : [s \in Stope |-> 0][i] = 0
      BY VaultAssumption DEF Stope
    <3> QED BY <3>1, TotalOfZeros, Zenon
  <2> QED BY <2>1, <2>2, Zenon DEF FeesTaken
<1>7. Solvent
  BY <1>4, <1>5, <1>6 DEF Solvent
<1> QED
  BY <1>3, <1>7

-----------------------------------------------------------------------------
(***************************************************************************)
(* With a single asset whose mint charges no fee, what the vault holds of  *)
(* it is all that the tickets can be paid from, and solvency covers each.  *)
(***************************************************************************)
LEMMA SoleAsset ==
    ASSUME LedgerInv, Cardinality(DOMAIN adit) = 1
    PROVE  \E a \in DOMAIN adit :
                /\ CustodyValue = Held[a] * Worth(a)
                /\ CreditedTo(DOMAIN adit) = adit[a].total_normalized
                /\ \A b \in DOMAIN adit : b = a
<1>1. PICK a : DOMAIN adit = {a}
  BY LedgerTypes, FS_Singleton
<1>2. CustodyValue = Held[a] * Worth(a)
  <2> DEFINE f == [b \in {a} |-> Held[b] * UnitValue(Nums, Dens, {a}, b)]
  <2>1. HeldFacts(Held, Nums, Dens, {a})
    BY <1>1, CustodyRatios, ValueHeldType
  <2>2. ValueHeld(Held, Nums, Dens, {a}) = SumFunctionOnSet(f, {a}) /\ f \in [{a} -> Nat]
    BY <2>1 DEF HeldFacts
  <2>3. f[a] = Held[a] * UnitValue(Nums, Dens, {a}, a)
    OBVIOUS
  <2> HIDE DEF f
  <2>4. SumFunctionOnSet(f, {a}) = f[a]
    BY <2>2, SumOfOne
  <2> QED BY <1>1, <2>2, <2>3, <2>4, CustodyTerms DEF Worth
<1>3. CreditedTo(DOMAIN adit) = adit[a].total_normalized
  <2> DEFINE f == [b \in {a} |-> adit[b].total_normalized]
  <2>1. f \in [{a} -> Nat] /\ f[a] = adit[a].total_normalized
    BY <1>1, LedgerTypes
  <2> HIDE DEF f
  <2>2. SumFunctionOnSet(f, {a}) = f[a]
    BY <2>1, SumOfOne
  <2> QED BY <1>1, <2>1, <2>2, Zenon DEF CreditedTo, f
<1> QED
  BY <1>1, <1>2, <1>3

LEMMA TicketIsOwed ==
    ASSUME LedgerInv, NEW x \in Queued
    PROVE  ticket[x].terms.normalized_amount <= NormalizedOf(Queued)
<1> DEFINE Q == Queued
           f == [y \in Q |-> ticket[y].terms.normalized_amount]
           g == [y \in {x} |-> ticket[y].terms.normalized_amount]
<1>1. Q \in SUBSET DOMAIN ticket /\ IsFiniteSet(DOMAIN ticket)
  BY LedgerTypes DEF Queued
<1>2. IsFiniteSet(Q) /\ {x} \in SUBSET Q
  BY <1>1, FS_Subset
<1>3. f \in [Q -> Nat] /\ g \in [{x} -> Nat] /\ \A y \in {x} : g[y] <= f[y]
  BY <1>1, LedgerTypes
<1>4. g[x] = ticket[x].terms.normalized_amount
  OBVIOUS
<1> HIDE DEF f, g, Q
<1>5. SumFunctionOnSet(g, {x}) <= SumFunctionOnSet(f, Q) /\ SumFunctionOnSet(g, {x}) = g[x]
  BY <1>2, <1>3, SumBounded, SumOfOne
<1> QED
  BY <1>4, <1>5, Zenon DEF NormalizedOf, f, Q

LEMMA SoleAssetCovers ==
    ASSUME SolventInv, OneFeelessAsset, Custody!FeelessWhole, NEW x \in Queued
    PROVE  adit_vault[ticket[x].terms.asset_mint] >= ticket[x].terms.payout_amount
<1> DEFINE t == ticket[x].terms
           n == t.normalized_amount
           fee == t.fee_normalized
           paid == t.payout_amount
           a == t.asset_mint
           W == Worth(a)
           D == CommonDen
           L == Obligations
           h == Held[a]
<1>1. /\ x \in DOMAIN ticket /\ LedgerInv /\ VaultInv /\ Queue!TypeOK
      /\ Priced(adit, t)
  BY DEF Queued, SolventInv, LedgerInv, VaultInv, TicketsPriced
<1>2. t \in TicketTerms
  BY <1>1 DEF Queue!TypeOK, Queue!TicketRecord
<1>3. n \in Nat /\ fee \in Nat /\ paid \in Nat
  BY <1>2, MathAssumption DEF TicketTerms, U64
<1>4. /\ a \in DOMAIN adit /\ fee <= n
      /\ paid * adit[a].conversion.num <= (n - fee) * adit[a].conversion.den
  BY <1>1, Zenon DEF Priced
<1>5. CustodyValue = h * W
  BY <1>1, <1>4, SoleAsset DEF OneFeelessAsset
<1>6. h = adit_vault[a] /\ h \in Nat
  <2>1. a \in Asset /\ adit_vault[a] \in Nat
    BY <1>1, <1>4, CustodyFacts
  <2>2. withheld[a] = 0
    BY <2>1 DEF OneFeelessAsset, Custody!FeelessWhole
  <2> QED BY <1>4, <2>1, <2>2 DEF Held
<1>7. n <= L
  <2>1. /\ total_normalized_deposits \in Nat /\ NormalizedOf(Queued) \in Nat
        /\ FeesTaken \in Nat /\ n <= NormalizedOf(Queued)
    BY <1>1, SolventTypes, TicketIsOwed
  <2> QED BY <1>3, <2>1 DEF Obligations
<1>8. h * W >= D * L
  BY <1>5 DEF SolventInv, Solvent, Obligations
<1>9. D \in Nat \ {0} /\ L \in Nat
  BY <1>1, SolventTypes
<1>10. W \in Nat
  BY <1>1, <1>4, WorthFacts
<1>11. W > 0
  <2>1. UnitFacts(Nums, Dens, DOMAIN adit, a)
    BY <1>1, <1>4, CustodyRatios, UnitValues
  <2>2. /\ Nums[a] = adit[a].conversion.num /\ Dens[a] = adit[a].conversion.den
        /\ adit[a].conversion.num \in Nat \ {0} /\ adit[a].conversion.den \in Nat \ {0}
    BY <1>1, <1>4, CustodyFacts DEF Nums, Dens
  <2>3. W * adit[a].conversion.den = adit[a].conversion.num * D
    BY <2>1, <2>2, CustodyTerms DEF UnitFacts, Worth
  <2> DEFINE num == adit[a].conversion.num
             den == adit[a].conversion.den
  <2> HIDE DEF num, den, W, D
  <2>4. num \in Nat \ {0} /\ den \in Nat \ {0} /\ W * den = num * D
    BY <2>2, <2>3 DEF num, den
  <2>5. num * D > 0
    BY <1>9, <2>4, SMT
  <2> QED BY <1>10, <2>4, <2>5
<1>12. paid * W <= (n - fee) * D
  <2>1. n - fee \in Nat
    BY <1>3, <1>4
  <2> QED BY <1>1, <1>3, <1>4, <2>1, WorthFacts
<1> HIDE DEF t, n, fee, paid, a, W, D, L, h
<1>13. (n - fee) * D <= D * L
  <2>1. n - fee \in Nat /\ n - fee <= L
    BY <1>3, <1>4, <1>7, <1>9
  <2>2. \A i, j \in Nat : i <= j => i * D <= D * j
    BY <1>9, SMT
  <2> QED BY <1>9, <2>1, <2>2
<1>14. paid * W <= h * W
  <2>1. /\ paid * W \in Nat /\ h * W \in Nat /\ D * L \in Nat /\ (n - fee) * D \in Int
    BY <1>3, <1>6, <1>9, <1>10, SMT
  <2> QED BY <1>8, <1>12, <1>13, <2>1
<1>15. paid <= h
  <2>1. \A i, j \in Nat : i * W <= j * W => i <= j
    BY <1>10, <1>11, SMT
  <2> QED BY <1>3, <1>6, <1>14, <2>1
<1> QED
  BY <1>3, <1>6, <1>15 DEF t, paid, a

(***************************************************************************)
(* A stope's lifetime counters, and what is still pending in it, are part  *)
(* of all that was credited.                                               *)
(***************************************************************************)
LEMMA CountersWithinCredit ==
    ASSUME LedgerInv, Totals!Conserved, NEW s \in Stope
    PROVE  queue[s].total_claimed + queue[s].total_pending <= CreditedTo(DOMAIN adit)
<1> DEFINE f == Principal(stope)
           p == Pending(queue)
           q == Paid(queue)
<1>1. NumStopes \in Nat /\ s \in 1..NumStopes
  BY VaultAssumption DEF Stope
<1>2. /\ f \in [1..NumStopes -> Nat] /\ p \in [1..NumStopes -> Nat]
      /\ q \in [1..NumStopes -> Nat]
  BY LedgerTypes
<1>3. CreditedTo(DOMAIN adit)
        = Total(f, NumStopes) + Total(p, NumStopes) + Total(q, NumStopes)
  BY Zenon DEF Totals!Conserved, Principal, Pending, Paid
<1>4. p[s] = queue[s].total_pending /\ q[s] = queue[s].total_claimed
  BY DEF Pending, Paid
<1> HIDE DEF f, p, q
<1>5. /\ Total(f, NumStopes) \in Nat /\ Total(p, NumStopes) \in Nat
      /\ Total(q, NumStopes) \in Nat
  BY <1>1, <1>2, TotalType
<1>6. p[s] <= Total(p, NumStopes) /\ q[s] <= Total(q, NumStopes)
  BY <1>1, <1>2, SummandAtMostTotal
<1>7. p[s] \in Nat /\ q[s] \in Nat
  BY <1>1, <1>2
<1> QED
  BY <1>3, <1>4, <1>5, <1>6, <1>7

LEMMA SoleAssetCountersFit ==
    ASSUME SolventInv, Totals!Conserved, OneFeelessAsset, NEW x \in Queued
    PROVE  LET t == ticket[x]
               n == t.terms.normalized_amount
           IN  /\ Fits64(position[t.stope_id][t.owner].withdrawn + n)
               /\ Fits64(reserve[t.stope_id].total_redeemed + n)
               /\ Fits64(queue[t.stope_id].head + 1)
               /\ Fits64(queue[t.stope_id].total_claimed + n)
               /\ Fits64(queue[t.stope_id].total_fees + t.terms.fee_normalized)
<1> DEFINE s == ticket[x].stope_id
           o == ticket[x].owner
           n == ticket[x].terms.normalized_amount
           fee == ticket[x].terms.fee_normalized
           q == queue[s]
           credited == CreditedTo(DOMAIN adit)
<1>1. /\ x \in DOMAIN ticket /\ ticket[x].status = "Queued"
      /\ LedgerInv /\ TicketBooks /\ Queue!TypeOK
      /\ Priced(adit, ticket[x].terms)
      /\ \A b \in DOMAIN ticket :
            ticket[b].terms.fee_normalized <= ticket[b].terms.normalized_amount
  BY DEF Queued, SolventInv, LedgerInv, VaultInv, TicketsPriced, Priced
<1>2. /\ s \in Stope /\ o \in Owner /\ n \in Nat /\ fee \in Nat
      /\ fee <= n
  <2>1. ticket[x] \in Queue!TicketRecord
    BY <1>1 DEF Queue!TypeOK
  <2> QED BY <1>1, <2>1, MathAssumption DEF Queue!TicketRecord, TicketTerms, U64
<1>3. /\ q.head \in Nat /\ q.tail \in U64 /\ q.total_claimed \in Nat
      /\ q.total_pending \in Nat /\ q.total_fees \in Nat
      /\ position[s][o].withdrawn \in Nat
  BY <1>1, <1>2, MathAssumption DEF Queue!TypeOK, Queue!U64, U64
<1>4. /\ q.head + 1 <= q.tail /\ reserve[s].total_redeemed = q.total_claimed
      /\ q.total_fees <= q.total_claimed
      /\ position[s][o].withdrawn <= q.total_claimed
  BY <1>1, QueuedTicket
<1>5. n <= q.total_pending
  BY <1>1, QueuedTicket
<1>6. credited \in U64
  <2>1. PICK a \in DOMAIN adit : credited = adit[a].total_normalized
    BY <1>1, SoleAsset DEF OneFeelessAsset
  <2>2. adit[a].total_normalized \in U64
    BY <1>1 DEF LedgerInv, VaultInv, Custody!CustodyInv, Custody!TypeOK,
                Custody!AditRecord, Custody!U64, U64
  <2> QED BY <2>1, <2>2
<1>7. q.total_claimed + q.total_pending <= credited
  BY <1>1, <1>2, CountersWithinCredit
<1> HIDE DEF s, o, n, fee, q, credited
<1>8. U64Max \in Nat
  BY MathAssumption
<1>9. /\ Fits64(position[s][o].withdrawn + n) /\ Fits64(reserve[s].total_redeemed + n)
      /\ Fits64(q.head + 1) /\ Fits64(q.total_claimed + n) /\ Fits64(q.total_fees + fee)
  BY <1>2, <1>3, <1>4, <1>5, <1>6, <1>7, <1>8 DEF Fits64, U64
<1> QED
  BY <1>9 DEF s, o, n, fee, q

-----------------------------------------------------------------------------
(***************************************************************************)
(* The log.  What the reader holds, part by part.                          *)
(***************************************************************************)
RootPart ==
    [authority                 |-> authority,
     pending_authority         |-> pending_authority,
     paused                    |-> paused,
     bond_vault_open           |-> bond_vault_open,
     open_stopes               |-> open_stopes,
     keeper_count              |-> keeper_count,
     total_normalized_deposits |-> total_normalized_deposits]

AditPart ==
    [a \in DOMAIN adit |-> [conversion       |-> adit[a].conversion,
                            deposit_cap      |-> adit[a].deposit_cap,
                            total_normalized |-> adit[a].total_normalized]]

BoardPart ==
    [s \in Stope |-> [total_shares   |-> stope[s].total_shares,
                      total_deposits |-> stope[s].total_deposits,
                      realized       |-> stope[s].realized,
                      total_pending  |-> queue[s].total_pending,
                      routing        |-> allocation[s]]]

SharePart == [s \in Stope |-> [o \in Owner |-> miner[s][o].shares]]

KeeperPart ==
    [k \in Keeper |-> [bonded_amount     |-> keeper[k].bonded_amount,
                       slashed_amount    |-> keeper[k].slashed_amount,
                       active            |-> keeper[k].active,
                       last_rebalance_at |-> keeper[k].last_rebalance_at]]

Log(root, adits, seams, board, shares, tickets, keepers) ==
    [root |-> root, adits |-> adits, seams |-> seams, board |-> board,
     shares |-> shares, tickets |-> tickets, keepers |-> keepers]

NowLog(root, adits, seams, board, shares, tickets, keepers) ==
    view' = Log(root, adits, seams, board, shares, tickets, keepers)

LEMMA AccountsParts ==
    /\ Accounts = Log(RootPart, AditPart, seam, BoardPart, SharePart, ticket, KeeperPart)
    /\ Accounts' = Log(RootPart', AditPart', seam', BoardPart', SharePart', ticket', KeeperPart')
BY Zenon DEF Accounts, Log, RootPart, AditPart, BoardPart, SharePart, KeeperPart

(***************************************************************************)
(* The reader's rules, on the parts.                                       *)
(***************************************************************************)
LEMMA BondRule ==
    ASSUME NEW r, NEW a, NEW x, NEW b, NEW h, NEW t, NEW k, NEW e,
           view = Log(r, a, x, b, h, t, k), Index!OnKeeperBondChanged(e)
    PROVE  /\ view' = Log([r EXCEPT !.keeper_count = e.keeper_count], a, x, b, h, t,
                         [k EXCEPT ![e.keeper].bonded_amount = e.bonded_amount,
                                   ![e.keeper].active = e.active])
           /\ custody_view' = custody_view
BY DEF Index!OnKeeperBondChanged, Log

RootOf(key, heir, on, vault, open, count, total) ==
    [authority |-> key, pending_authority |-> heir, paused |-> on,
     bond_vault_open |-> vault, open_stopes |-> open, keeper_count |-> count,
     total_normalized_deposits |-> total]

LEMMA InitializeRule ==
    ASSUME NEW key, NEW heir, NEW on, NEW vault, NEW open, NEW n, NEW m,
           NEW a, NEW x, NEW b, NEW h, NEW t, NEW k, NEW w,
           view = Log(RootOf(key, heir, on, vault, open, n, m), a, x, b, h, t, k),
           Index!OnVaultInitialized([authority |-> w])
    PROVE  /\ view' = Log(RootOf(w, heir, TRUE, vault, open, n, m), a, x, b, h, t, k)
           /\ custody_view' = custody_view
BY DEF Index!OnVaultInitialized, Log, RootOf

LEMMA BondVaultRule ==
    ASSUME NEW key, NEW heir, NEW on, NEW vault, NEW open, NEW n, NEW m,
           NEW a, NEW x, NEW b, NEW h, NEW t, NEW k,
           view = Log(RootOf(key, heir, on, vault, open, n, m), a, x, b, h, t, k),
           Index!OnBondVaultInitialized
    PROVE  /\ view' = Log(RootOf(key, heir, on, TRUE, open, n, m), a, x, b, h, t, k)
           /\ custody_view' = custody_view
BY DEF Index!OnBondVaultInitialized, Log, RootOf

LEMMA StopeRule ==
    ASSUME NEW key, NEW heir, NEW on, NEW vault, NEW open, NEW n, NEW m,
           NEW a, NEW x, NEW b, NEW h, NEW t, NEW k, NEW w,
           view = Log(RootOf(key, heir, on, vault, open, n, m), a, x, b, h, t, k),
           Index!OnStopeOpened([stope_id |-> w])
    PROVE  /\ view' = Log(RootOf(key, heir, on, vault, open \cup {w}, n, m), a, x, b, h, t, k)
           /\ custody_view' = custody_view
BY DEF Index!OnStopeOpened, Log, RootOf

LEMMA PauseRule ==
    ASSUME NEW key, NEW heir, NEW on, NEW vault, NEW open, NEW n, NEW m,
           NEW a, NEW x, NEW b, NEW h, NEW t, NEW k, NEW w,
           view = Log(RootOf(key, heir, on, vault, open, n, m), a, x, b, h, t, k),
           Index!OnVaultPauseChanged([paused |-> w])
    PROVE  /\ view' = Log(RootOf(key, heir, w, vault, open, n, m), a, x, b, h, t, k)
           /\ custody_view' = custody_view
BY DEF Index!OnVaultPauseChanged, Log, RootOf

LEMMA ProposeRule ==
    ASSUME NEW key, NEW heir, NEW on, NEW vault, NEW open, NEW n, NEW m,
           NEW a, NEW x, NEW b, NEW h, NEW t, NEW k, NEW w,
           view = Log(RootOf(key, heir, on, vault, open, n, m), a, x, b, h, t, k),
           Index!OnAuthorityTransferProposed([pending_authority |-> w])
    PROVE  /\ view' = Log(RootOf(key, w, on, vault, open, n, m), a, x, b, h, t, k)
           /\ custody_view' = custody_view
BY DEF Index!OnAuthorityTransferProposed, Log, RootOf

LEMMA AcceptRule ==
    ASSUME NEW key, NEW heir, NEW on, NEW vault, NEW open, NEW n, NEW m,
           NEW a, NEW x, NEW b, NEW h, NEW t, NEW k, NEW w,
           view = Log(RootOf(key, heir, on, vault, open, n, m), a, x, b, h, t, k),
           Index!OnAuthorityTransferAccepted([authority |-> w])
    PROVE  /\ view' = Log(RootOf(w, NoKey, on, vault, open, n, m), a, x, b, h, t, k)
           /\ custody_view' = custody_view
BY DEF Index!OnAuthorityTransferAccepted, Log, RootOf

LEMMA SlashRule ==
    ASSUME NEW r, NEW a, NEW x, NEW b, NEW h, NEW t, NEW k, NEW e,
           view = Log(r, a, x, b, h, t, k), Index!OnKeeperSlashed(e)
    PROVE  /\ view' = Log([r EXCEPT !.keeper_count =
                               IF k[e.keeper].active /\ ~ e.active THEN @ - 1 ELSE @],
                          a, x, b, h, t,
                          [k EXCEPT ![e.keeper].bonded_amount = e.bonded_amount,
                                    ![e.keeper].slashed_amount = @ + e.amount,
                                    ![e.keeper].active = e.active])
           /\ custody_view' = custody_view
BY DEF Index!OnKeeperSlashed, Log

LEMMA AditRule ==
    ASSUME NEW r, NEW a, NEW x, NEW b, NEW h, NEW t, NEW k, NEW e,
           view = Log(r, a, x, b, h, t, k), Index!OnAditRegistered(e)
    PROVE  /\ view' = Log(r,
                Index!Created(a, e.asset_mint,
                    [conversion |-> e.conversion, deposit_cap |-> e.deposit_cap,
                     total_normalized |-> 0]), x, b, h, t, k)
           /\ custody_view' = Index!Created(custody_view, e.asset_mint, {0})
BY DEF Index!OnAditRegistered, Log

LEMMA ClaimRule ==
    ASSUME NEW r, NEW a, NEW x, NEW b, NEW h, NEW t, NEW k, NEW e,
           view = Log(r, a, x, b, h, t, k), Index!OnRedemptionClaimed(e)
    PROVE  NowLog(r, a, x,
                [b EXCEPT ![e.stope_id].total_pending = e.queue_total_pending],
                h,
                [t EXCEPT ![e.orecart].status = "Claimed",
                          ![e.orecart].claimed_at = e.claimed_at], k)
BY DEF Index!OnRedemptionClaimed, Log, NowLog

LEMMA RegisterRule ==
    ASSUME NEW r, NEW a, NEW x, NEW b, NEW h, NEW t, NEW k, NEW e,
           view = Log(r, a, x, b, h, t, k), Index!OnSeamRegistered(e)
    PROVE  /\ view' = Log(r, a,
                Index!Created(x, e.seam_id,
                    [stope_id         |-> e.stope_id,
                     asset_mint       |-> e.declared.asset_mint,
                     yield_kind       |-> e.declared.yield_kind,
                     risk_tier        |-> e.declared.risk_tier,
                     allocation_bps   |-> e.declared.allocation_bps,
                     emission_ends_at |-> e.declared.emission_ends_at,
                     emission_mint    |-> e.declared.emission_mint,
                     realized_yield   |-> 0,
                     last_accrual_at  |-> 0]),
                [b EXCEPT ![e.stope_id].routing = Index!RoutedNew(@, e)],
                h, t, k)
           /\ custody_view' = custody_view
BY DEF Index!OnSeamRegistered, Log

LEMMA RebalanceRule ==
    ASSUME NEW r, NEW a, NEW x, NEW b, NEW h, NEW t, NEW k, NEW e,
           view = Log(r, a, x, b, h, t, k), Index!OnSeamRebalanced(e)
    PROVE  /\ view' = Log(r, a,
                [x EXCEPT ![e.seam_id].allocation_bps = e.new_allocation_bps],
                [b EXCEPT ![e.stope_id].routing = Index!RoutedAnew(@, e)],
                h, t,
                [k EXCEPT ![e.keeper].last_rebalance_at = e.timestamp])
           /\ custody_view' = custody_view
BY DEF Index!OnSeamRebalanced, Log

LEMMA DepositRule ==
    ASSUME NEW r, NEW a, NEW x, NEW b, NEW h, NEW t, NEW k, NEW e,
           view = Log(r, a, x, b, h, t, k), Index!OnDeposit(e)
    PROVE  NowLog(
                [r EXCEPT !.total_normalized_deposits = @ + e.normalized_amount],
                [a EXCEPT ![e.asset_mint].total_normalized = @ + e.normalized_amount],
                x,
                [b EXCEPT ![e.stope_id].total_shares = e.stope_total_shares,
                          ![e.stope_id].total_deposits = e.stope_total_deposits],
                [h EXCEPT ![e.stope_id][e.owner] = e.miner_shares],
                t, k)
BY DEF Index!OnDeposit, Log, NowLog

LEMMA AccrualRule ==
    ASSUME NEW r, NEW a, NEW x, NEW b, NEW h, NEW t, NEW k, NEW e,
           view = Log(r, a, x, b, h, t, k), Index!OnYieldAccrued(e)
    PROVE  NowLog(
                [r EXCEPT !.total_normalized_deposits = @ + e.amount],
                [a EXCEPT ![x[e.seam_id].asset_mint].total_normalized = @ + e.amount],
                [x EXCEPT ![e.seam_id].realized_yield = e.seam_realized_yield,
                          ![e.seam_id].last_accrual_at = e.timestamp],
                [b EXCEPT ![e.stope_id].realized = e.stope_realized,
                          ![e.stope_id].total_shares = e.stope_total_shares,
                          ![e.stope_id].total_deposits = @ + e.amount],
                h, t, k)
<1>1. /\ view.root = r /\ view.adits = a /\ view.seams = x /\ view.board = b
      /\ view = [root |-> r, adits |-> a, seams |-> x, board |-> b, shares |-> h,
                 tickets |-> t, keepers |-> k]
  BY DEF Log
<1> DEFINE m  == x[e.seam_id].asset_mint
           R  == [r EXCEPT !.total_normalized_deposits = @ + e.amount]
           A  == [a EXCEPT ![m].total_normalized = @ + e.amount]
           X  == [x EXCEPT ![e.seam_id].realized_yield = e.seam_realized_yield,
                          ![e.seam_id].last_accrual_at = e.timestamp]
           B  == [b EXCEPT ![e.stope_id].realized = e.stope_realized,
                          ![e.stope_id].total_shares = e.stope_total_shares,
                          ![e.stope_id].total_deposits = @ + e.amount]
<1>2. view' = [view EXCEPT
                !.root.total_normalized_deposits = @ + e.amount,
                !.adits[m].total_normalized = @ + e.amount,
                !.seams[e.seam_id].realized_yield = e.seam_realized_yield,
                !.seams[e.seam_id].last_accrual_at = e.timestamp,
                !.board[e.stope_id].realized = e.stope_realized,
                !.board[e.stope_id].total_shares = e.stope_total_shares,
                !.board[e.stope_id].total_deposits = @ + e.amount]
  BY <1>1 DEF Index!OnYieldAccrued
<1> HIDE DEF m
<1>3. view' = [root |-> view'.root, adits |-> view'.adits, seams |-> view'.seams,
               board |-> view'.board, shares |-> view'.shares,
               tickets |-> view'.tickets, keepers |-> view'.keepers]
  BY <1>1, <1>2
<1>4. view'.root = R /\ view'.adits = A /\ view'.shares = h /\ view'.tickets = t
      /\ view'.keepers = k
  BY <1>1, <1>2
<1>5. view'.seams = X
  BY <1>1, <1>2
<1>6. view'.board = B
  BY <1>1, <1>2
<1> HIDE DEF R, A, X, B
<1>7. view' = Log(R, A, X, B, h, t, k)
  BY <1>3, <1>4, <1>5, <1>6 DEF Log
<1> QED
  BY <1>7 DEF R, A, X, B, m, NowLog

LEMMA RequestRule ==
    ASSUME NEW r, NEW a, NEW x, NEW b, NEW h, NEW t, NEW k, NEW e,
           view = Log(r, a, x, b, h, t, k), Index!OnRedemptionRequested(e)
    PROVE  /\ view' = Log(
                [r EXCEPT !.total_normalized_deposits = @ - e.terms.normalized_amount],
                a, x,
                [b EXCEPT ![e.stope_id].total_shares = @ - e.shares_burned,
                          ![e.stope_id].total_deposits = @ - e.terms.normalized_amount,
                          ![e.stope_id].total_pending =
                              e.queue_pending_ahead + e.terms.normalized_amount],
                [h EXCEPT ![e.stope_id][e.owner] = @ - e.shares_burned],
                Index!Created(t, e.orecart,
                    [owner |-> e.owner, stope_id |-> e.stope_id, terms |-> e.terms,
                     status |-> "Queued", queue_position |-> e.queue_position,
                     requested_at |-> e.requested_at,
                     claimable_at |-> e.claimable_at, claimed_at |-> 0]), k)
           /\ custody_view' = custody_view
BY DEF Index!OnRedemptionRequested, Log

-----------------------------------------------------------------------------
(***************************************************************************)
(* What the log leaves open of total_deposited includes what it is.        *)
(***************************************************************************)
CustodyViewed ==
    /\ DOMAIN custody_view = DOMAIN adit
    /\ \A a \in DOMAIN adit : adit[a].total_deposited \in custody_view[a]

Replayed == view = Accounts /\ CustodyViewed

\* The root account names no pending authority before it exists.
UnbornHasNoHeir == initialized \/ pending_authority = NoKey

ReplayInv ==
    /\ LedgerInv
    /\ Keepers!BondInv
    /\ UnbornHasNoHeir
    /\ Replayed

LEMMA PartsStay ==
    /\ UNCHANGED <<admin_vars, keeper_count, total_normalized_deposits>>
            => RootPart' = RootPart
    /\ UNCHANGED adit => AditPart' = AditPart
    /\ UNCHANGED <<stope, queue, allocation>> => BoardPart' = BoardPart
    /\ UNCHANGED miner => SharePart' = SharePart
    /\ UNCHANGED keeper => KeeperPart' = KeeperPart
    /\ UNCHANGED <<custody_view, adit>> /\ CustodyViewed => CustodyViewed'
BY Zenon DEF RootPart, AditPart, BoardPart, SharePart, KeeperPart, CustodyViewed, admin_vars

LEMMA SeenBefore ==
    ASSUME Replayed
    PROVE  view = Log(RootPart, AditPart, seam, BoardPart, SharePart, ticket, KeeperPart)
BY AccountsParts DEF Replayed

(***************************************************************************)
(* Keepers.                                                                *)
(***************************************************************************)
LEMMA RootCounts ==
    ASSUME UNCHANGED <<admin_vars, total_normalized_deposits>>
    PROVE  RootPart' = [RootPart EXCEPT !.keeper_count = keeper_count']
BY DEF RootPart, admin_vars

LEMMA RebondedPart ==
    ASSUME Proved, Keepers!BondInv, NEW k \in Keeper, NEW bonded, NEW slashed,
           Keepers!Rebonds(k, bonded, slashed)
    PROVE  /\ keeper'[k].bonded_amount = bonded
           /\ keeper'[k].slashed_amount = slashed
           /\ KeeperPart' = [KeeperPart EXCEPT
                ![k].bonded_amount  = keeper'[k].bonded_amount,
                ![k].slashed_amount = keeper'[k].slashed_amount,
                ![k].active         = keeper'[k].active]
           /\ slashed = keeper[k].slashed_amount => KeeperPart' = [KeeperPart EXCEPT
                ![k].bonded_amount  = keeper'[k].bonded_amount,
                ![k].active         = keeper'[k].active]
<1>1. /\ keeper'[k].bonded_amount = bonded
      /\ keeper'[k].slashed_amount = slashed
      /\ keeper'[k].last_rebalance_at = keeper[k].last_rebalance_at
      /\ \A j \in Keeper : j # k => keeper'[j] = keeper[j]
  BY RebondedKeeper
     DEF Keepers!BondInv, Keeper, Keepers!Keeper
<1> QED
  BY <1>1 DEF KeeperPart

LEMMA BondReplayed ==
    ASSUME Proved, ReplayInv, NEW k \in Keeper, NEW amount \in 1..InitialLodz,
           BondKeeper(k, amount) \/ UnbondKeeper(k, amount)
    PROVE  Replayed'
<1>1. /\ BondChanged(k)
      /\ Keepers!Bond(k, amount) \/ Keepers!Unbond(k, amount)
      /\ UNCHANGED <<admin_vars, custody_vars, pool_vars, seam_vars, queue_vars>>
  BY Zenon DEF BondKeeper, UnbondKeeper
<1>2. PICK bonded : Keepers!Rebonds(k, bonded, keeper[k].slashed_amount)
  BY <1>1, BondIsRebond DEF ReplayInv
<1>3. KeeperPart' = [KeeperPart EXCEPT ![k].bonded_amount = keeper'[k].bonded_amount,
                                       ![k].active        = keeper'[k].active]
  BY <1>2, RebondedPart DEF ReplayInv
<1> DEFINE e == [keeper |-> k, bonded_amount |-> keeper'[k].bonded_amount,
                 active |-> keeper'[k].active, keeper_count |-> keeper_count']
<1>4. Index!OnKeeperBondChanged(e)
  BY <1>1 DEF BondChanged
<1>5. /\ e.keeper = k /\ e.bonded_amount = keeper'[k].bonded_amount
      /\ e.active = keeper'[k].active /\ e.keeper_count = keeper_count'
  OBVIOUS
<1> HIDE DEF e
<1>6. /\ view' = Log([RootPart EXCEPT !.keeper_count = e.keeper_count], AditPart, seam,
                     BoardPart, SharePart, ticket,
                     [KeeperPart EXCEPT ![e.keeper].bonded_amount = e.bonded_amount,
                                        ![e.keeper].active = e.active])
      /\ custody_view' = custody_view
  BY <1>4, SeenBefore, BondRule, Zenon DEF ReplayInv
<1>7. RootPart' = [RootPart EXCEPT !.keeper_count = keeper_count']
  BY <1>1, RootCounts DEF pool_vars
<1>8. /\ AditPart' = AditPart /\ seam' = seam /\ BoardPart' = BoardPart
      /\ SharePart' = SharePart /\ ticket' = ticket /\ CustodyViewed'
  BY <1>1, <1>6, PartsStay
     DEF custody_vars, pool_vars, seam_vars, queue_vars, ReplayInv, Replayed
<1>9. view' = Accounts'
  BY <1>3, <1>5, <1>6, <1>7, <1>8, AccountsParts
<1> QED
  BY <1>8, <1>9 DEF Replayed

-----------------------------------------------------------------------------
\* The count falls exactly when a bond is slashed below the minimum.
LEMMA SlashCounts ==
    ASSUME Proved, Keepers!BondInv, NEW k \in Keeper, NEW amount \in 1..InitialLodz,
           Keepers!Slash(k, amount)
    PROVE  keeper_count' = IF keeper[k].active /\ ~ keeper'[k].active
                           THEN keeper_count - 1 ELSE keeper_count
<1> DEFINE bonded == keeper[k].bonded_amount - amount
           on     == Keepers!ShouldBeActive(bonded)
<1>2. Keepers!Rebonds(k, bonded, keeper[k].slashed_amount + amount)
  BY BondIsRebond
<1>3. keeper_count' = Keepers!RefreshedCount(k, bonded)
  BY <1>2 DEF Keepers!Rebonds, Keepers!SetBond
<1>4. keeper'[k].active = on
  BY <1>2, RebondedKeeper
<1>5. /\ keeper[k].bonded_amount \in Nat /\ bonded <= keeper[k].bonded_amount
      /\ keeper[k].active \in BOOLEAN
      /\ keeper[k].active <=> keeper[k].bonded_amount >= min_keeper_bond
  BY KeeperFacts
     DEF Keepers!BondInv, Keepers!KeeperRecord, Keepers!CountMatchesActiveKeepers,
         Keepers!Keeper, Keeper
<1>6. on <=> bonded >= min_keeper_bond
  BY VaultAssumption DEF Keepers!ShouldBeActive
<1>7. on \in BOOLEAN
  BY DEF Keepers!ShouldBeActive
<1>8. on => keeper[k].active
  BY VaultAssumption, <1>5, <1>6
<1>9. keeper[k].active => keeper_count > 0 /\ keeper_count \in Nat
  <2>1. keeper_count = Cardinality({j \in Keeper : keeper[j].active})
    BY Zenon DEF Keepers!BondInv, Keepers!CountMatchesActiveKeepers,
                 Keeper, Keepers!Keeper, Keepers!Cardinality, Cardinality
  <2>2. SUFFICES ASSUME keeper[k].active PROVE keeper_count > 0 /\ keeper_count \in Nat
    OBVIOUS
  <2> DEFINE A == {j \in Keeper : keeper[j].active}
  <2>3. IsFiniteSet(Keeper)
    BY VaultAssumption, FS_Interval DEF Keeper
  <2>4. IsFiniteSet(A) /\ k \in A
    BY <2>2, <2>3, FS_Subset
  <2> HIDE DEF A
  <2>5. Cardinality(A) \in Nat /\ Cardinality(A) # 0
    BY <2>4, FS_CardinalityType, FS_EmptySet
  <2> QED BY <2>1, <2>5 DEF A
<1> HIDE DEF on, bonded
<1>10. CASE keeper[k].active /\ ~ on
  <2>1. Keepers!RefreshedCount(k, bonded) = Keepers!SaturatingSub(keeper_count, 1)
    BY <1>5, <1>7, <1>10 DEF Keepers!RefreshedCount, on
  <2>2. Keepers!SaturatingSub(keeper_count, 1) = keeper_count - 1
    BY <1>9, <1>10 DEF Keepers!SaturatingSub
  <2> QED BY <1>3, <1>4, <1>10, <2>1, <2>2
<1>11. CASE ~ (keeper[k].active /\ ~ on)
  <2>1. on = keeper[k].active
    BY <1>5, <1>7, <1>8, <1>11
  <2>2. Keepers!RefreshedCount(k, bonded) = keeper_count
    BY <2>1 DEF Keepers!RefreshedCount, on
  <2> QED BY <1>3, <1>4, <1>11, <2>2
<1> QED
  BY <1>10, <1>11

LEMMA SlashReplayed ==
    ASSUME Proved, ReplayInv, NEW k, NEW bonded \in Keeper, NEW amount \in 1..InitialLodz,
           SlashKeeper(k, bonded, amount)
    PROVE  Replayed'
<1> DEFINE e == [keeper |-> bonded, amount |-> amount,
                 bonded_amount |-> keeper'[bonded].bonded_amount,
                 active |-> keeper'[bonded].active]
<1>1. /\ Index!OnKeeperSlashed(e)
      /\ Keepers!Slash(bonded, amount)
      /\ UNCHANGED <<admin_vars, custody_vars, pool_vars, seam_vars, queue_vars>>
  BY Zenon DEF SlashKeeper
<1>2. /\ Keepers!BondInv /\ bonded \in Keepers!Keeper
  BY DEF ReplayInv, Keeper, Keepers!Keeper
<1>3. Keepers!Rebonds(bonded, keeper[bonded].bonded_amount - amount,
                           keeper[bonded].slashed_amount + amount)
  BY BondIsRebond, <1>1, <1>2
<1>4. KeeperPart' = [KeeperPart EXCEPT ![bonded].bonded_amount = keeper'[bonded].bonded_amount,
                                       ![bonded].slashed_amount = @ + amount,
                                       ![bonded].active = keeper'[bonded].active]
  <2>1. /\ keeper'[bonded].slashed_amount = keeper[bonded].slashed_amount + amount
        /\ KeeperPart' = [KeeperPart EXCEPT
                ![bonded].bonded_amount  = keeper'[bonded].bonded_amount,
                ![bonded].slashed_amount = keeper'[bonded].slashed_amount,
                ![bonded].active         = keeper'[bonded].active]
    BY <1>2, <1>3, RebondedPart
  <2>2. KeeperPart[bonded].slashed_amount = keeper[bonded].slashed_amount
    BY DEF KeeperPart
  <2> QED BY <2>1, <2>2
<1>5. KeeperPart[bonded].active = keeper[bonded].active
  BY DEF KeeperPart
<1>6. RootPart' = [RootPart EXCEPT !.keeper_count =
                    IF keeper[bonded].active /\ ~ keeper'[bonded].active THEN @ - 1 ELSE @]
  <2>1. RootPart' = [RootPart EXCEPT !.keeper_count = keeper_count']
    BY <1>1, RootCounts DEF pool_vars
  <2>2. RootPart.keeper_count = keeper_count
    BY DEF RootPart
  <2>3. keeper_count' = IF keeper[bonded].active /\ ~ keeper'[bonded].active
                        THEN keeper_count - 1 ELSE keeper_count
    BY <1>1, <1>2, SlashCounts
  <2> QED BY <2>1, <2>2, <2>3
<1>7. /\ e.keeper = bonded /\ e.bonded_amount = keeper'[bonded].bonded_amount
      /\ e.active = keeper'[bonded].active /\ e.amount = amount
  OBVIOUS
<1> HIDE DEF e
<1>8. /\ view' = Log([RootPart EXCEPT !.keeper_count =
                        IF KeeperPart[e.keeper].active /\ ~ e.active THEN @ - 1 ELSE @],
                     AditPart, seam, BoardPart, SharePart, ticket,
                     [KeeperPart EXCEPT ![e.keeper].bonded_amount = e.bonded_amount,
                                        ![e.keeper].slashed_amount = @ + e.amount,
                                        ![e.keeper].active = e.active])
      /\ custody_view' = custody_view
  BY <1>1, SeenBefore, SlashRule, Zenon DEF ReplayInv
<1>9. /\ AditPart' = AditPart /\ seam' = seam /\ BoardPart' = BoardPart
      /\ SharePart' = SharePart /\ ticket' = ticket /\ CustodyViewed'
  BY <1>1, <1>8, PartsStay
     DEF custody_vars, pool_vars, seam_vars, queue_vars, ReplayInv, Replayed
<1>10. view' = Accounts'
  BY <1>4, <1>5, <1>6, <1>7, <1>8, <1>9, AccountsParts
<1> QED
  BY <1>9, <1>10 DEF Replayed

(***************************************************************************)
(* Administration touches the root account alone.                          *)
(***************************************************************************)
LEMMA RootReplayed ==
    ASSUME Replayed, custody_view' = custody_view,
           UNCHANGED <<custody_vars, pool_vars, seam_vars, keeper_vars, queue_vars>>,
           view' = Log(RootPart', AditPart, seam, BoardPart, SharePart, ticket, KeeperPart)
    PROVE  Replayed'
<1>1. /\ AditPart' = AditPart /\ seam' = seam /\ BoardPart' = BoardPart
      /\ SharePart' = SharePart /\ ticket' = ticket /\ CustodyViewed'
      /\ KeeperPart' = KeeperPart
  BY PartsStay
     DEF custody_vars, pool_vars, seam_vars, queue_vars, keeper_vars, Replayed
<1> QED
  BY <1>1, AccountsParts DEF Replayed

LEMMA AdministerReplayed ==
    ASSUME ReplayInv, NEW k, Administer(k)
    PROVE  Replayed'
<1>1. /\ UNCHANGED <<custody_vars, pool_vars, seam_vars, keeper_vars, queue_vars>>
      /\ keeper_count' = keeper_count
      /\ total_normalized_deposits' = total_normalized_deposits
  BY DEF Administer, pool_vars, keeper_vars
<1> DEFINE Seen(R) == /\ view' = Log(R, AditPart, seam, BoardPart, SharePart, ticket, KeeperPart)
                      /\ custody_view' = custody_view
           Now(key, heir, on, vault, open) ==
                RootOf(key, heir, on, vault, open, keeper_count, total_normalized_deposits)
<1>2. view = Log(Now(authority, pending_authority, paused, bond_vault_open, open_stopes),
                 AditPart, seam, BoardPart, SharePart, ticket, KeeperPart)
  <2>1. view = Log(RootPart, AditPart, seam, BoardPart, SharePart, ticket, KeeperPart)
    BY SeenBefore DEF ReplayInv
  <2> QED BY <2>1, Zenon DEF RootPart, RootOf
<1>3. SUFFICES Seen(Now(authority', pending_authority', paused', bond_vault_open', open_stopes'))
  <2>1. RootPart' = Now(authority', pending_authority', paused', bond_vault_open', open_stopes')
    BY <1>1, Zenon DEF RootPart, RootOf
  <2>2. ASSUME Seen(RootPart') PROVE Replayed'
    BY <1>1, <2>2, RootReplayed DEF ReplayInv
  <2> QED BY <2>1, <2>2, Zenon
<1>4. CASE /\ Admin!InitializeVault(k, InitialParams)
           /\ Index!OnVaultInitialized([authority |-> authority'])
  <2>1. /\ paused' = TRUE /\ pending_authority' = pending_authority
        /\ bond_vault_open' = bond_vault_open /\ open_stopes' = open_stopes
    BY <1>4, Zenon DEF Admin!InitializeVault, ReplayInv, UnbornHasNoHeir
  <2>2. Seen(Now(authority', pending_authority, TRUE, bond_vault_open, open_stopes))
    BY <1>2, <1>4, InitializeRule
  <2> QED BY <2>1, <2>2, Zenon
<1>5. CASE Admin!InitializeBondVault(k) /\ Index!OnBondVaultInitialized
  <2>1. /\ bond_vault_open' = TRUE /\ authority' = authority /\ paused' = paused
        /\ pending_authority' = pending_authority /\ open_stopes' = open_stopes
    BY <1>5, Zenon DEF Admin!InitializeBondVault
  <2>2. Seen(Now(authority, pending_authority, paused, TRUE, open_stopes))
    BY <1>2, <1>5, BondVaultRule
  <2> QED BY <2>1, <2>2, Zenon
<1>6. CASE \E s \in Stope, profile \in {"Conservative", "Balanced", "Aggressive"} :
            /\ Admin!OpenStope(k, s - 1, profile)
            /\ Index!OnStopeOpened([stope_id |-> s - 1])
  <2>1. PICK s : /\ \E profile : Admin!OpenStope(k, s - 1, profile)
                 /\ Index!OnStopeOpened([stope_id |-> s - 1])
    BY <1>6
  <2>2. /\ open_stopes' = open_stopes \cup {s - 1} /\ authority' = authority
        /\ pending_authority' = pending_authority /\ paused' = paused
        /\ bond_vault_open' = bond_vault_open
    BY <2>1, Zenon DEF Admin!OpenStope
  <2>3. Seen(Now(authority, pending_authority, paused, bond_vault_open,
                 open_stopes \cup {s - 1}))
    BY <1>2, <2>1, StopeRule
  <2> QED BY <2>2, <2>3, Zenon
<1>7. CASE /\ Admin!PauseVault(k) \/ Admin!UnpauseVault(k)
           /\ Index!OnVaultPauseChanged([paused |-> paused'])
  <2>1. /\ authority' = authority /\ pending_authority' = pending_authority
        /\ bond_vault_open' = bond_vault_open /\ open_stopes' = open_stopes
    BY <1>7, Zenon DEF Admin!PauseVault, Admin!UnpauseVault, Admin!SetPause
  <2>2. Seen(Now(authority, pending_authority, paused', bond_vault_open, open_stopes))
    BY <1>2, <1>7, PauseRule
  <2> QED BY <2>1, <2>2, Zenon
<1>8. CASE \E newAuthority \in Admin!Key \cup {NoKey} :
            /\ Admin!ProposeAuthority(k, newAuthority)
            /\ Index!OnAuthorityTransferProposed([pending_authority |-> pending_authority'])
  <2>1. /\ authority' = authority /\ paused' = paused
        /\ bond_vault_open' = bond_vault_open /\ open_stopes' = open_stopes
    BY <1>8, Zenon DEF Admin!ProposeAuthority
  <2>2. Seen(Now(authority, pending_authority', paused, bond_vault_open, open_stopes))
    BY <1>2, <1>8, ProposeRule
  <2> QED BY <2>1, <2>2, Zenon
<1>9. CASE /\ Admin!AcceptAuthority(k)
            /\ Index!OnAuthorityTransferAccepted([authority |-> authority'])
  <2>1. /\ pending_authority' = NoKey /\ paused' = paused
        /\ bond_vault_open' = bond_vault_open /\ open_stopes' = open_stopes
    BY <1>9, Zenon DEF Admin!AcceptAuthority
  <2>2. Seen(Now(authority', NoKey, paused, bond_vault_open, open_stopes))
    BY <1>2, <1>9, AcceptRule
  <2> QED BY <2>1, <2>2, Zenon
<1> HIDE DEF Seen, Now
<1> QED
  BY <1>4, <1>5, <1>6, <1>7, <1>8, <1>9, Zenon DEF Administer

\* Only the authority nominates, and there is none before the account.
LEMMA AdministerNominates ==
    ASSUME UnbornHasNoHeir, NEW k, Administer(k)
    PROVE  UnbornHasNoHeir'
<1>1. CASE Admin!InitializeVault(k, InitialParams)
  BY <1>1, Zenon DEF Admin!InitializeVault, UnbornHasNoHeir
<1>2. CASE Admin!InitializeBondVault(k)
  BY <1>2, Zenon DEF Admin!InitializeBondVault, Admin!setup, UnbornHasNoHeir
<1>3. CASE \E s \in Stope, profile \in {"Conservative", "Balanced", "Aggressive"} :
            Admin!OpenStope(k, s - 1, profile)
  BY <1>3 DEF Admin!OpenStope, Admin!setup, UnbornHasNoHeir
<1>4. CASE Admin!PauseVault(k) \/ Admin!UnpauseVault(k)
  BY <1>4, Zenon
     DEF Admin!PauseVault, Admin!UnpauseVault, Admin!SetPause, Admin!setup, UnbornHasNoHeir
<1>5. CASE \E newAuthority \in Admin!Key \cup {NoKey} :
            Admin!ProposeAuthority(k, newAuthority)
  BY <1>5
     DEF Admin!ProposeAuthority, Admin!SignedByAuthority, Admin!setup, UnbornHasNoHeir
<1>6. CASE Admin!AcceptAuthority(k)
  BY <1>6, Zenon DEF Admin!AcceptAuthority, Admin!setup, UnbornHasNoHeir
<1> QED
  BY <1>1, <1>2, <1>3, <1>4, <1>5, <1>6, Zenon DEF Administer

-----------------------------------------------------------------------------
(***************************************************************************)
(* The assets.                                                             *)
(***************************************************************************)
LEMMA CustodyFollows ==
    ASSUME CustodyViewed, NEW a \in DOMAIN adit, NEW S,
           DOMAIN adit' = DOMAIN adit,
           \A b \in DOMAIN adit : b # a => adit'[b] = adit[b],
           custody_view' = [custody_view EXCEPT ![a] = S],
           adit'[a].total_deposited \in S
    PROVE  CustodyViewed'
BY DEF CustodyViewed

LEMMA RootTotals ==
    ASSUME UNCHANGED <<admin_vars, keeper_count>>
    PROVE  RootPart' = [RootPart EXCEPT
                            !.total_normalized_deposits = total_normalized_deposits']
BY DEF RootPart, admin_vars

LEMMA RegisterAditReplayed ==
    ASSUME ReplayInv, NEW k, NEW a, NEW c, NEW cap, RegisterAdit(k, a, c, cap)
    PROVE  Replayed'
<1> DEFINE e == [asset_mint |-> a, conversion |-> c, deposit_cap |-> cap]
           new == [conversion |-> c, deposit_cap |-> cap, total_normalized |-> 0]
<1>1. /\ Custody!RegisterAdit(a, c, cap)
      /\ Index!OnAditRegistered(e)
      /\ UNCHANGED <<admin_vars, pool_vars, seam_vars, keeper_vars, queue_vars>>
  BY Zenon DEF RegisterAdit
<1>2. /\ a \notin DOMAIN adit /\ DOMAIN adit' = DOMAIN adit \cup {a}
      /\ \A b \in DOMAIN adit : adit'[b] = adit[b]
      /\ adit'[a] = [conversion |-> c, deposit_cap |-> cap,
                     total_deposited |-> 0, total_normalized |-> 0]
  BY <1>1 DEF Custody!RegisterAdit
<1>3. e.asset_mint = a /\ e.conversion = c /\ e.deposit_cap = cap
  OBVIOUS
<1>4. custody_view' = Index!Created(custody_view, a, {0})
  BY <1>1, <1>3 DEF Index!OnAditRegistered
<1> HIDE DEF e
<1>5. view' = Log(RootPart, Index!Created(AditPart, a, new),
                  seam, BoardPart, SharePart, ticket, KeeperPart)
  BY <1>1, <1>3, SeenBefore, AditRule DEF ReplayInv
<1>6. AditPart' = Index!Created(AditPart, a, new)
  <2>1. Index!Created(AditPart, a, new)
            = [b \in DOMAIN AditPart \cup {a} |->
                    IF b # a THEN AditPart[b] ELSE new]
    BY DEF Index!Created
  <2>2. /\ DOMAIN AditPart = DOMAIN adit
        /\ \A b \in DOMAIN adit :
                AditPart[b] = [conversion       |-> adit[b].conversion,
                               deposit_cap      |-> adit[b].deposit_cap,
                               total_normalized |-> adit[b].total_normalized]
    BY DEF AditPart
  <2>3. AditPart' = [b \in DOMAIN adit \cup {a} |->
                        [conversion       |-> adit'[b].conversion,
                         deposit_cap      |-> adit'[b].deposit_cap,
                         total_normalized |-> adit'[b].total_normalized]]
    BY <1>2 DEF AditPart
  <2>4. \A b \in DOMAIN adit \cup {a} :
            [conversion       |-> adit'[b].conversion,
             deposit_cap      |-> adit'[b].deposit_cap,
             total_normalized |-> adit'[b].total_normalized]
                = IF b # a THEN AditPart[b] ELSE new
    BY <1>2, <2>2
  <2> QED BY <2>1, <2>2, <2>3, <2>4
<1>7. CustodyViewed'
  <2>1. custody_view' = [b \in DOMAIN custody_view \cup {a} |->
                            IF b # a THEN custody_view[b] ELSE {0}]
    BY <1>4 DEF Index!Created
  <2>2. adit'[a].total_deposited = 0
    BY <1>2
  <2> QED BY <1>2, <2>1, <2>2 DEF ReplayInv, Replayed, CustodyViewed
<1>8. /\ RootPart' = RootPart /\ seam' = seam /\ BoardPart' = BoardPart
      /\ SharePart' = SharePart /\ ticket' = ticket /\ KeeperPart' = KeeperPart
  BY <1>1, PartsStay DEF pool_vars, seam_vars, queue_vars, keeper_vars
<1>9. view' = Accounts'
  BY <1>5, <1>6, <1>8, AccountsParts, Zenon
<1> QED
  BY <1>7, <1>9 DEF Replayed

(***************************************************************************)
(* The seams.                                                              *)
(***************************************************************************)

\* A routing total, and the reader's for it, after one seam's weight moved.
SeesMove(r, e, kind, previous, next, moved) ==
    /\ kind = "Counterparty" => previous <= r.counterparty_bps
    /\ e.yield_kind = kind
    /\ moved = Seams!Reallocated(r, kind, previous, next)
    /\ e.stope_emissions_bps = moved.emissions_bps

Follows(routed, r, previous, next, moved) ==
    /\ routed \in Seams!RoutingRecord
    /\ moved = [routed EXCEPT
                    !.allocated_bps = Seams!Moved(r.allocated_bps, previous, next)]

LEMMA SameRouting ==
    ASSUME NEW r \in Seams!RoutingRecord, NEW e, NEW kind, NEW moved,
           NEW previous \in Nat, NEW next \in Nat,
           SeesMove(r, e, kind, previous, next, moved)
    PROVE  Follows(Index!Routed(r, e, previous, next), r, previous, next, moved)
<1>1. /\ r.allocated_bps \in Nat /\ r.emissions_bps \in Nat /\ r.counterparty_bps \in Nat
      /\ r.seam_count \in Nat
  BY DEF Seams!RoutingRecord
<1>2. \A n \in Nat : /\ Seams!Moved(n, previous, next) \in Nat
                     /\ previous <= n => Seams!Moved(n, previous, next) = n - previous + next
  BY DEF Seams!Moved, Seams!SaturatingSub
<1>3. /\ moved.allocated_bps = Seams!Moved(r.allocated_bps, previous, next)
      /\ moved.emissions_bps = IF kind = "Emissions"
            THEN Seams!Moved(r.emissions_bps, previous, next) ELSE r.emissions_bps
      /\ moved.counterparty_bps = IF kind = "Counterparty"
            THEN Seams!Moved(r.counterparty_bps, previous, next) ELSE r.counterparty_bps
      /\ moved.seam_count = r.seam_count
      /\ moved \in Seams!RoutingRecord
  BY <1>1, <1>2 DEF SeesMove, Seams!Reallocated, Seams!RoutingRecord
<1>4. Index!Routed(r, e, previous, next) =
        [r EXCEPT !.emissions_bps = moved.emissions_bps,
                  !.counterparty_bps = moved.counterparty_bps]
  BY <1>1, <1>2, <1>3 DEF SeesMove, Index!Routed
<1> QED
  BY <1>1, <1>3, <1>4 DEF Follows, Seams!RoutingRecord

-----------------------------------------------------------------------------
LEMMA RoutingFacts ==
    ASSUME ReplayInv
    PROVE  /\ allocation \in [Stope -> Seams!RoutingRecord]
           /\ Weights \subseteq Nat
BY VaultAssumption
   DEF ReplayInv, LedgerInv, VaultInv, Seams!RegistryInv, Seams!RoutingTyped,
       Seams!RoutingRecord

LEMMA RoutingMoves ==
    ASSUME ReplayInv, UNCHANGED <<stope, queue>>, NEW s \in Stope, NEW r,
           allocation' = [allocation EXCEPT ![s] = r]
    PROVE  BoardPart' = [BoardPart EXCEPT ![s].routing = r]
<1>1. /\ allocation'[s] = r
      /\ \A t \in Stope : t # s => allocation'[t] = allocation[t]
  BY RoutingFacts
<1> QED
  BY <1>1 DEF BoardPart

LEMMA RegisterSeamReplayed ==
    ASSUME ReplayInv, NEW k, NEW id \in 1..NumSeams, NEW s \in Stope,
           NEW declared \in Seams!Declarations, RegisterSeam(k, id, s, declared)
    PROVE  Replayed'
<1> DEFINE e == [seam_id             |-> id,
                 stope_id            |-> s,
                 declared            |-> declared,
                 yield_kind          |-> declared.yield_kind,
                 stope_emissions_bps |-> allocation'[s].emissions_bps]
           new == [stope_id         |-> s,
                   asset_mint       |-> declared.asset_mint,
                   yield_kind       |-> declared.yield_kind,
                   risk_tier        |-> declared.risk_tier,
                   allocation_bps   |-> declared.allocation_bps,
                   emission_ends_at |-> declared.emission_ends_at,
                   emission_mint    |-> declared.emission_mint,
                   realized_yield   |-> 0,
                   last_accrual_at  |-> 0]
           w     == declared.allocation_bps
           kind  == declared.yield_kind
           moved == Seams!Reallocated(allocation[s], kind, 0, w)
<1>1. /\ Seams!RegisterSeam(id, s, declared)
      /\ Index!OnSeamRegistered(e)
      /\ UNCHANGED <<admin_vars, custody_vars, pool_vars, keeper_vars, queue_vars>>
  BY Zenon DEF RegisterSeam
<1>2. seam' = Index!Created(seam, id, new)
  BY <1>1 DEF Seams!RegisterSeam, Index!Created
<1>3. allocation' = [allocation EXCEPT ![s] = [moved EXCEPT !.seam_count = @ + 1]]
  BY <1>1 DEF Seams!RegisterSeam
<1>4. /\ e.seam_id = id /\ e.stope_id = s /\ e.declared = declared
      /\ e.yield_kind = kind /\ e.stope_emissions_bps = allocation'[s].emissions_bps
  OBVIOUS
<1>5. w \in Nat /\ kind \in YieldKind
  BY RoutingFacts DEF Seams!Declarations, Seams!YieldKind, YieldKind
<1>6. allocation[s] \in Seams!RoutingRecord
  BY RoutingFacts
<1> HIDE DEF e, w, kind
<1>7. /\ view' = Log(RootPart, AditPart, Index!Created(seam, id, new),
                     [BoardPart EXCEPT ![s].routing = Index!RoutedNew(@, e)],
                     SharePart, ticket, KeeperPart)
      /\ custody_view' = custody_view
  <2> DEFINE from == [stope_id         |-> e.stope_id,
                      asset_mint       |-> e.declared.asset_mint,
                      yield_kind       |-> e.declared.yield_kind,
                      risk_tier        |-> e.declared.risk_tier,
                      allocation_bps   |-> e.declared.allocation_bps,
                      emission_ends_at |-> e.declared.emission_ends_at,
                      emission_mint    |-> e.declared.emission_mint,
                      realized_yield   |-> 0,
                      last_accrual_at  |-> 0]
  <2>1. /\ view' = Log(RootPart, AditPart, Index!Created(seam, e.seam_id, from),
                       [BoardPart EXCEPT ![e.stope_id].routing = Index!RoutedNew(@, e)],
                       SharePart, ticket, KeeperPart)
        /\ custody_view' = custody_view
    BY <1>1, SeenBefore, RegisterRule, Zenon DEF ReplayInv
  <2>2. from = new
    BY <1>4, Zenon DEF kind
  <2> HIDE DEF from, new
  <2> QED BY <1>4, <2>1, <2>2
<1> HIDE DEF new
<1>8. allocation'[s] = Index!RoutedNew(allocation[s], e)
  <2> DEFINE routed == Index!Routed(allocation[s], e, 0, w)
  <2>1. allocation'[s] = [moved EXCEPT !.seam_count = @ + 1]
    BY <1>3, <1>6, RoutingFacts
  <2>2. moved \in Seams!RoutingRecord
    BY <1>5, <1>6, ReallocatedType
  <2>3. e.stope_emissions_bps = moved.emissions_bps
    BY <1>4, <2>1, <2>2 DEF Seams!RoutingRecord
  <2>4. 0 <= allocation[s].counterparty_bps
    BY <1>6 DEF Seams!RoutingRecord
  <2>5. /\ routed \in Seams!RoutingRecord
        /\ moved = [routed EXCEPT !.allocated_bps =
                        Seams!Moved(allocation[s].allocated_bps, 0, w)]
    <3>1. moved = Seams!Reallocated(allocation[s], kind, 0, w)
      OBVIOUS
    <3>2. e.yield_kind = kind
      BY <1>4
    <3> HIDE DEF moved
    <3>3. SeesMove(allocation[s], e, kind, 0, w, moved)
      BY <2>3, <2>4, <3>1, <3>2 DEF SeesMove
    <3>4. Follows(routed, allocation[s], 0, w, moved)
      BY <1>5, <1>6, <3>3, SameRouting, Zenon
    <3> QED BY <3>4, Zenon DEF Follows
  <2>6. Seams!Moved(allocation[s].allocated_bps, 0, w)
            = allocation[s].allocated_bps + w
    BY <1>5, <1>6
       DEF Seams!Moved, Seams!SaturatingSub, Seams!RoutingRecord
  <2>7. routed.allocated_bps = allocation[s].allocated_bps
    BY <1>6 DEF Index!Routed, Seams!RoutingRecord
  <2>8. Index!RoutedNew(allocation[s], e)
            = [routed EXCEPT !.allocated_bps = @ + w, !.seam_count = @ + 1]
    BY <1>4 DEF Index!RoutedNew, w
  <2> HIDE DEF routed, moved
  <2> QED
    BY <2>1, <2>5, <2>6, <2>7, <2>8 DEF Seams!RoutingRecord
<1>9. BoardPart' = [BoardPart EXCEPT ![s].routing = Index!RoutedNew(@, e)]
  <2>1. allocation' = [allocation EXCEPT ![s] = Index!RoutedNew(allocation[s], e)]
    BY <1>3, <1>8, RoutingFacts
  <2>2. BoardPart' = [BoardPart EXCEPT ![s].routing = Index!RoutedNew(allocation[s], e)]
    BY <1>1, <2>1, RoutingMoves DEF pool_vars, queue_vars
  <2>3. BoardPart[s].routing = allocation[s]
    BY DEF BoardPart
  <2> QED BY <2>2, <2>3
<1>10. /\ RootPart' = RootPart /\ AditPart' = AditPart /\ SharePart' = SharePart
       /\ ticket' = ticket /\ KeeperPart' = KeeperPart /\ CustodyViewed'
  BY <1>1, <1>7, PartsStay
     DEF custody_vars, pool_vars, queue_vars, keeper_vars, ReplayInv, Replayed
<1>11. view' = Accounts'
  BY <1>2, <1>7, <1>9, <1>10, AccountsParts, Zenon
<1> QED
  BY <1>10, <1>11 DEF Replayed

LEMMA UpdateSeamAllocationReplayed ==
    ASSUME Proved, ReplayInv, NEW k \in Keeper, NEW id \in 1..NumSeams, NEW bps \in Weights,
           UpdateSeamAllocation(k, id, bps)
    PROVE  Replayed'
<1> DEFINE s == seam[id].stope_id
           kind == seam[id].yield_kind
           w == seam[id].allocation_bps
           moved == Seams!Reallocated(allocation[s], kind, w, bps)
           e == [seam_id                 |-> id,
                 stope_id                |-> s,
                 keeper                  |-> k,
                 yield_kind              |-> kind,
                 previous_allocation_bps |-> w,
                 new_allocation_bps      |-> bps,
                 stope_allocated_bps     |-> allocation'[s].allocated_bps,
                 stope_emissions_bps     |-> allocation'[s].emissions_bps,
                 timestamp               |-> now]
<1>1. /\ id \in DOMAIN seam
      /\ Keepers!Rebalance(k)
      /\ Seams!UpdateAllocation(id, bps)
      /\ Index!OnSeamRebalanced(e)
      /\ UNCHANGED <<admin_vars, custody_vars, pool_vars, queue_vars>>
  BY Zenon DEF UpdateSeamAllocation
<1>2. /\ s \in Stope /\ kind \in YieldKind /\ w \in Nat /\ bps \in Nat
      /\ kind = "Counterparty" => w <= allocation[s].counterparty_bps
  <2>1. Seams!RegistryInv
    BY DEF ReplayInv, LedgerInv, VaultInv
  <2>2. s \in Stope /\ kind \in YieldKind
    BY <1>1, SeamFacts DEF ReplayInv, LedgerInv
  <2>3. w \in Nat
    BY <1>1, <2>1
       DEF Seams!RegistryInv, Seams!SeamsTyped, Seams!SeamRecord,
           Seams!MAX_BPS
  <2>4. kind = "Counterparty" => w <= allocation[s].counterparty_bps
    BY <1>1, <2>1, WeightIsCounted
  <2> QED BY <2>2, <2>3, <2>4, RoutingFacts
<1>3. /\ seam' = [seam EXCEPT ![id].allocation_bps = bps]
      /\ allocation' = [allocation EXCEPT ![s] = moved]
  BY <1>1 DEF Seams!UpdateAllocation
<1>4. /\ e.seam_id = id /\ e.stope_id = s /\ e.keeper = k /\ e.yield_kind = kind
      /\ e.previous_allocation_bps = w /\ e.new_allocation_bps = bps
      /\ e.stope_allocated_bps = allocation'[s].allocated_bps
      /\ e.stope_emissions_bps = allocation'[s].emissions_bps /\ e.timestamp = now
  OBVIOUS
<1>5. allocation[s] \in Seams!RoutingRecord
  BY <1>2, RoutingFacts
<1> HIDE DEF e, s, kind, w
<1>6. /\ view' = Log(RootPart, AditPart,
                     [seam EXCEPT ![id].allocation_bps = bps],
                     [BoardPart EXCEPT ![s].routing = Index!RoutedAnew(@, e)],
                     SharePart, ticket,
                     [KeeperPart EXCEPT ![k].last_rebalance_at = now])
      /\ custody_view' = custody_view
  <2>1. /\ view' = Log(RootPart, AditPart,
                       [seam EXCEPT ![e.seam_id].allocation_bps = e.new_allocation_bps],
                       [BoardPart EXCEPT ![e.stope_id].routing = Index!RoutedAnew(@, e)],
                       SharePart, ticket,
                       [KeeperPart EXCEPT ![e.keeper].last_rebalance_at = e.timestamp])
        /\ custody_view' = custody_view
    BY <1>1, SeenBefore, RebalanceRule, Zenon DEF ReplayInv
  <2> QED BY <1>4, <2>1
<1>7. moved = Index!RoutedAnew(allocation[s], e)
  <2> DEFINE routed == Index!Routed(allocation[s], e, w, bps)
  <2>1. allocation'[s] = moved
    BY <1>2, <1>3, RoutingFacts
  <2>2. /\ routed \in Seams!RoutingRecord
        /\ moved = [routed EXCEPT !.allocated_bps =
                        Seams!Moved(allocation[s].allocated_bps, w, bps)]
    <3>1. moved = Seams!Reallocated(allocation[s], kind, w, bps)
      OBVIOUS
    <3>2. e.yield_kind = kind
      BY <1>4
    <3> HIDE DEF moved
    <3>3. e.stope_emissions_bps = moved.emissions_bps
      BY <1>4, <2>1
    <3>4. SeesMove(allocation[s], e, kind, w, bps, moved)
      BY <1>2, <3>1, <3>2, <3>3 DEF SeesMove
    <3>5. Follows(routed, allocation[s], w, bps, moved)
      BY <1>2, <1>5, <3>4, SameRouting, Zenon
    <3> QED BY <3>5, Zenon DEF Follows
  <2>3. Index!RoutedAnew(allocation[s], e)
            = [routed EXCEPT !.allocated_bps = e.stope_allocated_bps]
    BY <1>4 DEF Index!RoutedAnew
  <2> HIDE DEF routed, moved
  <2>4. e.stope_allocated_bps = Seams!Moved(allocation[s].allocated_bps, w, bps)
    BY <1>4, <2>1, <2>2 DEF Seams!RoutingRecord
  <2> QED
    BY <2>2, <2>3, <2>4
<1> HIDE DEF moved
<1>8. BoardPart' = [BoardPart EXCEPT ![s].routing = Index!RoutedAnew(@, e)]
  <2>1. BoardPart' = [BoardPart EXCEPT ![s].routing = Index!RoutedAnew(allocation[s], e)]
    BY <1>1, <1>2, <1>3, <1>7, RoutingMoves DEF pool_vars, queue_vars
  <2>2. BoardPart[s].routing = allocation[s]
    BY <1>2 DEF BoardPart
  <2> QED BY <2>1, <2>2
<1>9. KeeperPart' = [KeeperPart EXCEPT ![k].last_rebalance_at = now]
  <2>1. k \in Keepers!Keeper
    BY DEF Keeper, Keepers!Keeper
  <2>2. /\ \A j \in Keeper :
                /\ keeper'[j].bonded_amount = keeper[j].bonded_amount
                /\ keeper'[j].slashed_amount = keeper[j].slashed_amount
                /\ keeper'[j].active = keeper[j].active
                /\ j # k => keeper'[j] = keeper[j]
        /\ keeper'[k].last_rebalance_at = now
    BY <1>1, <2>1, RebalancedKeepers
       DEF ReplayInv, Keeper, Keepers!Keeper
  <2> QED BY <2>2 DEF KeeperPart
<1>10. /\ RootPart' = RootPart /\ AditPart' = AditPart /\ SharePart' = SharePart
       /\ ticket' = ticket /\ CustodyViewed'
  <2>1. keeper_count' = keeper_count
    BY <1>1, Zenon DEF Keepers!Rebalance
  <2> QED
    BY <1>1, <1>6, <2>1, PartsStay
       DEF custody_vars, pool_vars, queue_vars, ReplayInv, Replayed
<1>11. view' = Accounts'
  BY <1>3, <1>6, <1>8, <1>9, <1>10, AccountsParts, Zenon
<1> QED
  BY <1>10, <1>11 DEF Replayed

-----------------------------------------------------------------------------
(***************************************************************************)
(* Money.                                                                  *)
(***************************************************************************)
LEMMA AditTypes ==
    ASSUME ReplayInv
    PROVE  \A b \in DOMAIN adit : adit[b] \in Custody!AditRecord
BY DEF ReplayInv, LedgerInv, VaultInv, Custody!CustodyInv, Custody!TypeOK

LEMMA ReceiveReplayed ==
    ASSUME ReplayInv, NEW a, NEW amount, Custody!Receive(a, amount)
    PROVE  /\ a \in DOMAIN adit /\ DOMAIN adit' = DOMAIN adit
           /\ \A b \in DOMAIN adit : b # a => adit'[b] = adit[b]
           /\ adit'[a].total_deposited = adit[a].total_deposited + amount
           /\ AditPart' = [AditPart EXCEPT
                    ![a].total_normalized = @ + Custody!Normalized(a, amount)]
<1> DEFINE n == Custody!Normalized(a, amount)
<1>1. /\ a \in DOMAIN adit
      /\ adit' = [adit EXCEPT ![a].total_deposited = @ + amount,
                              ![a].total_normalized = @ + n]
  BY DEF Custody!Receive
<1> HIDE DEF n
<1>2. adit[a] \in Custody!AditRecord
  BY <1>1, AditTypes
<1>3. /\ DOMAIN adit' = DOMAIN adit
      /\ \A b \in DOMAIN adit : b # a => adit'[b] = adit[b]
      /\ adit'[a].total_deposited = adit[a].total_deposited + amount
      /\ adit'[a].total_normalized = adit[a].total_normalized + n
      /\ adit'[a].conversion = adit[a].conversion
      /\ adit'[a].deposit_cap = adit[a].deposit_cap
  BY <1>1, <1>2 DEF Custody!AditRecord
<1>4. AditPart' = [AditPart EXCEPT ![a].total_normalized = @ + n]
  BY <1>1, <1>3 DEF AditPart
<1> QED
  BY <1>1, <1>3, <1>4 DEF n

LEMMA CustodyGrows ==
    ASSUME ReplayInv, NEW a, NEW amount, Custody!Receive(a, amount), NEW S,
           \A n \in custody_view[a] : n + amount \in S,
           custody_view' = [custody_view EXCEPT ![a] = S]
    PROVE  CustodyViewed'
<1>1. /\ a \in DOMAIN adit /\ DOMAIN adit' = DOMAIN adit
      /\ \A b \in DOMAIN adit : b # a => adit'[b] = adit[b]
      /\ adit'[a].total_deposited = adit[a].total_deposited + amount
  BY ReceiveReplayed
<1>2. CustodyViewed
  BY DEF ReplayInv, Replayed
<1>3. adit'[a].total_deposited \in S
  BY <1>1, <1>2 DEF CustodyViewed
<1> QED
  BY <1>1, <1>2, <1>3, CustodyFollows

LEMMA SharesMove ==
    ASSUME NEW s \in Stope, NEW o \in Owner, NEW n, miner'[s][o].shares = n,
           \A r \in Stope : r # s => miner'[r] = miner[r],
           \A p \in Owner : p # o => miner'[s][p] = miner[s][p]
    PROVE  SharePart' = [SharePart EXCEPT ![s][o] = n]
<1> DEFINE now_held(r) == [p \in Owner |-> miner'[r][p].shares]
<1>1. now_held(s) = [SharePart[s] EXCEPT ![o] = n]
  BY DEF SharePart
<1>2. \A r \in Stope : r # s => now_held(r) = SharePart[r]
  BY DEF SharePart
<1>3. /\ SharePart' = [r \in Stope |-> now_held(r)]
      /\ DOMAIN SharePart = Stope
      /\ SharePart = [r \in Stope |-> SharePart[r]]
  BY DEF SharePart
<1> HIDE DEF now_held
<1> QED
  BY <1>1, <1>2, <1>3

LEMMA MakeDepositReplayed ==
    ASSUME Proved, ReplayInv, NEW o \in Owner, NEW s \in Stope, NEW a \in Asset,
           NEW amount \in 1..Supply, MakeDeposit(o, s, a, amount)
    PROVE  Replayed'
<1> DEFINE n == Custody!Normalized(a, amount)
           e == [owner                |-> o,
                 stope_id             |-> s,
                 asset_mint           |-> a,
                 amount               |-> amount,
                 normalized_amount    |-> n,
                 miner_shares         |-> miner'[s][o].shares,
                 stope_total_shares   |-> stope'[s].total_shares,
                 stope_total_deposits |-> stope'[s].total_deposits]
<1>1. /\ Custody!Receive(a, amount) /\ Pool!MintShares(o, s, n)
      /\ UNCHANGED <<admin_vars, seam_vars, keeper_vars, queue_vars>>
  BY DEF MakeDeposit, Custody!TakeDeposit
<1>2. Index!OnDeposit(e)
  BY DEF MakeDeposit
<1>3. /\ e.owner = o /\ e.stope_id = s /\ e.asset_mint = a /\ e.amount = amount
      /\ e.normalized_amount = n /\ e.miner_shares = miner'[s][o].shares
      /\ e.stope_total_shares = stope'[s].total_shares
      /\ e.stope_total_deposits = stope'[s].total_deposits
  OBVIOUS
<1>4. n \in Pool!U64
  BY <1>1 DEF Custody!Receive, Custody!RoomForCredit, Custody!Fits64, Custody!U64, Pool!U64
<1>5. AditPart' = [AditPart EXCEPT ![a].total_normalized = @ + n]
  BY <1>1, ReceiveReplayed
<1> HIDE DEF n, e
<1>6. RootPart' = [RootPart EXCEPT !.total_normalized_deposits = @ + n]
  <2>1. total_normalized_deposits' = total_normalized_deposits + n
    BY <1>1 DEF Pool!MintShares
  <2>2. RootPart.total_normalized_deposits = total_normalized_deposits
    BY DEF RootPart
  <2> QED BY <1>1, <2>1, <2>2, RootTotals DEF keeper_vars
<1>7. Pool!Minted(o, s, n)
  BY <1>1, <1>4, MintEffect DEF ReplayInv, LedgerInv, VaultInv, Pool!U64, U64
<1>8. /\ \A r \in Stope : r # s => stope'[r] = stope[r] /\ miner'[r] = miner[r]
      /\ \A p \in Owner : p # o => miner'[s][p] = miner[s][p]
      /\ stope'[s].realized = stope[s].realized
  BY <1>7
     DEF Pool!Minted, Pool!OthersUnchanged, Pool!YieldBooksUnchanged,
         Pool!Stope, Stope, Pool!Owner, Owner
<1>9. BoardPart' = [BoardPart EXCEPT ![s].total_shares = stope'[s].total_shares,
                                     ![s].total_deposits = stope'[s].total_deposits]
  BY <1>1, <1>8 DEF BoardPart, seam_vars, queue_vars
<1>10. SharePart' = [SharePart EXCEPT ![s][o] = miner'[s][o].shares]
  BY <1>8, SharesMove
<1>11. view' = Log([RootPart EXCEPT !.total_normalized_deposits = @ + n],
                   [AditPart EXCEPT ![a].total_normalized = @ + n],
                   seam,
                   [BoardPart EXCEPT ![s].total_shares = stope'[s].total_shares,
                                     ![s].total_deposits = stope'[s].total_deposits],
                   [SharePart EXCEPT ![s][o] = miner'[s][o].shares],
                   ticket, KeeperPart)
  <2>1. NowLog(
            [RootPart EXCEPT !.total_normalized_deposits = @ + e.normalized_amount],
            [AditPart EXCEPT ![e.asset_mint].total_normalized = @ + e.normalized_amount],
            seam,
            [BoardPart EXCEPT ![e.stope_id].total_shares = e.stope_total_shares,
                              ![e.stope_id].total_deposits = e.stope_total_deposits],
            [SharePart EXCEPT ![e.stope_id][e.owner] = e.miner_shares],
            ticket, KeeperPart)
    BY <1>2, SeenBefore, DepositRule, Zenon DEF ReplayInv
  <2> QED BY <1>3, <2>1 DEF NowLog
<1>12. CustodyViewed'
  <2>1. custody_view' = [custody_view EXCEPT ![a] = {m + amount : m \in @}]
    BY <1>2, <1>3 DEF Index!OnDeposit
  <2> DEFINE S == {m + amount : m \in custody_view[a]}
  <2>2. custody_view' = [custody_view EXCEPT ![a] = S]
    BY <2>1
  <2>3. \A m \in custody_view[a] : m + amount \in S
    OBVIOUS
  <2> HIDE DEF S
  <2> QED BY <1>1, <2>2, <2>3, CustodyGrows
<1>13. seam' = seam /\ ticket' = ticket /\ KeeperPart' = KeeperPart
  BY <1>1, PartsStay DEF seam_vars, queue_vars, keeper_vars
<1>14. view' = Accounts'
  BY <1>5, <1>6, <1>9, <1>10, <1>11, <1>13, AccountsParts, Zenon
<1> QED
  BY <1>12, <1>14 DEF Replayed

LEMMA AccrueYieldReplayed ==
    ASSUME Proved, ReplayInv, NEW k \in Keeper, NEW id \in 1..NumSeams,
           NEW amount \in 1..Supply, AccrueYield(k, id, amount)
    PROVE  Replayed'
<1> DEFINE a == seam[id].asset_mint
           s == seam[id].stope_id
           kind == seam[id].yield_kind
           n == Custody!Normalized(a, amount)
           e == [seam_id             |-> id,
                 stope_id            |-> s,
                 amount              |-> n,
                 seam_realized_yield |-> seam'[id].realized_yield,
                 stope_realized      |-> stope'[s].realized,
                 stope_total_shares  |-> stope'[s].total_shares,
                 timestamp           |-> now]
<1>1. /\ id \in DOMAIN seam
      /\ Custody!Receive(a, amount)
      /\ Seams!SeamAccrues(id, n)
      /\ Pool!BookYield(s, kind, n)
      /\ UNCHANGED <<admin_vars, keeper_vars, queue_vars>>
  BY DEF AccrueYield, KindBooked, Custody!TakeYield
<1>2. Index!OnYieldAccrued(e)
  BY DEF AccrueYield
<1>3. /\ e.seam_id = id /\ e.stope_id = s /\ e.amount = n /\ e.timestamp = now
      /\ e.seam_realized_yield = seam'[id].realized_yield
      /\ e.stope_realized = stope'[s].realized
      /\ e.stope_total_shares = stope'[s].total_shares
  OBVIOUS
<1>4. a \in Asset /\ s \in Stope /\ kind \in YieldKind
  BY <1>1, SeamFacts DEF ReplayInv, LedgerInv
<1>5. n \in Pool!U64
  BY <1>1 DEF Custody!Receive, Custody!RoomForCredit, Custody!Fits64, Custody!U64, Pool!U64
<1>6. AditPart' = [AditPart EXCEPT ![a].total_normalized = @ + n]
  BY <1>1, ReceiveReplayed
<1>7. /\ seam' = [seam EXCEPT ![id].realized_yield = @ + n, ![id].last_accrual_at = now]
      /\ allocation' = allocation
  BY <1>1, Zenon DEF Seams!SeamAccrues
<1>8. ToNormalized(amount, adit[a].conversion) = n
  BY DEF Custody!Normalized, Custody!ToNormalized, ToNormalized,
         Custody!MulDivFloor, MulDivFloor
<1> HIDE DEF n, e, a, s, kind
<1>9. seam' = [seam EXCEPT ![id].realized_yield = seam'[id].realized_yield,
                           ![id].last_accrual_at = now]
  <2>1. seam[id] \in Seams!SeamRecord
    BY <1>1
       DEF ReplayInv, LedgerInv, VaultInv, Seams!RegistryInv, Seams!SeamsTyped
  <2>2. seam'[id].realized_yield = seam[id].realized_yield + n
    BY <1>1, <1>7, <2>1 DEF Seams!SeamRecord
  <2> QED BY <1>7, <2>2
<1>10. Pool!Booked(s, kind, n)
  BY <1>1, <1>4, <1>5, BookEffect
     DEF ReplayInv, LedgerInv, VaultInv, Pool!U64, U64
<1>11. RootPart' = [RootPart EXCEPT !.total_normalized_deposits = @ + n]
  <2>1. total_normalized_deposits' = total_normalized_deposits + n
    BY <1>1 DEF Pool!BookYield
  <2>2. RootPart.total_normalized_deposits = total_normalized_deposits
    BY DEF RootPart
  <2> QED BY <1>1, <2>1, <2>2, RootTotals DEF keeper_vars
<1>12. BoardPart' = [BoardPart EXCEPT ![s].realized = stope'[s].realized,
                                      ![s].total_shares = stope'[s].total_shares,
                                      ![s].total_deposits = @ + n]
  <2>1. /\ \A r \in Stope : r # s => stope'[r] = stope[r]
        /\ stope'[s].total_deposits = stope[s].total_deposits + n
    BY <1>10 DEF Pool!Booked, Pool!Stope, Stope
  <2> QED BY <1>1, <1>4, <1>7, <2>1 DEF BoardPart, queue_vars
<1>13. view' = Log([RootPart EXCEPT !.total_normalized_deposits = @ + n],
                   [AditPart EXCEPT ![a].total_normalized = @ + n],
                   [seam EXCEPT ![id].realized_yield = seam'[id].realized_yield,
                                ![id].last_accrual_at = now],
                   [BoardPart EXCEPT ![s].realized = stope'[s].realized,
                                     ![s].total_shares = stope'[s].total_shares,
                                     ![s].total_deposits = @ + n],
                   SharePart, ticket, KeeperPart)
  <2>1. NowLog(
            [RootPart EXCEPT !.total_normalized_deposits = @ + e.amount],
            [AditPart EXCEPT ![seam[e.seam_id].asset_mint].total_normalized = @ + e.amount],
            [seam EXCEPT ![e.seam_id].realized_yield = e.seam_realized_yield,
                         ![e.seam_id].last_accrual_at = e.timestamp],
            [BoardPart EXCEPT ![e.stope_id].realized = e.stope_realized,
                              ![e.stope_id].total_shares = e.stope_total_shares,
                              ![e.stope_id].total_deposits = @ + e.amount],
            SharePart, ticket, KeeperPart)
    BY <1>2, SeenBefore, AccrualRule, Zenon DEF ReplayInv
  <2>2. seam[e.seam_id].asset_mint = a
    BY <1>3 DEF a
  <2> QED BY <1>3, <2>1, <2>2 DEF NowLog
<1>14. CustodyViewed'
  <2> DEFINE S == Index!WorthAs(a, n)
             T == {m + d : m \in custody_view[a], d \in S}
  <2>1. view.seams = seam /\ view.adits = AditPart
    BY SeenBefore DEF ReplayInv, Log
  <2>2. custody_view' = [custody_view EXCEPT ![a] = T]
    BY <1>2, <1>3, <2>1 DEF Index!OnYieldAccrued, a
  <2>3. amount \in Index!U64
    BY MathAssumption, AssetsAssumption
       DEF Custody!CustodyAssumption, Custody!U64, Index!U64
  <2>4. view.adits[a].conversion = adit[a].conversion
    BY <1>1, <2>1 DEF Custody!Receive, AditPart
  <2>5. Index!ToNormalized(amount, adit[a].conversion) = n
    BY <1>8 DEF ToNormalized, MulDivFloor, Index!ToNormalized, Index!MulDivFloor
  <2>6. amount \in S
    BY <2>3, <2>4, <2>5 DEF Index!WorthAs
  <2> HIDE DEF S
  <2>7. \A m \in custody_view[a] : m + amount \in T
    BY <2>6
  <2> HIDE DEF T
  <2> QED BY <1>1, <2>2, <2>7, CustodyGrows
<1>15. SharePart' = SharePart /\ ticket' = ticket /\ KeeperPart' = KeeperPart
  <2>1. miner' = miner
    BY <1>10 DEF Pool!Booked
  <2> QED BY <1>1, <2>1, PartsStay DEF queue_vars, keeper_vars
<1>16. view' = Accounts'
  BY <1>6, <1>9, <1>11, <1>12, <1>13, <1>15, AccountsParts, Zenon
<1> QED
  BY <1>14, <1>16 DEF Replayed

-----------------------------------------------------------------------------
LEMMA RequestRedemptionReplayed ==
    ASSUME Proved, ReplayInv, NEW o \in Owner, NEW s \in Stope, NEW a \in Asset,
           NEW shares \in U64, RequestRedemption(o, s, a, shares)
    PROVE  Replayed'
<1> DEFINE terms == Terms(o, s, a, shares)
           n == Pool!RedemptionValue(s, shares)
           x == Queue!TicketAddress(o, s, position[s][o].ticket_count)
           e == [owner               |-> o,
                 orecart             |-> x,
                 stope_id            |-> s,
                 shares_burned       |-> shares,
                 terms               |-> terms,
                 queue_position      |-> queue[s].tail,
                 queue_pending_ahead |-> queue[s].total_pending,
                 requested_at        |-> now,
                 claimable_at        |-> ticket'[x].claimable_at]
           new == [owner |-> o, stope_id |-> s, terms |-> terms,
                   status |-> "Queued", queue_position |-> queue[s].tail,
                   requested_at |-> now,
                   claimable_at |-> ticket'[x].claimable_at, claimed_at |-> 0]
<1>1. /\ a \in DOMAIN adit
      /\ Pool!BurnShares(o, s, shares)
      /\ Fits64(Custody!NativeUnits(a, terms.normalized_amount))
      /\ Queue!Issue(o, s, terms)
      /\ UNCHANGED <<admin_vars, custody_vars, seam_vars, keeper_vars>>
  BY Zenon DEF RequestRedemption
<1>2. Index!OnRedemptionRequested(e)
  BY Zenon DEF RequestRedemption, BacklogAhead
<1>3. /\ e.owner = o /\ e.orecart = x /\ e.stope_id = s /\ e.shares_burned = shares
      /\ e.terms = terms /\ e.queue_position = queue[s].tail
      /\ e.queue_pending_ahead = queue[s].total_pending /\ e.requested_at = now
      /\ e.claimable_at = ticket'[x].claimable_at
  OBVIOUS
<1>4. terms \in TicketTerms
  BY <1>1, TermsFit DEF Pool!BurnShares, ReplayInv, LedgerInv
<1>5. terms.normalized_amount = n /\ n \in U64
  BY <1>4 DEF Terms, TicketTerms
<1>6. total_normalized_deposits' = total_normalized_deposits - terms.normalized_amount
  BY RequestRedemptionAsks, Zenon DEF ReplayInv
<1>7. /\ shares \in Pool!U64 \ {0} /\ o \in Pool!Owner /\ s \in Pool!Stope
  <2>1. shares \in 1..miner[s][o].shares
    BY <1>1 DEF Pool!BurnShares, Pool!CanBurn
  <2> QED BY <2>1 DEF Pool!U64, U64, Pool!Owner, Owner, Pool!Stope, Stope
<1>8. /\ stope'[s].total_shares = stope[s].total_shares - shares
      /\ stope'[s].total_deposits = stope[s].total_deposits - n
      /\ miner'[s][o].shares = miner[s][o].shares - shares
  BY <1>1, <1>7, BurnIsExact DEF ReplayInv, LedgerInv
<1>9. /\ \A r \in Stope : r # s => stope'[r] = stope[r] /\ miner'[r] = miner[r]
      /\ \A p \in Owner : p # o => miner'[s][p] = miner[s][p]
      /\ stope'[s].realized = stope[s].realized
  <2>1. Pool!TypeOK /\ shares \in Pool!U64
    BY <1>7 DEF ReplayInv, LedgerInv, VaultInv
  <2>2. Pool!Redeemed(o, s, shares)
    BY <1>1, <1>7, <2>1, BurnEffect
  <2> QED
    BY <2>2
       DEF Pool!Redeemed, Pool!OthersUnchanged, Pool!YieldBooksUnchanged,
           Pool!Stope, Stope, Pool!Owner, Owner
<1>10. Queue!Issued(o, s, terms)
  BY <1>1, <1>4, IssueEffect
<1>11. /\ queue'[s].total_pending = queue[s].total_pending + n
       /\ \A r \in Stope : r # s => queue'[r] = queue[r]
  <2>1. queue' = [queue EXCEPT ![s] = Queue!Enqueued(@, terms.normalized_amount)]
    BY <1>1, Zenon DEF Queue!Issue
  <2>2. /\ queue \in [Stope -> Queue!QueueRecord]
    BY DEF ReplayInv, LedgerInv, VaultInv, Queue!TypeOK, Queue!QueueRecord
  <2>3. Queue!Enqueued(queue[s], n).total_pending = queue[s].total_pending + n
    BY <2>2 DEF Queue!Enqueued, Queue!QueueRecord
  <2> HIDE DEF n, terms
  <2> QED BY <1>5, <2>1, <2>2, <2>3
<1> HIDE DEF n, x, e, terms
<1>12. /\ view' = Log(
                [RootPart EXCEPT !.total_normalized_deposits = @ - terms.normalized_amount],
                AditPart, seam,
                [BoardPart EXCEPT
                    ![s].total_shares = @ - shares,
                    ![s].total_deposits = @ - terms.normalized_amount,
                    ![s].total_pending = queue[s].total_pending + terms.normalized_amount],
                [SharePart EXCEPT ![s][o] = @ - shares],
                Index!Created(ticket, x, new), KeeperPart)
       /\ custody_view' = custody_view
  <2> DEFINE from == [owner |-> e.owner, stope_id |-> e.stope_id, terms |-> e.terms,
                      status |-> "Queued", queue_position |-> e.queue_position,
                      requested_at |-> e.requested_at,
                      claimable_at |-> e.claimable_at, claimed_at |-> 0]
  <2>1. /\ view' = Log(
                [RootPart EXCEPT !.total_normalized_deposits = @ - e.terms.normalized_amount],
                AditPart, seam,
                [BoardPart EXCEPT
                    ![e.stope_id].total_shares = @ - e.shares_burned,
                    ![e.stope_id].total_deposits = @ - e.terms.normalized_amount,
                    ![e.stope_id].total_pending =
                        e.queue_pending_ahead + e.terms.normalized_amount],
                [SharePart EXCEPT ![e.stope_id][e.owner] = @ - e.shares_burned],
                Index!Created(ticket, e.orecart, from), KeeperPart)
        /\ custody_view' = custody_view
    BY <1>2, SeenBefore, RequestRule, Zenon DEF ReplayInv
  <2>2. from = new
    BY <1>3, Zenon
  <2> HIDE DEF from, new
  <2> QED BY <1>3, <2>1, <2>2
<1>13. ticket' = Index!Created(ticket, x, new)
  <2>1. /\ x \notin DOMAIN ticket /\ DOMAIN ticket' = DOMAIN ticket \cup {x}
        /\ \A y \in DOMAIN ticket : ticket'[y] = ticket[y]
        /\ ticket'[x] = Queue!IssuedTicket(o, s, terms)
    BY <1>10 DEF Queue!Issued, x
  <2>2. ticket'[x] = new
    BY <2>1 DEF Queue!IssuedTicket
  <2>3. ticket' = [y \in DOMAIN ticket \cup {x} |-> ticket'[y]]
    BY <1>1 DEF Queue!Issue, x
  <2> HIDE DEF new
  <2> QED BY <2>1, <2>2, <2>3 DEF Index!Created
<1> HIDE DEF new
<1>14. BoardPart' = [BoardPart EXCEPT
            ![s].total_shares = @ - shares,
            ![s].total_deposits = @ - terms.normalized_amount,
            ![s].total_pending = queue[s].total_pending + terms.normalized_amount]
  BY <1>1, <1>5, <1>8, <1>9, <1>11 DEF BoardPart, seam_vars
<1>15. SharePart' = [SharePart EXCEPT ![s][o] = @ - shares]
  <2>1. SharePart[s][o] = miner[s][o].shares
    BY DEF SharePart
  <2>2. SharePart' = [SharePart EXCEPT ![s][o] = miner'[s][o].shares]
    BY <1>9, SharesMove
  <2> QED BY <1>8, <2>1, <2>2
<1>16. RootPart' = [RootPart EXCEPT
                        !.total_normalized_deposits = @ - terms.normalized_amount]
  <2>1. RootPart.total_normalized_deposits = total_normalized_deposits
    BY DEF RootPart
  <2> QED BY <1>1, <1>6, <2>1, RootTotals DEF keeper_vars
<1>17. AditPart' = AditPart /\ seam' = seam /\ KeeperPart' = KeeperPart /\ CustodyViewed'
  BY <1>1, <1>12, PartsStay
     DEF custody_vars, seam_vars, keeper_vars, ReplayInv, Replayed
<1>18. view' = Accounts'
  BY <1>12, <1>13, <1>14, <1>15, <1>16, <1>17, AccountsParts, Zenon
<1> QED
  BY <1>17, <1>18 DEF Replayed

LEMMA ClaimRedemptionReplayed ==
    ASSUME ReplayInv, NEW x \in DOMAIN ticket, ClaimRedemption(x)
    PROVE  Replayed'
<1> DEFINE a == ticket[x].terms.asset_mint
           p == ticket[x].terms.payout_amount
           s == ticket[x].stope_id
           e == [orecart             |-> x,
                 stope_id            |-> s,
                 asset_mint          |-> a,
                 payout_amount       |-> p,
                 queue_total_pending |-> queue'[s].total_pending,
                 claimed_at          |-> now]
<1>1. /\ Queue!Settle(x)
      /\ Custody!PayOut(a, p)
      /\ Index!OnRedemptionClaimed(e)
      /\ UNCHANGED <<admin_vars, pool_vars, seam_vars, keeper_vars>>
  BY Zenon DEF ClaimRedemption
<1>2. /\ e.orecart = x /\ e.stope_id = s /\ e.asset_mint = a /\ e.payout_amount = p
      /\ e.queue_total_pending = queue'[s].total_pending /\ e.claimed_at = now
  OBVIOUS
<1>3. Queue!TypeOK
  BY DEF ReplayInv, LedgerInv, VaultInv
<1>4. s \in Stope /\ \A r \in Stope : r # s => queue'[r] = queue[r]
  <2>1. s \in Stope
    BY <1>3 DEF Queue!TypeOK, Queue!TicketRecord
  <2>2. queue' = [queue EXCEPT ![s] =
                Queue!Dequeued(@, ticket[x].terms.normalized_amount,
                                       ticket[x].terms.fee_normalized)]
    BY <1>1, Zenon DEF Queue!Settle
  <2>3. queue \in [Stope -> Queue!QueueRecord]
    BY <1>3 DEF Queue!TypeOK, Queue!QueueRecord
  <2> HIDE DEF s
  <2> QED BY <2>1, <2>2, <2>3
<1>5. ticket' = [ticket EXCEPT ![x].status = "Claimed", ![x].claimed_at = now]
  BY <1>1, Zenon DEF Queue!Settle
<1> HIDE DEF e, a, p, s
<1>6. BoardPart' = [BoardPart EXCEPT ![s].total_pending = queue'[s].total_pending]
  BY <1>1, <1>4 DEF BoardPart, pool_vars, seam_vars
<1>7. /\ a \in DOMAIN adit /\ DOMAIN adit' = DOMAIN adit
      /\ \A b \in DOMAIN adit : b # a => adit'[b] = adit[b]
      /\ adit'[a].total_deposited = SaturatingSub(adit[a].total_deposited, p)
      /\ adit'[a].conversion = adit[a].conversion
      /\ adit'[a].deposit_cap = adit[a].deposit_cap
      /\ adit'[a].total_normalized = adit[a].total_normalized
  <2>1. adit' = [adit EXCEPT ![a] = Custody!Debited(@, p)] /\ a \in DOMAIN adit
    BY <1>1, Zenon DEF Custody!PayOut
  <2>2. adit[a] \in Custody!AditRecord
    BY <2>1, AditTypes
  <2>3. LET y == Custody!Debited(adit[a], p)
        IN  /\ y.total_deposited = SaturatingSub(adit[a].total_deposited, p)
            /\ y.conversion = adit[a].conversion
            /\ y.deposit_cap = adit[a].deposit_cap
            /\ y.total_normalized = adit[a].total_normalized
    BY <2>2 DEF Custody!Debited, Custody!AditRecord,
                Custody!SaturatingSub, SaturatingSub
  <2> QED BY <2>1, <2>3
<1>8. AditPart' = AditPart
  BY <1>7 DEF AditPart
<1>9. CustodyViewed'
  <2> DEFINE S == {Index!SaturatingSub(m, p) : m \in custody_view[a]}
  <2>1. CustodyViewed
    BY DEF ReplayInv, Replayed
  <2>2. custody_view' = [custody_view EXCEPT ![a] = S]
    BY <1>1, <1>2 DEF Index!OnRedemptionClaimed
  <2>3. adit'[a].total_deposited \in S
    BY <1>7, <2>1 DEF CustodyViewed, Index!SaturatingSub, SaturatingSub
  <2> HIDE DEF S
  <2> QED BY <1>7, <2>1, <2>2, <2>3, CustodyFollows
<1>10. view' = Log(RootPart, AditPart, seam,
                   [BoardPart EXCEPT ![s].total_pending = queue'[s].total_pending],
                   SharePart,
                   [ticket EXCEPT ![x].status = "Claimed", ![x].claimed_at = now],
                   KeeperPart)
  <2>1. NowLog(RootPart, AditPart, seam,
            [BoardPart EXCEPT ![e.stope_id].total_pending = e.queue_total_pending],
            SharePart,
            [ticket EXCEPT ![e.orecart].status = "Claimed",
                           ![e.orecart].claimed_at = e.claimed_at],
            KeeperPart)
    BY <1>1, SeenBefore, ClaimRule, Zenon DEF ReplayInv
  <2> QED BY <1>2, <2>1 DEF NowLog
<1>11. /\ RootPart' = RootPart /\ seam' = seam /\ SharePart' = SharePart
       /\ KeeperPart' = KeeperPart
  BY <1>1, PartsStay DEF pool_vars, seam_vars, keeper_vars
<1>12. view' = Accounts'
  BY <1>5, <1>6, <1>8, <1>10, <1>11, AccountsParts, Zenon
<1> QED
  BY <1>9, <1>12 DEF Replayed

(***************************************************************************)
(* Steps that emit no event change no account.                             *)
(***************************************************************************)
LEMMA SilentReplayed ==
    ASSUME Replayed,
           UNCHANGED <<admin_vars, adit, pool_vars, seam, allocation, keeper,
                       keeper_count, ticket, queue, index_vars>>
    PROVE  Replayed'
<1>1. /\ RootPart' = RootPart /\ AditPart' = AditPart /\ BoardPart' = BoardPart
      /\ SharePart' = SharePart /\ KeeperPart' = KeeperPart /\ CustodyViewed'
  BY PartsStay DEF pool_vars, index_vars, Replayed
<1> QED
  BY <1>1, SeenBefore, AccountsParts DEF Replayed, index_vars

LEMMA NextReplayed ==
    ASSUME Proved, ReplayInv, [Next]_vars
    PROVE  Replayed'
<1>1. CASE Money
  <2>1. ASSUME NEW o \in Owner, NEW s \in Stope, NEW a \in Asset, NEW n \in 1..Supply,
               MakeDeposit(o, s, a, n)
        PROVE  Replayed'
    BY <2>1, MakeDepositReplayed
  <2>2. ASSUME NEW o \in Owner, NEW s \in Stope, NEW a \in Asset, NEW n \in U64,
               RequestRedemption(o, s, a, n)
        PROVE  Replayed'
    BY <2>2, RequestRedemptionReplayed
  <2>3. ASSUME NEW x \in DOMAIN ticket, ClaimRedemption(x)
        PROVE  Replayed'
    BY <2>3, ClaimRedemptionReplayed
  <2> QED BY <1>1, <2>1, <2>2, <2>3, Zenon DEF Money
<1>2. CASE Keeping
  <2>1. ASSUME NEW k \in Keeper, NEW id \in 1..NumSeams, NEW n \in 1..Supply,
               AccrueYield(k, id, n)
        PROVE  Replayed'
    BY <2>1, AccrueYieldReplayed
  <2>2. ASSUME NEW k \in Keeper, NEW id \in 1..NumSeams, NEW n \in Weights,
               UpdateSeamAllocation(k, id, n)
        PROVE  Replayed'
    BY <2>2, UpdateSeamAllocationReplayed
  <2>3. ASSUME NEW k \in Keeper, NEW n \in 1..InitialLodz,
               BondKeeper(k, n) \/ UnbondKeeper(k, n)
        PROVE  Replayed'
    BY <2>3, BondReplayed
  <2> QED BY <1>2, <2>1, <2>2, <2>3, Zenon DEF Keeping
<1>3. CASE Governing
  <2>1. ASSUME NEW k, Administer(k)
        PROVE  Replayed'
    BY <2>1, AdministerReplayed
  <2>2. ASSUME NEW k, NEW bonded \in Keeper, NEW n \in 1..InitialLodz,
               SlashKeeper(k, bonded, n)
        PROVE  Replayed'
    BY <2>2, SlashReplayed
  <2>3. ASSUME NEW k, NEW a, NEW c, NEW cap, RegisterAdit(k, a, c, cap)
        PROVE  Replayed'
    BY <2>3, RegisterAditReplayed
  <2>4. ASSUME NEW k, NEW id \in 1..NumSeams, NEW s \in Stope,
               NEW declared \in Seams!Declarations, RegisterSeam(k, id, s, declared)
        PROVE  Replayed'
    BY <2>4, RegisterSeamReplayed
  <2> QED BY <1>3, <2>1, <2>2, <2>3, <2>4, Zenon DEF Governing
<1>4. CASE \E a \in Asset, n \in 1..Supply : SendDirectly(a, n)
  <2>1. PICK a \in Asset, n \in 1..Supply : SendDirectly(a, n)
    BY <1>4
  <2>2. Custody!SendDirectly(a, n)
    BY <2>1 DEF SendDirectly
  <2>3. adit' = adit
    BY <2>2, Zenon DEF Custody!SendDirectly
  <2> QED
    BY <2>1, <2>3, SilentReplayed
       DEF SendDirectly, seam_vars, keeper_vars, queue_vars, ReplayInv
<1>5. CASE Tick
  <2>1. Queue!Tick /\ Keepers!Tick /\ Seams!Tick
        /\ UNCHANGED <<admin_vars, custody_vars, pool_vars, index_vars>>
    BY <1>5, Zenon DEF Tick
  <2>2. UNCHANGED <<adit, seam, allocation, keeper, keeper_count, ticket, queue>>
    BY <2>1 DEF Queue!Tick, Keepers!Tick, Seams!Tick, custody_vars
  <2> QED
    BY <2>1, <2>2, SilentReplayed DEF ReplayInv
<1>6. CASE \E k \in Keeper, n \in 1..InitialLodz : SendLodz(k, n)
  <2>1. PICK k \in Keeper, n \in 1..InitialLodz : SendLodz(k, n)
    BY <1>6
  <2>2. UNCHANGED <<keeper, keeper_count>>
    BY <2>1, Zenon DEF SendLodz, Keepers!SendToBondVault, Keepers!SpendTreasury
  <2> QED
    BY <2>1, <2>2, SilentReplayed
       DEF SendLodz, custody_vars, seam_vars, queue_vars, ReplayInv
<1>7. CASE UNCHANGED vars
  BY <1>7, SilentReplayed
     DEF vars, custody_vars, seam_vars, keeper_vars, queue_vars, ReplayInv
<1> QED
  BY <1>1, <1>2, <1>3, <1>4, <1>5, <1>6, <1>7, Zenon DEF Next

\* Only Administer touches the root account's keys.
LEMMA NextHasNoHeir ==
    ASSUME UnbornHasNoHeir, [Next]_vars
    PROVE  UnbornHasNoHeir'
<1>1. CASE \E k : Administer(k)
  BY <1>1, AdministerNominates
<1>2. CASE UNCHANGED admin_vars
  BY <1>2 DEF admin_vars, UnbornHasNoHeir
<1>3. (\E k : Administer(k)) \/ UNCHANGED admin_vars
  <2>1. CASE Money
    <3>1. ASSUME NEW o \in Owner, NEW s \in Stope, NEW a \in Asset, NEW n \in 1..Supply,
                 MakeDeposit(o, s, a, n)
          PROVE  UNCHANGED admin_vars
      BY <3>1, Zenon DEF MakeDeposit
    <3>2. ASSUME NEW o \in Owner, NEW s \in Stope, NEW a \in Asset, NEW n \in U64,
                 RequestRedemption(o, s, a, n)
          PROVE  UNCHANGED admin_vars
      BY <3>2, Zenon DEF RequestRedemption
    <3>3. ASSUME NEW x \in DOMAIN ticket, ClaimRedemption(x)
          PROVE  UNCHANGED admin_vars
      BY <3>3, Zenon DEF ClaimRedemption
    <3> QED BY <2>1, <3>1, <3>2, <3>3, Zenon DEF Money
  <2>2. CASE Keeping
    BY <2>2, Zenon
       DEF Keeping, AccrueYield, UpdateSeamAllocation, BondKeeper, UnbondKeeper
  <2>3. CASE Governing
    BY <2>3, Zenon DEF Governing, SlashKeeper, RegisterAdit, RegisterSeam
  <2>4. CASE (\E a \in Asset, n \in 1..Supply : SendDirectly(a, n)) \/ Tick
    BY <2>4, Zenon DEF SendDirectly, Tick
  <2>5. CASE \E k \in Keeper, n \in 1..InitialLodz : SendLodz(k, n)
    BY <2>5, Zenon DEF SendLodz
  <2>6. CASE UNCHANGED vars
    BY <2>6 DEF vars
  <2> QED BY <2>1, <2>2, <2>3, <2>4, <2>5, <2>6, Zenon DEF Next
<1> QED
  BY <1>1, <1>2, <1>3

-----------------------------------------------------------------------------
LEMMA NothingRouted ==
    ASSUME Init, NEW s \in Stope
    PROVE  allocation[s] = [allocated_bps |-> 0, emissions_bps |-> 0,
                            counterparty_bps |-> 0, seam_count |-> 0]
<1>1. Seams!Init
  BY DEF Init
<1>2. allocation[s] = Seams!Decoded(s)
  BY <1>1 DEF Seams!Init
<1>3. /\ Seams!RoutedBps(<<>>, s, Seams!YieldKind) = 0
      /\ Seams!RoutedBps(<<>>, s, {"Emissions"}) = 0
  BY NoLegacy
<1>4. Seams!Cardinality({id \in DOMAIN <<>> : <<>>[id].stope_id = s}) = 0
  <2>1. {id \in DOMAIN <<>> : <<>>[id].stope_id = s} = {}
    BY NoLegacy
  <2>2. Seams!Cardinality({}) = 0
    <3>1. \A S : Seams!Cardinality(S) = Cardinality(S)
      BY Zenon DEF Seams!Cardinality, Cardinality
    <3> QED BY <3>1, FS_EmptySet
  <2> QED BY <2>1, <2>2
<1> QED
  BY <1>2, <1>3, <1>4 DEF Seams!Decoded

LEMMA InitReplayed == Init => Replayed /\ UnbornHasNoHeir
<1> SUFFICES ASSUME Init PROVE Replayed /\ UnbornHasNoHeir
  OBVIOUS
<1>1. /\ Admin!Init /\ Custody!Init /\ Pool!Init /\ Seams!Init
      /\ Keepers!Init /\ Queue!Init /\ Index!Init
  BY DEF Init
<1>2. UnbornHasNoHeir
  BY <1>1 DEF Admin!Init, UnbornHasNoHeir
<1>3. /\ authority = NoKey /\ pending_authority = NoKey /\ paused = FALSE
      /\ bond_vault_open = FALSE /\ open_stopes = {}
      /\ keeper_count = 0 /\ total_normalized_deposits = 0
  BY <1>1 DEF Admin!Init, Keepers!Init, Pool!Init
<1>4. RootPart = [authority |-> NoKey, pending_authority |-> NoKey, paused |-> FALSE,
                  bond_vault_open |-> FALSE, open_stopes |-> {},
                  keeper_count |-> 0, total_normalized_deposits |-> 0]
  BY <1>3, Zenon DEF RootPart
<1>5. adit = <<>> /\ seam = <<>> /\ ticket = <<>>
  BY <1>1 DEF Custody!Init, Seams!Init, Queue!Init
<1>6. AditPart = <<>>
  BY <1>5, NoLegacy DEF AditPart
<1>7. BoardPart = [s \in Stope |->
                    [total_shares |-> 0, total_deposits |-> 0,
                     realized |-> Pool!NoYield, total_pending |-> 0,
                     routing |-> [allocated_bps |-> 0, emissions_bps |-> 0,
                                  counterparty_bps |-> 0, seam_count |-> 0]]]
  <2>1. \A s \in Stope : /\ stope[s].total_shares = 0 /\ stope[s].total_deposits = 0
                         /\ stope[s].realized = Pool!NoYield
    BY <1>1 DEF Pool!Init, Pool!EmptyPool, Pool!Stope, Stope
  <2>2. \A s \in Stope : queue[s].total_pending = 0
    BY <1>1 DEF Queue!Init, Queue!EmptyQueue
  <2> QED
    BY <2>1, <2>2, NothingRouted DEF BoardPart
<1>8. SharePart = [s \in Stope |-> [o \in Owner |-> 0]]
  <2>1. \A s \in Stope, o \in Owner : miner[s][o].shares = 0
    BY <1>1 DEF Pool!Init, Pool!EmptyMiner, Pool!Stope, Stope, Pool!Owner, Owner
  <2> QED BY <2>1 DEF SharePart
<1>9. KeeperPart = [k \in Keeper |->
                        [bonded_amount |-> 0, slashed_amount |-> 0, active |-> FALSE,
                         last_rebalance_at |-> 0]]
  <2>1. \A k \in Keeper : /\ keeper[k].bonded_amount = 0
                          /\ keeper[k].slashed_amount = 0
                          /\ keeper[k].active = FALSE
                          /\ keeper[k].last_rebalance_at = 0
    BY <1>1 DEF Keepers!Init, Keepers!NewKeeper, Keepers!Keeper, Keeper
  <2> QED BY <2>1, Zenon DEF KeeperPart
<1>10. view = Log(RootPart, AditPart, seam, BoardPart, SharePart, ticket, KeeperPart)
  BY <1>1, <1>4, <1>5, <1>6, <1>7, <1>8, <1>9, Zenon DEF Index!Init, Log
<1>11. CustodyViewed
  BY <1>1, <1>5, NoLegacy DEF Index!Init, CustodyViewed
<1> QED
  BY <1>2, <1>10, <1>11, AccountsParts DEF Replayed
-----------------------------------------------------------------------------
(***************************************************************************)
(* The components again, with what is proved of each.                      *)
(***************************************************************************)
CustodyProof == INSTANCE CustodyProofs
PoolProof    == INSTANCE StopePoolProofs WITH SeamKinds <- YieldKind
SeamsProof   == INSTANCE SeamRegistryProofs WITH LegacySeams <- <<>>
KeepersProof == INSTANCE KeeperBondProofs
QueueProof   == INSTANCE OrecartProofs

AdminProof == INSTANCE VaultAdminProofs WITH
    Parameters                     <- {InitialParams},
    MAX_FEE_BPS                    <- fee_bps,
    MAX_BASE_REDEMPTION_DELAY_SEC  <- redemption_delay_sec,
    MAX_TOTAL_REDEMPTION_DELAY_SEC <- max_redemption_delay_sec,
    MAX_KEEPER_UNBOND_COOLDOWN_SEC <- keeper_unbond_cooldown_sec


(***************************************************************************)
(* The two instances of a component say the same: of its initial states, of*)
(* its steps, and of what is proved of them.                               *)
(***************************************************************************)
LEMMA SameCustody ==
    /\ Custody!Init = CustodyProof!Init
    /\ [Custody!Next]_(Custody!vars) = [CustodyProof!Next]_(CustodyProof!vars)
    /\ Custody!TypeOK = CustodyProof!TypeOK
    /\ Custody!CustodyInv = CustodyProof!CustodyInv
    /\ (Custody!CustodyInv)' = (CustodyProof!CustodyInv)'
    /\ Custody!RatiosPinned = CustodyProof!RatiosPinned
    /\ (Custody!RatiosPinned)' = (CustodyProof!RatiosPinned)'
    /\ Custody!FeelessWhole = CustodyProof!FeelessWhole
<1>1. Custody!Init = CustodyProof!Init /\ (UNCHANGED Custody!vars <=> UNCHANGED CustodyProof!vars)
  BY DEF Custody!Init, CustodyProof!Init, Custody!vars, CustodyProof!vars
<1>2. /\ \A a, c, cap : Custody!RegisterAdit(a, c, cap) = CustodyProof!RegisterAdit(a, c, cap)
      /\ \A a, n : Custody!TakeDeposit(a, n) = CustodyProof!TakeDeposit(a, n)
      /\ \A a, n : Custody!TakeYield(a, n) = CustodyProof!TakeYield(a, n)
      /\ \A a, n : Custody!PayOut(a, n) = CustodyProof!PayOut(a, n)
      /\ \A a, n : Custody!SendDirectly(a, n) = CustodyProof!SendDirectly(a, n)
  BY DEF Custody!RegisterAdit, CustodyProof!RegisterAdit, Custody!TakeDeposit,
         CustodyProof!TakeDeposit, Custody!Receive, CustodyProof!Receive, Custody!Delivered,
         CustodyProof!Delivered, Custody!RoomForCredit, CustodyProof!RoomForCredit,
         Custody!Fits64, CustodyProof!Fits64, Custody!U64,
         CustodyProof!U64, Custody!Normalized, CustodyProof!Normalized, Custody!ToNormalized,
         CustodyProof!ToNormalized, Custody!MulDivFloor, CustodyProof!MulDivFloor,
         Custody!TransferIn, CustodyProof!TransferIn, Custody!UnderCap, CustodyProof!UnderCap,
         Custody!TakeYield, CustodyProof!TakeYield, Custody!PayOut, CustodyProof!PayOut,
         Custody!Debited, CustodyProof!Debited, Custody!SaturatingSub,
         CustodyProof!SaturatingSub, Custody!SendDirectly, CustodyProof!SendDirectly
<1>3. Custody!Next = CustodyProof!Next
  BY <1>2, Zenon DEF Custody!Next, CustodyProof!Next
<1>4. /\ Custody!TypeOK = CustodyProof!TypeOK
      /\ Custody!CustodyInv = CustodyProof!CustodyInv
      /\ Custody!RatiosPinned = CustodyProof!RatiosPinned
      /\ Custody!FeelessWhole = CustodyProof!FeelessWhole
  BY DEF Custody!TypeOK, CustodyProof!TypeOK, Custody!AditRecord, CustodyProof!AditRecord,
         Custody!U64, CustodyProof!U64, Custody!CustodyInv, CustodyProof!CustodyInv,
         Custody!BooksCoveredByCustody, CustodyProof!BooksCoveredByCustody, Custody!SupplyInv,
         CustodyProof!SupplyInv, Custody!Lost, CustodyProof!Lost, Custody!RatiosPinned,
         CustodyProof!RatiosPinned, Custody!FeelessWhole, CustodyProof!FeelessWhole
<1>5. /\ (Custody!CustodyInv)' = (CustodyProof!CustodyInv)'
      /\ (Custody!RatiosPinned)' = (CustodyProof!RatiosPinned)'
  BY DEF Custody!CustodyInv, CustodyProof!CustodyInv, Custody!BooksCoveredByCustody,
         CustodyProof!BooksCoveredByCustody, Custody!SupplyInv, CustodyProof!SupplyInv,
         Custody!Lost, CustodyProof!Lost, Custody!TypeOK, CustodyProof!TypeOK,
         Custody!AditRecord, CustodyProof!AditRecord, Custody!U64, CustodyProof!U64,
         Custody!RatiosPinned, CustodyProof!RatiosPinned
<1> QED
  BY <1>1, <1>2, <1>3, <1>4, <1>5

LEMMA SamePool ==
    /\ Pool!Init = PoolProof!Init
    /\ [Pool!Next]_(Pool!vars) = [PoolProof!Next]_(PoolProof!vars)
    /\ Pool!TypeOK = PoolProof!TypeOK
    /\ (Pool!TypeOK)' = (PoolProof!TypeOK)'
    /\ Pool!PoolInv = PoolProof!PoolInv
    /\ \A o, s, n : Pool!MintShares(o, s, n) = PoolProof!MintShares(o, s, n)
    /\ \A o, s, n : Pool!BurnShares(o, s, n) = PoolProof!BurnShares(o, s, n)
    /\ \A s, k, n : Pool!BookYield(s, k, n) = PoolProof!BookYield(s, k, n)
    /\ \A o, s, n : Pool!Minted(o, s, n) = PoolProof!Minted(o, s, n)
    /\ \A o, s, n : Pool!Redeemed(o, s, n) = PoolProof!Redeemed(o, s, n)
    /\ \A s, k, n : Pool!Booked(s, k, n) = PoolProof!Booked(s, k, n)
    /\ \A s, n : Pool!RedemptionValue(s, n) = PoolProof!RedemptionValue(s, n)
<1>1. Pool!Init = PoolProof!Init /\ (UNCHANGED Pool!vars <=> UNCHANGED PoolProof!vars)
  BY DEF Pool!Init, PoolProof!Init, Pool!EmptyMiner, PoolProof!EmptyMiner, Pool!NoYield,
         PoolProof!NoYield, Pool!YieldKind, PoolProof!YieldKind, Pool!EmptyPool,
         PoolProof!EmptyPool, Pool!Owner, PoolProof!Owner, Pool!Stope, PoolProof!Stope,
         Pool!vars, PoolProof!vars
<1>2. /\ \A o, s, n : Pool!MintShares(o, s, n) = PoolProof!MintShares(o, s, n)
      /\ \A o, s, n : Pool!BurnShares(o, s, n) = PoolProof!BurnShares(o, s, n)
      /\ \A s, k, n : Pool!BookYield(s, k, n) = PoolProof!BookYield(s, k, n)
  BY DEF Pool!MintShares, PoolProof!MintShares, Pool!Fits64, PoolProof!Fits64, Pool!U64,
         PoolProof!U64, Pool!SettleFits, PoolProof!SettleFits, Pool!Fits128, PoolProof!Fits128,
         Pool!U128, PoolProof!U128, Pool!U128Max, PoolProof!U128Max, Pool!Pending,
         PoolProof!Pending, Pool!PendingFromIndex, PoolProof!PendingFromIndex,
         Pool!ScaledPending, PoolProof!ScaledPending, Pool!SaturatingSub,
         PoolProof!SaturatingSub, Pool!YieldKind, PoolProof!YieldKind, Pool!Settled,
         PoolProof!Settled, Pool!SharesFor, PoolProof!SharesFor, Pool!MulDivFloor,
         PoolProof!MulDivFloor, Pool!BurnShares, PoolProof!BurnShares, Pool!Burnt,
         PoolProof!Burnt, Pool!CanBurn, PoolProof!CanBurn, Pool!ClaimedYield,
         PoolProof!ClaimedYield, Pool!RedemptionValue, PoolProof!RedemptionValue,
         Pool!SumOfKinds, PoolProof!SumOfKinds, Pool!BookYield, PoolProof!BookYield,
         Pool!AccrueFits, PoolProof!AccrueFits, Pool!NextIndex, PoolProof!NextIndex,
         Pool!IndexDelta, PoolProof!IndexDelta, Pool!Accrued, PoolProof!Accrued
<1>3. Pool!Next = PoolProof!Next
  BY <1>2, Zenon DEF Pool!Next, PoolProof!Next, Pool!Stope, PoolProof!Stope,
         Pool!Owner, PoolProof!Owner, Pool!U64, PoolProof!U64
<1>4. Pool!TypeOK = PoolProof!TypeOK /\ (Pool!TypeOK)' = (PoolProof!TypeOK)'
  BY DEF Pool!TypeOK, PoolProof!TypeOK, Pool!MinerRecord, PoolProof!MinerRecord, Pool!Balances,
         PoolProof!Balances, Pool!U64, PoolProof!U64, Pool!YieldKind, PoolProof!YieldKind,
         Pool!Indices, PoolProof!Indices, Pool!U128, PoolProof!U128, Pool!U128Max,
         PoolProof!U128Max, Pool!Owner, PoolProof!Owner, Pool!PoolRecord, PoolProof!PoolRecord,
         Pool!Stope, PoolProof!Stope
<1>5. \A f, n : Pool!Total(f, n) = PoolProof!Total(f, n)
  BY Zenon DEF Pool!Total, PoolProof!Total, Pool!PrefixSum, PoolProof!PrefixSum
<1>6. Pool!PoolInv = PoolProof!PoolInv
  BY <1>4, <1>5
     DEF Pool!PoolInv, PoolProof!PoolInv, Pool!PoolMatchesPositions,
         PoolProof!PoolMatchesPositions, Pool!OpenedIn, PoolProof!OpenedIn, Pool!Owner,
         PoolProof!Owner, Pool!SharesOf, PoolProof!SharesOf, Pool!Stope, PoolProof!Stope,
         Pool!ShareNeverUnderwater, PoolProof!ShareNeverUnderwater
<1>7. /\ \A o, s, n : Pool!Minted(o, s, n) = PoolProof!Minted(o, s, n)
      /\ \A o, s, n : Pool!Redeemed(o, s, n) = PoolProof!Redeemed(o, s, n)
      /\ \A s, k, n : Pool!Booked(s, k, n) = PoolProof!Booked(s, k, n)
      /\ \A s, n : Pool!RedemptionValue(s, n) = PoolProof!RedemptionValue(s, n)
  BY DEF Pool!Minted, PoolProof!Minted, Pool!OthersUnchanged, PoolProof!OthersUnchanged,
         Pool!Owner, PoolProof!Owner, Pool!Stope, PoolProof!Stope, Pool!Settled,
         PoolProof!Settled, Pool!Pending, PoolProof!Pending, Pool!PendingFromIndex,
         PoolProof!PendingFromIndex, Pool!ScaledPending, PoolProof!ScaledPending,
         Pool!SaturatingSub, PoolProof!SaturatingSub, Pool!YieldKind, PoolProof!YieldKind,
         Pool!SharesFor, PoolProof!SharesFor, Pool!MulDivFloor, PoolProof!MulDivFloor,
         Pool!YieldBooksUnchanged, PoolProof!YieldBooksUnchanged, Pool!Redeemed,
         PoolProof!Redeemed, Pool!ClaimedYield, PoolProof!ClaimedYield, Pool!RedemptionValue,
         PoolProof!RedemptionValue, Pool!Booked, PoolProof!Booked, Pool!NextIndex,
         PoolProof!NextIndex, Pool!IndexDelta, PoolProof!IndexDelta
<1> QED
  BY <1>1, <1>2, <1>3, <1>4, <1>5, <1>6, <1>7

LEMMA SameSeams ==
    /\ Seams!Init = SeamsProof!Init
    /\ [Seams!Next]_(Seams!vars) = [SeamsProof!Next]_(SeamsProof!vars)
    /\ Seams!TypeOK = SeamsProof!TypeOK
    /\ Seams!RegistryInv = SeamsProof!RegistryInv
    /\ (Seams!RegistryInv)' = (SeamsProof!RegistryInv)'
    /\ \A f, s, kinds : Seams!RoutedBps(f, s, kinds) = SeamsProof!RoutedBps(f, s, kinds)
<1>1. \A f, n : Seams!Total(f, n) = SeamsProof!Total(f, n)
  BY Zenon DEF Seams!Total, SeamsProof!Total, Seams!PrefixSum, SeamsProof!PrefixSum
<1>2. \A S : Seams!Cardinality(S) = SeamsProof!Cardinality(S)
  BY Zenon DEF Seams!Cardinality, SeamsProof!Cardinality
<1>3. \A f, s, kinds : Seams!RoutedBps(f, s, kinds) = SeamsProof!RoutedBps(f, s, kinds)
  BY <1>1
     DEF Seams!RoutedBps, SeamsProof!RoutedBps, Seams!WeightsOf, SeamsProof!WeightsOf,
         Seams!IsSeamOf, SeamsProof!IsSeamOf, Seams!SeamId, SeamsProof!SeamId
<1>4. Seams!Init = SeamsProof!Init /\ (UNCHANGED Seams!vars <=> UNCHANGED SeamsProof!vars)
  BY <1>2, <1>3
     DEF Seams!Init, SeamsProof!Init, Seams!Decoded, SeamsProof!Decoded, Seams!YieldKind,
         SeamsProof!YieldKind, Seams!vars, SeamsProof!vars
<1>5. /\ \A id, s, d : Seams!RegisterSeam(id, s, d) = SeamsProof!RegisterSeam(id, s, d)
      /\ \A id, w : Seams!UpdateAllocation(id, w) = SeamsProof!UpdateAllocation(id, w)
      /\ \A id, n : Seams!SeamAccrues(id, n) = SeamsProof!SeamAccrues(id, n)
      /\ Seams!Tick = SeamsProof!Tick
      /\ Seams!Declarations = SeamsProof!Declarations
  BY DEF Seams!RegisterSeam, SeamsProof!RegisterSeam, Seams!CanReallocate,
         SeamsProof!CanReallocate, Seams!MAX_BPS, SeamsProof!MAX_BPS, Seams!Reallocated,
         SeamsProof!Reallocated, Seams!Moved, SeamsProof!Moved, Seams!SaturatingSub,
         SeamsProof!SaturatingSub, Seams!WithinCeilings, SeamsProof!WithinCeilings,
         Seams!MaxCounterpartyBps, SeamsProof!MaxCounterpartyBps, Seams!MaxEmissionsBps,
         SeamsProof!MaxEmissionsBps, Seams!MAX_RISK_TIER, SeamsProof!MAX_RISK_TIER,
         Seams!MIN_RISK_TIER, SeamsProof!MIN_RISK_TIER, Seams!MaxRiskTier,
         SeamsProof!MaxRiskTier, Seams!ValidEmissionFields, SeamsProof!ValidEmissionFields,
         Seams!UpdateAllocation, SeamsProof!UpdateAllocation, Seams!AccrualWindowOpen,
         SeamsProof!AccrualWindowOpen, Seams!SeamAccrues, SeamsProof!SeamAccrues, Seams!Fits64,
         SeamsProof!Fits64, Seams!U64, SeamsProof!U64, Seams!Tick, SeamsProof!Tick,
         Seams!Declarations, SeamsProof!Declarations, Seams!YieldKind, SeamsProof!YieldKind
<1>6. Seams!Next = SeamsProof!Next
  BY <1>5, Zenon DEF Seams!Next, SeamsProof!Next, Seams!SeamId, SeamsProof!SeamId,
         Seams!U64, SeamsProof!U64
<1>7. Seams!TypeOK = SeamsProof!TypeOK
  BY DEF Seams!TypeOK, SeamsProof!TypeOK, Seams!MAX_BPS, SeamsProof!MAX_BPS, Seams!SeamId,
         SeamsProof!SeamId, Seams!SeamRecord, SeamsProof!SeamRecord, Seams!MAX_RISK_TIER,
         SeamsProof!MAX_RISK_TIER, Seams!MIN_RISK_TIER, SeamsProof!MIN_RISK_TIER, Seams!U64,
         SeamsProof!U64, Seams!YieldKind, SeamsProof!YieldKind
<1>8. \A s : Seams!UncountedBps(s) = SeamsProof!UncountedBps(s)
  BY <1>3 DEF Seams!UncountedBps, SeamsProof!UncountedBps
<1>9. /\ Seams!SeamsTyped = SeamsProof!SeamsTyped
      /\ (Seams!SeamsTyped)' = (SeamsProof!SeamsTyped)'
      /\ Seams!RoutingTyped = SeamsProof!RoutingTyped
      /\ (Seams!RoutingTyped)' = (SeamsProof!RoutingTyped)'
      /\ Seams!TiersAdmitted = SeamsProof!TiersAdmitted
      /\ (Seams!TiersAdmitted)' = (SeamsProof!TiersAdmitted)'
  BY DEF Seams!SeamsTyped, SeamsProof!SeamsTyped, Seams!SeamId, SeamsProof!SeamId,
         Seams!SeamRecord, SeamsProof!SeamRecord, Seams!MAX_BPS, SeamsProof!MAX_BPS,
         Seams!MAX_RISK_TIER, SeamsProof!MAX_RISK_TIER, Seams!MIN_RISK_TIER,
         SeamsProof!MIN_RISK_TIER, Seams!U64, SeamsProof!U64, Seams!YieldKind,
         SeamsProof!YieldKind, Seams!RoutingTyped, SeamsProof!RoutingTyped,
         Seams!TiersAdmitted, SeamsProof!TiersAdmitted,
         Seams!MaxRiskTier, SeamsProof!MaxRiskTier
<1>10. /\ Seams!SeamsCounted = SeamsProof!SeamsCounted
      /\ (Seams!SeamsCounted)' = (SeamsProof!SeamsCounted)'
  BY <1>2, Zenon DEF Seams!SeamsCounted, SeamsProof!SeamsCounted
<1>11. /\ Seams!TotalsMatchSeams = SeamsProof!TotalsMatchSeams
      /\ (Seams!TotalsMatchSeams)' = (SeamsProof!TotalsMatchSeams)'
  BY <1>3, <1>8, Zenon DEF Seams!TotalsMatchSeams, SeamsProof!TotalsMatchSeams,
         Seams!YieldKind, SeamsProof!YieldKind
<1>12. (\A s \in Stope : Seams!WithinCeilings(s, allocation[s]))
      = (\A s \in Stope : SeamsProof!WithinCeilings(s, allocation[s]))
  BY DEF Seams!WithinCeilings, SeamsProof!WithinCeilings, Seams!MAX_BPS, SeamsProof!MAX_BPS,
         Seams!MaxCounterpartyBps, SeamsProof!MaxCounterpartyBps, Seams!MaxEmissionsBps,
         SeamsProof!MaxEmissionsBps
<1>13. Seams!RegistryInv = SeamsProof!RegistryInv
  BY <1>9, <1>10, <1>11, <1>12, Zenon DEF Seams!RegistryInv, SeamsProof!RegistryInv
<1>14. (Seams!RegistryInv)' = (SeamsProof!RegistryInv)'
  BY <1>9, <1>10, <1>11
     DEF Seams!RegistryInv, SeamsProof!RegistryInv, Seams!WithinCeilings,
         SeamsProof!WithinCeilings, Seams!MAX_BPS, SeamsProof!MAX_BPS, Seams!MaxCounterpartyBps,
         SeamsProof!MaxCounterpartyBps, Seams!MaxEmissionsBps, SeamsProof!MaxEmissionsBps
<1> QED
  BY <1>1, <1>2, <1>3, <1>4, <1>5, <1>6, <1>7, <1>8, <1>9, <1>10, <1>11, <1>12, <1>13, <1>14

LEMMA SameKeepers ==
    /\ Keepers!Init = KeepersProof!Init
    /\ [Keepers!Next]_(Keepers!vars) = [KeepersProof!Next]_(KeepersProof!vars)
    /\ Keepers!TypeOK = KeepersProof!TypeOK
    /\ Keepers!BondInv = KeepersProof!BondInv
    /\ \A k, n : Keepers!Bond(k, n) = KeepersProof!Bond(k, n)
    /\ \A k, n : Keepers!Unbond(k, n) = KeepersProof!Unbond(k, n)
    /\ \A k, n : Keepers!Slash(k, n) = KeepersProof!Slash(k, n)
    /\ \A k : Keepers!Rebalance(k) = KeepersProof!Rebalance(k)
    /\ Keepers!Tick = KeepersProof!Tick
    /\ \A k, b, n : Keepers!Rebonds(k, b, n) = KeepersProof!Rebonds(k, b, n)
    /\ \A b : Keepers!ShouldBeActive(b) = KeepersProof!ShouldBeActive(b)
<1>1. Keepers!Init = KeepersProof!Init /\ (UNCHANGED Keepers!vars <=> UNCHANGED KeepersProof!vars)
  BY DEF Keepers!Init, KeepersProof!Init, Keepers!Keeper, KeepersProof!Keeper,
         Keepers!NewKeeper, KeepersProof!NewKeeper, Keepers!vars, KeepersProof!vars
<1>2. /\ \A k, n : Keepers!Bond(k, n) = KeepersProof!Bond(k, n)
      /\ \A k, n : Keepers!Unbond(k, n) = KeepersProof!Unbond(k, n)
      /\ \A k, n : Keepers!Slash(k, n) = KeepersProof!Slash(k, n)
      /\ \A k : Keepers!Rebalance(k) = KeepersProof!Rebalance(k)
      /\ Keepers!Tick = KeepersProof!Tick
      /\ \A k, n : Keepers!SendToBondVault(k, n) = KeepersProof!SendToBondVault(k, n)
      /\ \A k, n : Keepers!SpendTreasury(k, n) = KeepersProof!SpendTreasury(k, n)
  BY DEF Keepers!Bond, KeepersProof!Bond, Keepers!Fits64, KeepersProof!Fits64, Keepers!U64,
         KeepersProof!U64, Keepers!SetBond, KeepersProof!SetBond, Keepers!RefreshedCount,
         KeepersProof!RefreshedCount, Keepers!SaturatingSub, KeepersProof!SaturatingSub,
         Keepers!ShouldBeActive, KeepersProof!ShouldBeActive, Keepers!Unbond,
         KeepersProof!Unbond, Keepers!Slash, KeepersProof!Slash, Keepers!CanSlash,
         KeepersProof!CanSlash, Keepers!Rebalance, KeepersProof!Rebalance, Keepers!CooldownEnd,
         KeepersProof!CooldownEnd, Keepers!FitsI64, KeepersProof!FitsI64, Keepers!I64Max,
         KeepersProof!I64Max, Keepers!Tick, KeepersProof!Tick, Keepers!SendToBondVault,
         KeepersProof!SendToBondVault, Keepers!SpendTreasury, KeepersProof!SpendTreasury
<1>3. /\ \A k, b, n : Keepers!Rebonds(k, b, n) = KeepersProof!Rebonds(k, b, n)
      /\ \A b : Keepers!ShouldBeActive(b) = KeepersProof!ShouldBeActive(b)
  BY DEF Keepers!Rebonds, KeepersProof!Rebonds, Keepers!SetBond, KeepersProof!SetBond,
         Keepers!RefreshedCount, KeepersProof!RefreshedCount, Keepers!SaturatingSub,
         KeepersProof!SaturatingSub, Keepers!ShouldBeActive, KeepersProof!ShouldBeActive,
         Keepers!U64, KeepersProof!U64
<1>4. Keepers!Next = KeepersProof!Next
  BY <1>2, Zenon DEF Keepers!Next, KeepersProof!Next, Keepers!Keeper, KeepersProof!Keeper
<1>5. \A f, n : Keepers!Total(f, n) = KeepersProof!Total(f, n)
  BY Zenon DEF Keepers!Total, KeepersProof!Total, Keepers!PrefixSum, KeepersProof!PrefixSum
<1>6. \A S : Keepers!Cardinality(S) = KeepersProof!Cardinality(S)
  BY Zenon DEF Keepers!Cardinality, KeepersProof!Cardinality
<1>7. Keepers!TypeOK = KeepersProof!TypeOK
  BY DEF Keepers!TypeOK, KeepersProof!TypeOK, Keepers!I64Max, KeepersProof!I64Max,
         Keepers!Keeper, KeepersProof!Keeper, Keepers!U64, KeepersProof!U64
<1>8. Keepers!BondInv = KeepersProof!BondInv
  BY <1>5, <1>6
     DEF Keepers!BondInv, KeepersProof!BondInv, Keepers!BalancesTyped,
         KeepersProof!BalancesTyped, Keepers!Keeper, KeepersProof!Keeper,
         Keepers!CooldownIsCurrent, KeepersProof!CooldownIsCurrent, Keepers!HasRebalanced,
         KeepersProof!HasRebalanced, Keepers!CountMatchesActiveKeepers,
         KeepersProof!CountMatchesActiveKeepers, Keepers!KeeperRecord,
         KeepersProof!KeeperRecord, Keepers!I64Max, KeepersProof!I64Max, Keepers!U64,
         KeepersProof!U64, Keepers!BondsCovered, KeepersProof!BondsCovered,
         Keepers!TotalBonded, KeepersProof!TotalBonded
<1> QED
  BY <1>1, <1>2, <1>3, <1>4, <1>5, <1>6, <1>7, <1>8

LEMMA SameQueue ==
    /\ Queue!Init = QueueProof!Init
    /\ [Queue!Next]_(Queue!vars) = [QueueProof!Next]_(QueueProof!vars)
    /\ Queue!TypeOK = QueueProof!TypeOK
    /\ (Queue!TypeOK)' = (QueueProof!TypeOK)'
    /\ \A o, s, t : Queue!Issue(o, s, t) = QueueProof!Issue(o, s, t)
    /\ \A a : Queue!Settle(a) = QueueProof!Settle(a)
    /\ Queue!Tick = QueueProof!Tick
    /\ \A o, s, t : Queue!Issued(o, s, t) = QueueProof!Issued(o, s, t)
    /\ \A a : Queue!Claimed(a) = QueueProof!Claimed(a)
<1>1. Queue!Init = QueueProof!Init /\ (UNCHANGED Queue!vars <=> UNCHANGED QueueProof!vars)
  BY DEF Queue!Init, QueueProof!Init, Queue!EmptyQueue, QueueProof!EmptyQueue, Queue!vars,
         QueueProof!vars
<1>2. /\ \A o, s, t : Queue!Issue(o, s, t) = QueueProof!Issue(o, s, t)
      /\ \A a : Queue!Settle(a) = QueueProof!Settle(a)
      /\ Queue!Tick = QueueProof!Tick
  BY DEF Queue!Issue, QueueProof!Issue, Queue!DelayFits, QueueProof!DelayFits,
         Queue!Congestion, QueueProof!Congestion, Queue!QueueDelaySec,
         QueueProof!QueueDelaySec, Queue!FitsI64, QueueProof!FitsI64, Queue!I64Max,
         QueueProof!I64Max, Queue!TotalDelay, QueueProof!TotalDelay, Queue!AtMost,
         QueueProof!AtMost, Queue!Enqueued, QueueProof!Enqueued, Queue!Fits64,
         QueueProof!Fits64, Queue!U64, QueueProof!U64, Queue!RoomForTicket,
         QueueProof!RoomForTicket, Queue!TicketAddress, QueueProof!TicketAddress, Queue!Settle,
         QueueProof!Settle, Queue!Claimed, QueueProof!Claimed, Queue!Dequeued,
         QueueProof!Dequeued, Queue!SaturatingSub, QueueProof!SaturatingSub,
         Queue!IsClaimableAt, QueueProof!IsClaimableAt, Queue!Tick, QueueProof!Tick,
         Queue!BacklogFits, QueueProof!BacklogFits, Queue!LifetimeCountersFit,
         QueueProof!LifetimeCountersFit
<1>3. /\ \A o, s, t : Queue!Issued(o, s, t) = QueueProof!Issued(o, s, t)
      /\ \A a : Queue!Claimed(a) = QueueProof!Claimed(a)
  BY DEF Queue!Issued, QueueProof!Issued, Queue!IssuedTicket, QueueProof!IssuedTicket,
         Queue!TotalDelay, QueueProof!TotalDelay, Queue!AtMost, QueueProof!AtMost,
         Queue!Congestion, QueueProof!Congestion, Queue!QueueDelaySec,
         QueueProof!QueueDelaySec, Queue!TicketAddress, QueueProof!TicketAddress,
         Queue!Claimed, QueueProof!Claimed
<1>4. Queue!Next = QueueProof!Next
  BY <1>2, Zenon DEF Queue!Next, QueueProof!Next
<1>5. Queue!TypeOK = QueueProof!TypeOK /\ (Queue!TypeOK)' = (QueueProof!TypeOK)'
  BY DEF Queue!TypeOK, QueueProof!TypeOK, Queue!Address, QueueProof!Address,
         Queue!TicketAddress, QueueProof!TicketAddress, Queue!TicketRecord,
         QueueProof!TicketRecord, Queue!Claimed, QueueProof!Claimed, Queue!I64Max,
         QueueProof!I64Max, Queue!U64, QueueProof!U64
<1> QED
  BY <1>1, <1>2, <1>3, <1>4, <1>5

LEMMA SameAdmin ==
    /\ Admin!Init = AdminProof!Init
    /\ [Admin!Next]_(Admin!vars) = [AdminProof!Next]_(AdminProof!vars)
    /\ Admin!TypeOK = AdminProof!TypeOK
<1>1. Admin!Init = AdminProof!Init /\ (UNCHANGED Admin!vars <=> UNCHANGED AdminProof!vars)
  BY DEF Admin!Init, AdminProof!Init, Admin!NoParams, AdminProof!NoParams, Admin!vars,
         AdminProof!vars
<1>2. /\ \A k, p : Admin!InitializeVault(k, p) = AdminProof!InitializeVault(k, p)
      /\ \A k : Admin!InitializeBondVault(k) = AdminProof!InitializeBondVault(k)
      /\ \A k, id, r : Admin!OpenStope(k, id, r) = AdminProof!OpenStope(k, id, r)
      /\ \A k : Admin!PauseVault(k) = AdminProof!PauseVault(k)
      /\ \A k : Admin!UnpauseVault(k) = AdminProof!UnpauseVault(k)
      /\ \A k, n : Admin!ProposeAuthority(k, n) = AdminProof!ProposeAuthority(k, n)
      /\ \A k : Admin!AcceptAuthority(k) = AdminProof!AcceptAuthority(k)
  BY DEF Admin!InitializeVault, AdminProof!InitializeVault, Admin!Valid, AdminProof!Valid,
         Admin!InitializeBondVault, AdminProof!InitializeBondVault, Admin!SignedByAuthority,
         AdminProof!SignedByAuthority, Admin!setup, AdminProof!setup, Admin!OpenStope,
         AdminProof!OpenStope, Admin!CanonicalProfile, AdminProof!CanonicalProfile,
         Admin!STOPE_COUNT, AdminProof!STOPE_COUNT, Admin!PauseVault, AdminProof!PauseVault,
         Admin!SetPause, AdminProof!SetPause, Admin!UnpauseVault, AdminProof!UnpauseVault,
         Admin!ProposeAuthority, AdminProof!ProposeAuthority, Admin!AcceptAuthority,
         AdminProof!AcceptAuthority, Admin!MayAccept, AdminProof!MayAccept
<1>3. Admin!Next = AdminProof!Next
  BY <1>2, Zenon
     DEF Admin!Next, AdminProof!Next, Admin!Key, AdminProof!Key,
         Admin!STOPE_COUNT, AdminProof!STOPE_COUNT
<1>4. Admin!TypeOK = AdminProof!TypeOK
  BY DEF Admin!TypeOK, AdminProof!TypeOK, Admin!Key, AdminProof!Key, Admin!NoParams,
         AdminProof!NoParams, Admin!STOPE_COUNT, AdminProof!STOPE_COUNT
<1> QED
  BY <1>1, <1>2, <1>3, <1>4

-----------------------------------------------------------------------------
(***************************************************************************)
(* What the components assume of their parameters holds of the program's:  *)
(* the supplies are u64, no seam is older than the program, and the terms  *)
(* of a ticket are u64 amounts.                                            *)
(***************************************************************************)
LEMMA CustodyAssumed == CustodyProof!CustodyAssumption
BY AssetsAssumption DEF CustodyProof!CustodyAssumption, Custody!CustodyAssumption,
                        CustodyProof!U64, Custody!U64

LEMMA SeamsAssumed ==
    /\ DOMAIN <<>> = {}
    /\ \A s \in Stope : \A kinds : SeamsProof!RoutedBps(<<>>, s, kinds) = 0
    /\ \A s \in Stope : SeamsProof!MaxEmissionsBps(s) \in Nat
    /\ SeamsProof!MAX_BPS \in Nat
<1>1. SeamsProof!MAX_BPS \in Nat
  BY MathAssumption DEF SeamsProof!MAX_BPS
<1>2. \A s \in Stope : SeamsProof!MaxEmissionsBps(s) \in Nat
  BY VaultAssumption DEF SeamsProof!MaxEmissionsBps, Stope
<1>3. \A f, s, kinds : SeamsProof!RoutedBps(f, s, kinds) = Seams!RoutedBps(f, s, kinds)
  BY SameSeams
<1> QED
  BY <1>1, <1>2, <1>3, NoLegacy, Zenon

LEMMA TermsTyped ==
    \A t \in TicketTerms : /\ t.normalized_amount \in QueueProof!U64
                           /\ t.fee_normalized \in QueueProof!U64
                           /\ t.payout_amount \in QueueProof!U64
BY DEF TicketTerms, U64, QueueProof!U64

(***************************************************************************)
(* What Proved says of each component is proved in the module of its       *)
(* proofs.                                                                 *)
(***************************************************************************)
LEMMA CustodyIsProved == CustodyProved
<1>1. CustodyProof!Init => CustodyProof!CustodyInv
  BY MathAssumption, VaultAssumption, CustodyAssumed, CustodyProof!InitCustody
<1>2. CustodyProof!CustodyInv /\ [CustodyProof!Next]_(CustodyProof!vars)
            => CustodyProof!CustodyInv'
  BY MathAssumption, VaultAssumption, CustodyAssumed, CustodyProof!NextCustody
<1>3. CustodyProof!TypeOK /\ CustodyProof!RatiosPinned /\ [CustodyProof!Next]_(CustodyProof!vars)
            => CustodyProof!RatiosPinned'
  BY MathAssumption, VaultAssumption, CustodyProof!NextRatiosPinned
<1> QED
  BY <1>1, <1>2, <1>3, SameCustody, Zenon DEF CustodyProved

LEMMA PoolIsProved == PoolProved
<1>1. /\ Stope = PoolProof!Stope /\ Owner = PoolProof!Owner /\ U64 = PoolProof!U64
      /\ YieldKind = PoolProof!YieldKind
  BY DEF Stope, PoolProof!Stope, Owner, PoolProof!Owner, U64, PoolProof!U64, YieldKind,
         PoolProof!YieldKind
<1>2. PoolProof!Init => PoolProof!TypeOK
  BY MathAssumption, VaultAssumption, PoolProof!InitTypeOK
     DEF PoolProof!YieldKind, YieldKind
<1>3. PoolProof!TypeOK /\ [PoolProof!Next]_(PoolProof!vars) => PoolProof!TypeOK'
  BY MathAssumption, VaultAssumption, PoolProof!NextTypeOK
     DEF PoolProof!YieldKind, YieldKind
<1>4. ASSUME Pool!TypeOK, NEW s \in Stope, NEW n \in U64, NEW o \in Owner
      PROVE  /\ Pool!MintShares(o, s, n) => Pool!Minted(o, s, n)
             /\ Pool!BurnShares(o, s, n) => Pool!Redeemed(o, s, n)
  <2>1. /\ PoolProof!TypeOK /\ o \in PoolProof!Owner
        /\ s \in PoolProof!Stope /\ n \in PoolProof!U64
    BY <1>1, <1>4, SamePool
  <2>2. /\ PoolProof!MintShares(o, s, n) => PoolProof!Minted(o, s, n)
        /\ PoolProof!BurnShares(o, s, n) => PoolProof!Redeemed(o, s, n)
    BY <2>1, MathAssumption, VaultAssumption, PoolProof!MintEffect, PoolProof!BurnEffect
       DEF PoolProof!YieldKind, YieldKind
  <2> QED
    BY <2>2, SamePool
<1>5. ASSUME Pool!TypeOK, NEW s \in Stope, NEW n \in U64, NEW kind \in YieldKind
      PROVE  Pool!BookYield(s, kind, n) => Pool!Booked(s, kind, n)
  <2>1. /\ PoolProof!TypeOK /\ kind \in PoolProof!YieldKind
        /\ s \in PoolProof!Stope /\ n \in PoolProof!U64
    BY <1>1, <1>5, SamePool
  <2>2. PoolProof!BookYield(s, kind, n) => PoolProof!Booked(s, kind, n)
    BY <2>1, MathAssumption, VaultAssumption, PoolProof!BookEffect
       DEF PoolProof!YieldKind, YieldKind
  <2> QED
    BY <2>2, SamePool
<1>6. ASSUME Pool!PoolInv, NEW o \in Owner, NEW s \in Stope, NEW n \in U64 \ {0},
             Pool!BurnShares(o, s, n)
      PROVE  /\ Pool!RedemptionValue(s, n) <= stope[s].total_deposits
             /\ stope'[s].total_shares = stope[s].total_shares - n
             /\ stope'[s].total_deposits
                    = stope[s].total_deposits - Pool!RedemptionValue(s, n)
             /\ miner'[s][o].shares = miner[s][o].shares - n
  <2>1. /\ PoolProof!PoolInv /\ o \in PoolProof!Owner /\ s \in PoolProof!Stope
        /\ n \in PoolProof!U64 \ {0} /\ PoolProof!BurnShares(o, s, n)
    BY <1>1, <1>6, SamePool
  <2>2. /\ PoolProof!RedemptionValue(s, n) <= stope[s].total_deposits
        /\ stope'[s].total_shares = stope[s].total_shares - n
        /\ stope'[s].total_deposits
                = stope[s].total_deposits - PoolProof!RedemptionValue(s, n)
        /\ miner'[s][o].shares = miner[s][o].shares - n
    BY <2>1, MathAssumption, VaultAssumption, PoolProof!BurnIsExact
       DEF PoolProof!YieldKind, YieldKind
  <2>3. PoolProof!RedemptionValue(s, n) = Pool!RedemptionValue(s, n)
    BY SamePool
  <2> QED
    BY <2>2, <2>3
<1>7. Pool!Init => Pool!TypeOK
  BY <1>2, SamePool, Zenon
<1>8. Pool!TypeOK /\ [Pool!Next]_(Pool!vars) => Pool!TypeOK'
  BY <1>3, SamePool, Zenon
<1> QED
  BY <1>4, <1>5, <1>6, <1>7, <1>8 DEF PoolProved

LEMMA SeamsAreProved == SeamsProved
<1>1. SeamsProof!Init => SeamsProof!RegistryInv
  BY MathAssumption, VaultAssumption, SeamsProof!InitInv, SeamsAssumed DEF Stope
<1>2. SeamsProof!RegistryInv /\ [SeamsProof!Next]_(SeamsProof!vars)
            => SeamsProof!RegistryInv'
  BY MathAssumption, VaultAssumption, SeamsProof!NextInv, SeamsAssumed DEF Stope
<1>3. SeamsProof!RegistryInv =>
            \A id \in DOMAIN seam : seam[id].yield_kind = "Counterparty" =>
                seam[id].allocation_bps <= allocation[seam[id].stope_id].counterparty_bps
  BY MathAssumption, VaultAssumption, SeamsProof!WeightIsCounted, SeamsAssumed DEF Stope
<1> QED
  BY <1>1, <1>2, <1>3, SameSeams DEF SeamsProved

LEMMA KeepersAreProved == KeepersProved
<1> SUFFICES ASSUME Keepers!BondInv, NEW k \in Keeper
             PROVE
             /\ \A n \in 1..InitialLodz :
                /\ Keepers!Bond(k, n) =>
                        Keepers!Rebonds(k, keeper[k].bonded_amount + n,
                                        keeper[k].slashed_amount)
                /\ Keepers!Unbond(k, n) =>
                        Keepers!Rebonds(k, keeper[k].bonded_amount - n,
                                        keeper[k].slashed_amount)
                /\ Keepers!Slash(k, n) =>
                        Keepers!Rebonds(k, keeper[k].bonded_amount - n,
                                        keeper[k].slashed_amount + n)
             /\ \A bonded, slashed : Keepers!Rebonds(k, bonded, slashed) =>
                /\ keeper'[k].bonded_amount = bonded
                /\ keeper'[k].slashed_amount = slashed
                /\ keeper'[k].active = Keepers!ShouldBeActive(bonded)
                /\ keeper'[k].last_rebalance_at = keeper[k].last_rebalance_at
                /\ \A j \in Keeper : j # k => keeper'[j] = keeper[j]
             /\ Keepers!Rebalance(k) =>
                /\ keeper'[k].last_rebalance_at = now
                /\ \A j \in Keeper :
                    /\ keeper'[j].bonded_amount = keeper[j].bonded_amount
                    /\ keeper'[j].slashed_amount = keeper[j].slashed_amount
                    /\ keeper'[j].active = keeper[j].active
                    /\ j # k => keeper'[j] = keeper[j]
  BY DEF KeepersProved
<1>1. /\ Keeper = KeepersProof!Keeper /\ k \in KeepersProof!Keeper /\ KeepersProof!BondInv
      /\ keeper \in [KeepersProof!Keeper -> KeepersProof!KeeperRecord]
  <2>1. KeepersProof!BondInv
    BY SameKeepers
  <2> QED
    BY <2>1 DEF Keeper, KeepersProof!Keeper, KeepersProof!BondInv
<1>2. ASSUME NEW n \in 1..InitialLodz
      PROVE  /\ Keepers!Bond(k, n) =>
                    Keepers!Rebonds(k, keeper[k].bonded_amount + n,
                                    keeper[k].slashed_amount)
             /\ Keepers!Unbond(k, n) =>
                    Keepers!Rebonds(k, keeper[k].bonded_amount - n,
                                    keeper[k].slashed_amount)
             /\ Keepers!Slash(k, n) =>
                    Keepers!Rebonds(k, keeper[k].bonded_amount - n,
                                    keeper[k].slashed_amount + n)
  <2>1. /\ KeepersProof!Bond(k, n) =>
                KeepersProof!Rebonds(k, keeper[k].bonded_amount + n,
                                     keeper[k].slashed_amount)
        /\ KeepersProof!Unbond(k, n) =>
                KeepersProof!Rebonds(k, keeper[k].bonded_amount - n,
                                     keeper[k].slashed_amount)
        /\ KeepersProof!Slash(k, n) =>
                KeepersProof!Rebonds(k, keeper[k].bonded_amount - n,
                                     keeper[k].slashed_amount + n)
    BY <1>1, MathAssumption, VaultAssumption, KeepersProof!BondIsRebond,
       KeepersProof!UnbondIsRebond, KeepersProof!SlashIsRebond
  <2> QED
    BY <2>1, SameKeepers
<1>3. ASSUME NEW bonded, NEW slashed, Keepers!Rebonds(k, bonded, slashed)
      PROVE  /\ keeper'[k].bonded_amount = bonded
             /\ keeper'[k].slashed_amount = slashed
             /\ keeper'[k].active = Keepers!ShouldBeActive(bonded)
             /\ keeper'[k].last_rebalance_at = keeper[k].last_rebalance_at
             /\ \A j \in Keeper : j # k => keeper'[j] = keeper[j]
  <2>1. /\ KeepersProof!Rebonds(k, bonded, slashed)
        /\ Keepers!ShouldBeActive(bonded) = KeepersProof!ShouldBeActive(bonded)
    BY <1>3, SameKeepers
  <2>2. /\ keeper'[k].bonded_amount = bonded
        /\ keeper'[k].slashed_amount = slashed
        /\ keeper'[k].active = KeepersProof!ShouldBeActive(bonded)
        /\ keeper'[k].last_rebalance_at = keeper[k].last_rebalance_at
        /\ \A j \in KeepersProof!Keeper : j # k => keeper'[j] = keeper[j]
    BY <1>1, <2>1, MathAssumption, VaultAssumption, KeepersProof!RebondedKeeper
  <2> QED
    BY <1>1, <2>1, <2>2
<1>4. ASSUME Keepers!Rebalance(k)
      PROVE  /\ keeper'[k].last_rebalance_at = now
             /\ \A j \in Keeper :
                    /\ keeper'[j].bonded_amount = keeper[j].bonded_amount
                    /\ keeper'[j].slashed_amount = keeper[j].slashed_amount
                    /\ keeper'[j].active = keeper[j].active
                    /\ j # k => keeper'[j] = keeper[j]
  <2>1. KeepersProof!Rebalance(k)
    BY <1>4, SameKeepers
  <2> QED
    BY <1>1, <2>1, MathAssumption, VaultAssumption, KeepersProof!RebalancedKeepers
<1> QED
  BY <1>2, <1>3, <1>4

LEMMA QueueIsProved == QueueProved
<1>1. QueueProof!Init => QueueProof!TypeOK
  BY MathAssumption, VaultAssumption, QueueProof!InitTypeOK, TermsTyped
     DEF I64Max, QueueProof!I64Max
<1>2. QueueProof!TypeOK /\ [QueueProof!Next]_(QueueProof!vars) => QueueProof!TypeOK'
  BY MathAssumption, VaultAssumption, QueueProof!NextTypeOK, TermsTyped
     DEF I64Max, QueueProof!I64Max
<1>3. \A o \in Owner, s \in Stope, terms \in TicketTerms :
            QueueProof!Issue(o, s, terms) => QueueProof!Issued(o, s, terms)
  BY MathAssumption, VaultAssumption, QueueProof!IssueEffect, TermsTyped
     DEF I64Max, QueueProof!I64Max, Owner, Stope
<1>4. QueueProof!TypeOK =>
            \A x \in DOMAIN ticket : QueueProof!Settle(x) => QueueProof!Claimed(x)
  BY MathAssumption, VaultAssumption, QueueProof!SettleEffect, TermsTyped
     DEF I64Max, QueueProof!I64Max
<1> QED
  BY <1>1, <1>2, <1>3, <1>4, SameQueue, Zenon DEF QueueProved

LEMMA ComponentsProved == Proved
BY CustodyIsProved, PoolIsProved, SeamsAreProved, KeepersAreProved, QueueIsProved
   DEF Proved

(***************************************************************************)
(* The queue's books say of a queued ticket what the ledger needs of it.   *)
(***************************************************************************)
LEMMA BooksGiveTicketBooks == QueueProof!BooksInv => TicketBooks
<1> SUFFICES ASSUME QueueProof!BooksInv PROVE TicketBooks
  OBVIOUS
<1>1. IsFiniteSet(DOMAIN ticket)
  <2>1. QueueProof!IsFiniteSet(DOMAIN ticket)
    BY DEF QueueProof!BooksInv, QueueProof!OrderInv
  <2> QED
    BY <2>1, Zenon DEF IsFiniteSet, QueueProof!IsFiniteSet
<1>2. ASSUME NEW x \in DOMAIN ticket, ticket[x].status = "Queued"
      PROVE  ticket[x].terms.normalized_amount <= queue[ticket[x].stope_id].total_pending
  BY <1>2, MathAssumption, VaultAssumption, TermsTyped, QueueProof!PendingCoversTicket
     DEF I64Max, QueueProof!I64Max
<1>3. ASSUME NEW x \in DOMAIN ticket, ticket[x].status = "Queued",
             \A y \in DOMAIN ticket :
                ticket[y].terms.fee_normalized <= ticket[y].terms.normalized_amount
      PROVE  LET s == ticket[x].stope_id
             IN  /\ queue[s].head + 1 <= queue[s].tail
                 /\ reserve[s].total_redeemed = queue[s].total_claimed
                 /\ queue[s].total_fees <= queue[s].total_claimed
                 /\ position[s][ticket[x].owner].withdrawn <= queue[s].total_claimed
  BY <1>3, MathAssumption, VaultAssumption, TermsTyped, QueueProof!CountersWithinClaims
     DEF I64Max, QueueProof!I64Max
<1> QED
  BY <1>1, <1>2, <1>3, Zenon DEF TicketBooks

-----------------------------------------------------------------------------
LEMMA VaultInvariant == Spec => []VaultInv
<1>1. Init => VaultInv
  BY ComponentsProved, InitVaultInv
<1>2. VaultInv /\ [Next]_vars => VaultInv'
  BY ComponentsProved, NextAdvances, AdvanceKeepsInv
<1> QED
  BY <1>1, <1>2, PTL DEF Spec

(***************************************************************************)
(* Every run of the program is a run of each of its components, so what is *)
(* proved of a component on its own holds in the program.                  *)
(***************************************************************************)
ComponentSpecs ==
    /\ AdminProof!Spec
    /\ CustodyProof!Spec
    /\ PoolProof!Spec
    /\ SeamsProof!Spec
    /\ KeepersProof!Spec
    /\ QueueProof!Spec

THEOREM ProgramRunsComponents == Spec => ComponentSpecs
<1>1. Spec => []VaultInv
  BY VaultInvariant
<1>2. Init => /\ AdminProof!Init /\ CustodyProof!Init /\ PoolProof!Init
              /\ SeamsProof!Init /\ KeepersProof!Init /\ QueueProof!Init
  BY SameAdmin, SameCustody, SamePool, SameSeams, SameKeepers, SameQueue, Zenon DEF Init
<1>3. VaultInv /\ [Next]_vars => /\ [AdminProof!Next]_(AdminProof!vars)
                                 /\ [CustodyProof!Next]_(CustodyProof!vars)
                                 /\ [PoolProof!Next]_(PoolProof!vars)
                                 /\ [SeamsProof!Next]_(SeamsProof!vars)
                                 /\ [KeepersProof!Next]_(KeepersProof!vars)
                                 /\ [QueueProof!Next]_(QueueProof!vars)
  BY NextAdvances, SameAdmin, SameCustody, SamePool, SameSeams, SameKeepers, SameQueue,
     Zenon DEF Advance
<1> QED
  BY <1>1, <1>2, <1>3, PTL
     DEF Spec, ComponentSpecs, AdminProof!Spec, CustodyProof!Spec, PoolProof!Spec,
         SeamsProof!Spec, KeepersProof!Spec, QueueProof!Spec

(***************************************************************************)
(* The types of the whole state are kept by every instruction.             *)
(***************************************************************************)
THEOREM ProgramTypeCorrect == Spec => []TypeOK
<1>1. AdminProof!Spec => []AdminProof!TypeOK
  BY MathAssumption, VaultAssumption, AdminProof!AdminTypeCorrect
     DEF InitialParams, I64Max, AdminProof!I64Max
<1>2. CustodyProof!Spec => []CustodyProof!TypeOK
  BY MathAssumption, VaultAssumption, CustodyProof!CustodyTypeCorrect, CustodyAssumed
<1>3. PoolProof!Spec => []PoolProof!TypeOK
  BY MathAssumption, VaultAssumption, PoolProof!TypeCorrect
     DEF PoolProof!YieldKind, YieldKind
<1>4. SeamsProof!Spec => []SeamsProof!TypeOK
  BY MathAssumption, VaultAssumption, SeamsProof!RegistryTypeCorrect, SeamsAssumed DEF Stope
<1>5. KeepersProof!Spec => []KeepersProof!TypeOK
  BY MathAssumption, VaultAssumption, KeepersProof!KeepersTypeCorrect
<1>6. QueueProof!Spec => []QueueProof!TypeOK
  BY MathAssumption, VaultAssumption, QueueProof!QueueTypeCorrect, TermsTyped
     DEF I64Max, QueueProof!I64Max
<1>7. (/\ AdminProof!TypeOK /\ CustodyProof!TypeOK /\ PoolProof!TypeOK
       /\ SeamsProof!TypeOK /\ KeepersProof!TypeOK /\ QueueProof!TypeOK) => TypeOK
  BY SameAdmin, SameCustody, SamePool, SameSeams, SameKeepers, SameQueue, Zenon
     DEF TypeOK
<1> QED
  BY <1>1, <1>2, <1>3, <1>4, <1>5, <1>6, <1>7, ProgramRunsComponents, PTL
     DEF ComponentSpecs

(***************************************************************************)
(* In the program too, no ticket is paid with units that the books of an   *)
(* asset claim for others.                                                 *)
(***************************************************************************)
THEOREM CustodyAlwaysCoversBooks == Spec => []BooksCoveredByCustody
<1>1. CustodyProof!Spec => []CustodyProof!BooksCoveredByCustody
  BY MathAssumption, VaultAssumption, CustodyProof!CustodyCoversBooks, CustodyAssumed
<1>2. CustodyProof!BooksCoveredByCustody => BooksCoveredByCustody
  BY DEF BooksCoveredByCustody, Custody!BooksCoveredByCustody,
         CustodyProof!BooksCoveredByCustody
<1> QED
  BY <1>1, <1>2, ProgramRunsComponents, PTL DEF ComponentSpecs

(***************************************************************************)
(* What a stope has booked of a kind is what its seams of that kind        *)
(* report, in every reachable state.                                       *)
(***************************************************************************)
THEOREM StopesAlwaysBookWhatSeamsReport == Spec => []StopesBookWhatSeamsReport
<1>1. Init => StopesBookWhatSeamsReport
  BY ComponentsProved, InitReports
<1>2. /\ VaultInv /\ VaultInv' /\ StopesBookWhatSeamsReport /\ [Next]_vars
            => StopesBookWhatSeamsReport'
  BY ComponentsProved, NextKeepsReports
<1> QED
  BY <1>1, <1>2, VaultInvariant, PTL DEF Spec

LEMMA LedgerInvariant == Spec => []LedgerInv
<1>1. PoolProof!Spec => []PoolProof!PoolInv
  BY MathAssumption, VaultAssumption, PoolProof!PoolInvariant
     DEF PoolProof!YieldKind, YieldKind
<1>2. QueueProof!Spec => []QueueProof!BooksInv
  BY MathAssumption, VaultAssumption, QueueProof!BooksInvariant, TermsTyped
     DEF I64Max, QueueProof!I64Max
<1>3. Spec => []VaultInv
  BY VaultInvariant
<1>4. Spec => [](VaultInv /\ PoolProof!PoolInv /\ QueueProof!BooksInv)
  BY <1>1, <1>2, <1>3, ProgramRunsComponents, PTL DEF ComponentSpecs
<1>5. VaultInv /\ PoolProof!PoolInv /\ QueueProof!BooksInv
            => VaultInv /\ Pool!PoolInv /\ TicketBooks
  BY SamePool, BooksGiveTicketBooks
<1>6. VaultInv /\ Pool!PoolInv /\ TicketBooks /\ VaultTotals /\ [Next]_vars => VaultTotals'
  BY ComponentsProved, NextLedger DEF LedgerInv, LedgerMoves
<1> QED
  BY <1>4, <1>5, <1>6, InitLedger, PTL DEF Spec, LedgerInv

(***************************************************************************)
(* Each instruction moves the books and the running totals alike, and by   *)
(* what VaultLedger allows.                                                *)
(***************************************************************************)
THEOREM ProgramImplementsLedger == Spec => ImplementsLedger
<1>1. LedgerInv /\ [Next]_vars => [Books!Next]_(Books!vars) /\ [Totals!Next]_(Totals!vars)
  BY ComponentsProved, NextLedger DEF LedgerMoves
<1> QED
  BY <1>1, InitLedger, LedgerInvariant, PTL DEF Spec, ImplementsLedger, Books!Spec, Totals!Spec

(***************************************************************************)
(* What was credited and not settled backs shares or is owed to queued     *)
(* tickets: no instruction loses or invents value.                         *)
(***************************************************************************)
THEOREM NothingIsLost == Spec => []Books!Conserved
<1>1. Books!Init => Books!TypeOK /\ Books!Conserved
  BY DEF Books!Init, Books!TypeOK, Books!Conserved
<1> QED
  BY <1>1, BooksConserve, ProgramImplementsLedger, PTL DEF ImplementsLedger, Books!Spec

(***************************************************************************)
(* The totals of the stopes and their queues hold all that was credited.   *)
(***************************************************************************)
THEOREM TotalsLoseNothing == Spec => []Totals!Conserved
<1>1. Totals!Init => Totals!TypeOK /\ Totals!Conserved
  BY DEF Totals!Init, Totals!TypeOK, Totals!Conserved
<1> QED
  BY <1>1, TotalsConserve, ProgramImplementsLedger, PTL DEF ImplementsLedger, Totals!Spec

LEMMA SolventInvariant == Spec => []SolventInv
<1>1. SolventInv /\ LedgerInv' /\ [Next]_vars => TicketsPriced' /\ Solvent'
  BY ComponentsProved, NextSolvent, NextPriced DEF SolventInv
<1> QED
  BY <1>1, InitSolvent, LedgerInvariant, PTL DEF Spec, SolventInv

(***************************************************************************)
(* The vault is solvent in every reachable state, for any assets, ratios,  *)
(* fee, stopes and owners: what it holds, at the registered ratios, covers *)
(* the principal of the stopes, the queued tickets and the fees kept,      *)
(* whatever was rounded on the way and whatever asset was redeemed.        *)
(***************************************************************************)
THEOREM VaultAlwaysSolvent == Spec => []Solvent
BY SolventInvariant, PTL DEF SolventInv

(***************************************************************************)
(* Every queued ticket of a vault with one asset, of a mint without a      *)
(* transfer fee, can be paid: the custody account covers it and no counter *)
(* of its claim overflows, whatever else happened.                         *)
(***************************************************************************)
THEOREM OneAssetAlwaysPaysTickets == Spec => []OneAssetAlwaysPays
<1>1. CustodyProof!Spec => []CustodyProof!FeelessWhole
  BY MathAssumption, VaultAssumption, CustodyProof!OnlyFeesAreWithheld, CustodyAssumed
<1>2. CustodyProof!FeelessWhole => Custody!FeelessWhole
  BY SameCustody
<1>3. SolventInv /\ Totals!Conserved /\ Custody!FeelessWhole => OneAssetAlwaysPays
  <2> SUFFICES ASSUME SolventInv, Totals!Conserved, Custody!FeelessWhole,
                      OneFeelessAsset, NEW x \in Queued
               PROVE  CanClaim(x)
    BY DEF OneAssetAlwaysPays
  <2>1. ticket[x].terms.payout_amount > 0
    BY DEF SolventInv, TicketsPriced, Priced, Queued
  <2>2. adit_vault[ticket[x].terms.asset_mint] >= ticket[x].terms.payout_amount
    BY SoleAssetCovers
  <2> QED
    BY <2>1, <2>2, SoleAssetCountersFit DEF CanClaim, Queue!LifetimeCountersFit,
                                           Queue!Fits64, Fits64, Queue!U64, U64
<1> QED
  BY <1>1, <1>2, <1>3, ProgramRunsComponents, SolventInvariant, TotalsLoseNothing, PTL
     DEF ComponentSpecs

LEMMA ReplayInvariant == Spec => []ReplayInv
<1>1. Spec => []LedgerInv
  BY LedgerInvariant
<1>2. KeepersProof!Spec => []KeepersProof!BondInv
  BY MathAssumption, VaultAssumption, KeepersProof!BondInvariant
<1>3. KeepersProof!BondInv => Keepers!BondInv
  BY SameKeepers
<1>4. Spec => []Keepers!BondInv
  BY <1>2, <1>3, ProgramRunsComponents, PTL DEF ComponentSpecs
<1>5. /\ LedgerInv /\ Keepers!BondInv /\ UnbornHasNoHeir /\ Replayed /\ [Next]_vars
            => Replayed' /\ UnbornHasNoHeir'
  BY ComponentsProved, NextReplayed, NextHasNoHeir DEF ReplayInv
<1> QED
  BY <1>1, <1>4, <1>5, InitReplayed, PTL DEF Spec, ReplayInv

(***************************************************************************)
(* Every instruction's event says enough: the reader that applies them     *)
(* one by one, and never reads an account, holds at every moment what the  *)
(* accounts hold, and total_deposited is among the values it allows for.   *)
(***************************************************************************)
THEOREM LogReplaysAccounts == Spec => []ReplayMatchesAccounts
<1>1. ReplayInv => ReplayMatchesAccounts
  BY DEF ReplayInv, Replayed, CustodyViewed, ReplayMatchesAccounts
<1> QED
  BY <1>1, ReplayInvariant, PTL
=============================================================================
