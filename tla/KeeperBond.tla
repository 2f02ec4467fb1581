----------------------------- MODULE KeeperBond -----------------------------
(***************************************************************************)
(* Keepers and their bond (state/keeper.rs, instructions/keeper.rs and     *)
(* slash_keeper): $LODZ moves between keepers, the bond vault and the      *)
(* treasury, a keeper is active while its bond reaches the minimum, and a  *)
(* rebalance locks the bond for a cooldown.                                *)
(*                                                                         *)
(* Left out: the counters rebalance_count and slash_count, which nothing   *)
(* reads.  The token balances are the token program's, of a mint that      *)
(* charges no transfer fee.  Other people's $LODZ is left out too: what a  *)
(* keeper gets from outside, it gets from the treasury.                    *)
(***************************************************************************)
EXTENDS LodzMath, FiniteSets

CONSTANTS
    NumKeepers,                     \* how many keeper authorities there are
    min_keeper_bond,                \* VaultConfig, fixed by initialize_vault
    keeper_unbond_cooldown_sec,
    InitialLodz,                    \* $LODZ each keeper starts with
    MaxTime                         \* bound on the clock

Keeper == 1..NumKeepers

ASSUME BondAssumption ==
    /\ NumKeepers \in Nat
    /\ min_keeper_bond \in Nat \ {0}
    /\ keeper_unbond_cooldown_sec \in Nat
    /\ InitialLodz \in Nat
    /\ MaxTime \in Nat

VARIABLES
    now,
    keeper,         \* [Keeper -> Keeper account]
    keeper_count,   \* field of VaultConfig
    lodz,           \* [Keeper -> balance of its own $LODZ account]
    bond_vault,     \* balance of the program's bond account
    treasury        \* balance of the slash destination

vars == <<now, keeper, keeper_count, lodz, bond_vault, treasury>>

NewKeeper ==
    [bonded_amount |-> 0, slashed_amount |-> 0, active |-> FALSE,
     last_rebalance_at |-> 0, unbond_ready_at |-> 0]

Init ==
    /\ now = 0
    /\ keeper = [k \in Keeper |-> NewKeeper]
    /\ keeper_count = 0
    /\ lodz = [k \in Keeper |-> InitialLodz]
    /\ bond_vault = 0
    /\ treasury = 0

(***************************************************************************)
(* Keeper::refresh_active and apply_active_transition: the count moves     *)
(* only when the bond crosses the minimum.                                 *)
(***************************************************************************)
ShouldBeActive(bonded) == bonded >= min_keeper_bond /\ min_keeper_bond > 0

\* Mutant: counted at every refresh.
RefreshedCountAgain(k, bonded) ==
    IF ShouldBeActive(bonded) THEN keeper_count + 1
                              ELSE SaturatingSub(keeper_count, 1)

RefreshedCount(k, bonded) ==
    CASE ShouldBeActive(bonded) = keeper[k].active      -> keeper_count
      [] ShouldBeActive(bonded) /\ ~ keeper[k].active   -> keeper_count + 1
      [] ~ ShouldBeActive(bonded) /\ keeper[k].active   ->
            SaturatingSub(keeper_count, 1)

\* Mutant: the bond never lowered.
SetBondRaised(k, bonded, slashed) ==
    LET raised == IF bonded > keeper[k].bonded_amount
                  THEN bonded ELSE keeper[k].bonded_amount
    IN  /\ keeper' = [keeper EXCEPT ![k].bonded_amount = raised,
                                    ![k].slashed_amount = slashed,
                                    ![k].active = ShouldBeActive(raised)]
        /\ keeper_count' = RefreshedCount(k, raised)

\* Set the bond of k, and its slashes, and bring active and the count in step.
SetBond(k, bonded, slashed) ==
    /\ keeper' = [keeper EXCEPT ![k].bonded_amount = bonded,
                                ![k].slashed_amount = slashed,
                                ![k].active = ShouldBeActive(bonded)]
    /\ keeper_count' = RefreshedCount(k, bonded)

Bond(k, amount) ==
    /\ amount > 0
    /\ amount <= lodz[k]
    /\ Fits64(keeper[k].bonded_amount + amount)
    /\ lodz' = [lodz EXCEPT ![k] = @ - amount]
    /\ bond_vault' = bond_vault + amount
    /\ SetBond(k, keeper[k].bonded_amount + amount, keeper[k].slashed_amount)
    /\ UNCHANGED <<now, treasury>>

Unbond(k, amount) ==
    /\ amount > 0
    /\ amount <= keeper[k].bonded_amount
    /\ now >= keeper[k].unbond_ready_at
    /\ amount <= bond_vault
    /\ lodz' = [lodz EXCEPT ![k] = @ + amount]
    /\ bond_vault' = bond_vault - amount
    /\ SetBond(k, SaturatingSub(keeper[k].bonded_amount, amount),
                  keeper[k].slashed_amount)
    /\ UNCHANGED <<now, treasury>>

\* Mutant: only an active keeper's bond.
CanSlashActive(k, amount) ==
    /\ keeper[k].active
    /\ amount > 0
    /\ amount <= keeper[k].bonded_amount
    /\ amount <= bond_vault
    /\ Fits64(keeper[k].slashed_amount + amount)

\* The checks of slash_keeper, the token program's among them.
CanSlash(k, amount) ==
    /\ amount > 0
    /\ amount <= keeper[k].bonded_amount
    /\ amount <= bond_vault
    /\ Fits64(keeper[k].slashed_amount + amount)

Slash(k, amount) ==
    /\ CanSlash(k, amount)
    /\ bond_vault' = bond_vault - amount
    /\ treasury' = treasury + amount
    /\ SetBond(k, SaturatingSub(keeper[k].bonded_amount, amount),
                  keeper[k].slashed_amount + amount)
    /\ UNCHANGED <<now, lodz>>

\* Mutant: a running cooldown is not extended.
CooldownEndOnce(k) ==
    IF keeper[k].unbond_ready_at > now THEN keeper[k].unbond_ready_at
                                       ELSE now + keeper_unbond_cooldown_sec

CooldownEnd(k) == now + keeper_unbond_cooldown_sec

(***************************************************************************)
(* The keeper's half of update_seam_allocation.                            *)
(***************************************************************************)
Rebalance(k) ==
    /\ keeper[k].active
    /\ FitsI64(CooldownEnd(k))
    /\ keeper' = [keeper EXCEPT
            ![k].last_rebalance_at = now,
            ![k].unbond_ready_at = CooldownEnd(k)]
    /\ UNCHANGED <<now, keeper_count, lodz, bond_vault, treasury>>

Tick ==
    /\ now < MaxTime
    /\ now' = now + 1
    /\ UNCHANGED <<keeper, keeper_count, lodz, bond_vault, treasury>>

(***************************************************************************)
(* Transfers that the program has no part in.  The bond vault is a token   *)
(* account like any other, to which anybody may send, and the treasury is  *)
(* its owner's, who may spend from it.                                     *)
(***************************************************************************)
SendToBondVault(k, amount) ==
    /\ amount \in 1..lodz[k]
    /\ lodz' = [lodz EXCEPT ![k] = @ - amount]
    /\ bond_vault' = bond_vault + amount
    /\ UNCHANGED <<now, keeper, keeper_count, treasury>>

SpendTreasury(k, amount) ==
    /\ amount \in 1..treasury
    /\ treasury' = treasury - amount
    /\ lodz' = [lodz EXCEPT ![k] = @ + amount]
    /\ UNCHANGED <<now, keeper, keeper_count, bond_vault>>

Next ==
    \/ \E k \in Keeper :
        \/ \E amount \in 1..InitialLodz :
            \/ Bond(k, amount) \/ Unbond(k, amount) \/ Slash(k, amount)
            \/ SendToBondVault(k, amount) \/ SpendTreasury(k, amount)
        \/ Rebalance(k)
    \/ Tick

Spec == Init /\ [][Next]_vars

-----------------------------------------------------------------------------
(***************************************************************************)
(* Types of the keepers' state.                                            *)
(***************************************************************************)
TypeOK ==
    /\ now \in 0..MaxTime
    /\ keeper \in [Keeper ->
            [bonded_amount : U64, slashed_amount : U64, active : BOOLEAN,
             last_rebalance_at : 0..MaxTime, unbond_ready_at : 0..I64Max]]
    /\ keeper_count \in 0..NumKeepers
    /\ lodz \in [Keeper -> Nat]
    /\ bond_vault \in Nat
    /\ treasury \in Nat

TotalBonded  == Total([k \in Keeper |-> keeper[k].bonded_amount], NumKeepers)

(***************************************************************************)
(* The bond vault holds every bonded token, whoever sends it more, so the  *)
(* transfer of an unbonding or a slash cannot fail for lack of funds,      *)
(* whatever other keepers did before.                                      *)
(***************************************************************************)
BondsCovered == bond_vault >= TotalBonded

(***************************************************************************)
(* keeper_count is the number of keepers whose bond is at the minimum,     *)
(* however often bonds, withdrawals and slashes take one across it.        *)
(***************************************************************************)
CountMatchesActiveKeepers ==
    /\ \A k \in Keeper :
        keeper[k].active <=> keeper[k].bonded_amount >= min_keeper_bond
    /\ keeper_count = Cardinality({k \in Keeper : keeper[k].active})

(***************************************************************************)
(* The bond behind a rebalance stays within reach of a slash for the whole *)
(* cooldown: until then the only way out of a keeper's bond is the         *)
(* treasury (instructions/keeper.rs, "withdraw before anyone can reconcile *)
(* it").                                                                   *)
(***************************************************************************)
HasRebalanced(k) == keeper[k].unbond_ready_at > 0

InCooldown(k) ==
    HasRebalanced(k)
        /\ now < keeper[k].last_rebalance_at + keeper_unbond_cooldown_sec

BondStaysThroughCooldown ==
    [][\A k \in Keeper :
        InCooldown(k) =>
            LET drop == keeper[k].bonded_amount - keeper'[k].bonded_amount
            IN  drop > 0 => treasury' - treasury = drop]_vars

(***************************************************************************)
(* A keeper that bonded can be slashed down to nothing at any time: no     *)
(* guard of slash_keeper protects a bond, save that the sum of all slashes *)
(* a keeper ever suffered has to fit u64.                                  *)
(***************************************************************************)
BondAlwaysSlashable ==
    \A k \in Keeper : \A amount \in 1..keeper[k].bonded_amount :
        Fits64(keeper[k].slashed_amount + amount) => CanSlash(k, amount)

-----------------------------------------------------------------------------
(***************************************************************************)
(* What a bond, an unbonding and a slash have in common: one keeper's bond *)
(* and slashes change, and with them the flag and the count.               *)
(***************************************************************************)
Rebonds(k, bonded, slashed) ==
    /\ bonded \in U64 /\ slashed \in U64
    /\ SetBond(k, bonded, slashed)

(***************************************************************************)
(* What the promises about bonds rest on.  A cooldown that runs was started*)
(* by the last rebalance.                                                  *)
(***************************************************************************)
KeeperRecord ==
    [bonded_amount : U64, slashed_amount : U64, active : BOOLEAN,
     last_rebalance_at : 0..MaxTime, unbond_ready_at : 0..I64Max]

BalancesTyped == lodz \in [Keeper -> Nat] /\ bond_vault \in Nat /\ treasury \in Nat

CooldownIsCurrent ==
    \A k \in Keeper : HasRebalanced(k) =>
        keeper[k].unbond_ready_at
            = keeper[k].last_rebalance_at + keeper_unbond_cooldown_sec

BondInv ==
    /\ now \in 0..MaxTime
    /\ keeper \in [Keeper -> KeeperRecord]
    /\ BalancesTyped
    /\ CountMatchesActiveKeepers
    /\ BondsCovered
    /\ CooldownIsCurrent
=============================================================================
