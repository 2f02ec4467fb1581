----------------------------- MODULE LodzVault ------------------------------
(***************************************************************************)
(* The vault program: every instruction of lib.rs as one atomic step that  *)
(* conjoins what each component does in it.                                *)
(*                                                                         *)
(*   Admin    the root account: authority, pause, which accounts exist     *)
(*   Custody  the assets and the token accounts that hold them             *)
(*   Pool     shares, principal and attribution of yield                   *)
(*   Seams    the yield sources and their routing weights                  *)
(*   Keepers  the $LODZ bonds                                              *)
(*   Queue    redemption tickets                                           *)
(*   Index    the reader of the events that the instructions emit          *)
(***************************************************************************)
EXTENDS LodzMath, FiniteSets, Functions

CONSTANTS
    NumOwners, NumStopes, NumSeams,
    Asset, Conversions, DepositCaps, Supply, FeeMints,
    Mint, NoMint, Weights, Tiers,
    NumKeepers, InitialLodz,
    Signers, LostKeys, NoKey,
    U32Max, MaxTime,
    \* what the vault is initialized with
    fee_bps, redemption_delay_sec, max_redemption_delay_sec,
    queue_drain_per_day, min_keeper_bond, keeper_unbond_cooldown_sec

Owner     == 1..NumOwners
Stope     == 1..NumStopes
Keeper    == 1..NumKeepers
YieldKind == {"Sustainable", "Emissions", "Counterparty"}

\* How the vault is initialized is what VaultAdmin!Valid lets through.
ASSUME VaultAssumption ==
    /\ NumOwners \in Nat
    /\ NumStopes \in 0..3
    /\ NumSeams \in Nat
    /\ NumKeepers \in Nat
    /\ U32Max \in 1..U64Max
    /\ NoMint \notin Mint
    /\ Weights \subseteq Nat
    /\ Tiers \subseteq Nat
    /\ InitialLodz \in Nat
    /\ MaxTime \in Nat
    /\ NoKey \notin Signers \cup LostKeys
    /\ Signers \cap LostKeys = {}
    /\ fee_bps \in 0..BPS_DENOMINATOR
    /\ redemption_delay_sec \in Nat
    /\ max_redemption_delay_sec \in redemption_delay_sec..I64Max
    /\ queue_drain_per_day \in Nat \ {0}
    /\ min_keeper_bond \in Nat \ {0}
    /\ keeper_unbond_cooldown_sec \in 0..I64Max

VARIABLES
    now,
    initialized, authority, pending_authority, paused, params,
    bond_vault_open, open_stopes, stope_count, nominator,
    adit, adit_vault, outside, fee_mints, withheld,
    stope, miner, total_normalized_deposits,
    seam, allocation, seam_count,
    keeper, keeper_count, lodz, bond_vault, treasury,
    ticket, queue, position, reserve,
    view, custody_view

admin_vars   == <<initialized, authority, pending_authority, paused, params,
                  bond_vault_open, open_stopes, stope_count, nominator>>
custody_vars == <<adit, adit_vault, outside, fee_mints, withheld>>
pool_vars    == <<stope, miner, total_normalized_deposits>>
seam_vars    == <<seam, allocation, seam_count>>
keeper_vars  == <<keeper, keeper_count, lodz, bond_vault, treasury>>
queue_vars   == <<ticket, queue, position, reserve>>
index_vars   == <<view, custody_view>>

vars == <<now, admin_vars, custody_vars, pool_vars, seam_vars, keeper_vars,
          queue_vars, index_vars>>

\* The terms a ticket is issued with.
TicketTerms ==
    [asset_mint : Asset, normalized_amount : U64, fee_normalized : U64,
     payout_amount : U64]

InitialParams ==
    [fee_bps                    |-> fee_bps,
     redemption_delay_sec       |-> redemption_delay_sec,
     max_redemption_delay_sec   |-> max_redemption_delay_sec,
     queue_drain_per_day        |-> queue_drain_per_day,
     min_keeper_bond            |-> min_keeper_bond,
     keeper_unbond_cooldown_sec |-> keeper_unbond_cooldown_sec]

Admin == INSTANCE VaultAdmin WITH
    Parameters                     <- {InitialParams},
    MAX_FEE_BPS                    <- fee_bps,
    MAX_BASE_REDEMPTION_DELAY_SEC  <- redemption_delay_sec,
    MAX_TOTAL_REDEMPTION_DELAY_SEC <- max_redemption_delay_sec,
    MAX_KEEPER_UNBOND_COOLDOWN_SEC <- keeper_unbond_cooldown_sec

Custody == INSTANCE Custody
Pool    == INSTANCE StopePool WITH SeamKinds <- YieldKind
Seams   == INSTANCE SeamRegistry WITH LegacySeams <- <<>>
Keepers == INSTANCE KeeperBond
Queue   == INSTANCE Orecart

Index == INSTANCE Indexer WITH
    NewRoot   <- [authority |-> NoKey, pending_authority |-> NoKey, paused |-> FALSE,
                  bond_vault_open |-> FALSE, open_stopes |-> {},
                  keeper_count |-> 0, total_normalized_deposits |-> 0],
    NewBoard  <- [total_shares |-> 0, total_deposits |-> 0,
                  realized |-> Pool!NoYield, total_pending |-> 0,
                  routing |-> [allocated_bps |-> 0, emissions_bps |-> 0,
                               counterparty_bps |-> 0, seam_count |-> 0]],
    NewKeeper <- [bonded_amount |-> 0, slashed_amount |-> 0, active |-> FALSE,
                  last_rebalance_at |-> 0]

ASSUME AssetsAssumption == Custody!CustodyAssumption

Init ==
    /\ Admin!Init
    /\ Custody!Init
    /\ Pool!Init
    /\ Seams!Init
    /\ Keepers!Init
    /\ Queue!Init
    /\ Index!Init

-----------------------------------------------------------------------------
(***************************************************************************)
(* Money.  The stope's accounts must exist, and pause_vault stops all but  *)
(* the claim.                                                              *)
(***************************************************************************)
IsOpen(s) == s - 1 \in open_stopes

Running(s) == initialized /\ ~ paused /\ IsOpen(s)

MakeDeposit(o, s, a, amount) ==
    /\ Running(s)
    /\ Custody!TakeDeposit(a, amount)
    /\ Pool!MintShares(o, s, Custody!Normalized(a, amount))
    /\ Index!OnDeposit([
            owner                |-> o,
            stope_id             |-> s,
            asset_mint           |-> a,
            amount               |-> amount,
            normalized_amount    |-> Custody!Normalized(a, amount),
            miner_shares         |-> miner'[s][o].shares,
            stope_total_shares   |-> stope'[s].total_shares,
            stope_total_deposits |-> stope'[s].total_deposits])
    /\ UNCHANGED <<now, admin_vars, seam_vars, keeper_vars, queue_vars>>

\* Mutant: every accrual counted as sustainable.
KindBookedSustainable(x) == "Sustainable"

KindBooked(x) == x.yield_kind

AccrueYield(k, id, amount) ==
    LET x          == seam[id]
        normalized == Custody!Normalized(x.asset_mint, amount)
    IN  /\ id \in DOMAIN seam
        /\ Running(x.stope_id)
        /\ keeper[k].active
        /\ Custody!TakeYield(x.asset_mint, amount)
        /\ Seams!SeamAccrues(id, normalized)
        /\ Pool!BookYield(x.stope_id, KindBooked(x), normalized)
        /\ Index!OnYieldAccrued([
                seam_id             |-> id,
                stope_id            |-> x.stope_id,
                amount              |-> normalized,
                seam_realized_yield |-> seam'[id].realized_yield,
                stope_realized      |-> stope'[x.stope_id].realized,
                stope_total_shares  |-> stope'[x.stope_id].total_shares,
                timestamp           |-> now])
        /\ UNCHANGED <<now, admin_vars, keeper_vars, queue_vars>>

\* Mutant: the fee counted, but paid out too.
TermsWithFeePaidOut(o, s, a, shares) ==
    LET normalized == Pool!RedemptionValue(s, shares)
        fee        == BpsFraction(Pool!FeeBasis(o, s, shares), fee_bps)
    IN  [asset_mint        |-> a,
         normalized_amount |-> normalized,
         fee_normalized    |-> fee,
         payout_amount     |-> Custody!NativeUnits(a, normalized)]

\* What the shares are worth, less a fee on the yield in them, in an asset.
Terms(o, s, a, shares) ==
    LET normalized == Pool!RedemptionValue(s, shares)
        fee        == BpsFraction(Pool!FeeBasis(o, s, shares), fee_bps)
    IN  [asset_mint        |-> a,
         normalized_amount |-> normalized,
         fee_normalized    |-> fee,
         payout_amount     |->
             Custody!NativeUnits(a, SaturatingSub(normalized, fee))]

\* Mutant: read after the ticket is queued.
BacklogReadLate(s) == queue'[s].total_pending

\* queue_pending_ahead
BacklogAhead(s) == queue[s].total_pending

RequestRedemption(o, s, a, shares) ==
    LET terms   == Terms(o, s, a, shares)
        address == Queue!TicketAddress(o, s, position[s][o].ticket_count)
    IN  /\ Running(s)
        /\ a \in DOMAIN adit
        /\ Pool!BurnShares(o, s, shares)
        /\ Fits64(Custody!NativeUnits(a, terms.normalized_amount))
        /\ terms.payout_amount > 0
        /\ Queue!Issue(o, s, terms)
        /\ Index!OnRedemptionRequested([
                owner               |-> o,
                orecart             |-> address,
                stope_id            |-> s,
                shares_burned       |-> shares,
                terms               |-> terms,
                queue_position      |-> queue[s].tail,
                queue_pending_ahead |-> BacklogAhead(s),
                requested_at        |-> now,
                claimable_at        |-> ticket'[address].claimable_at])
        /\ UNCHANGED <<admin_vars, custody_vars, seam_vars, keeper_vars>>

ClaimRedemption(address) ==
    LET terms == ticket[address].terms
        s     == ticket[address].stope_id
    IN  /\ Queue!Settle(address)
        /\ Custody!PayOut(terms.asset_mint, terms.payout_amount)
        /\ Index!OnRedemptionClaimed([
                orecart             |-> address,
                stope_id            |-> s,
                asset_mint          |-> terms.asset_mint,
                payout_amount       |-> terms.payout_amount,
                queue_total_pending |-> queue'[s].total_pending,
                claimed_at          |-> now])
        /\ UNCHANGED <<admin_vars, pool_vars, seam_vars, keeper_vars>>

-----------------------------------------------------------------------------
(***************************************************************************)
(* Keepers.                                                                *)
(***************************************************************************)
UpdateSeamAllocation(k, id, newAllocationBps) ==
    /\ id \in DOMAIN seam
    /\ Running(seam[id].stope_id)
    /\ Keepers!Rebalance(k)
    /\ Seams!UpdateAllocation(id, newAllocationBps)
    /\ LET s == seam[id].stope_id
       IN  Index!OnSeamRebalanced([
                seam_id                 |-> id,
                stope_id                |-> s,
                keeper                  |-> k,
                yield_kind              |-> seam[id].yield_kind,
                previous_allocation_bps |-> seam[id].allocation_bps,
                new_allocation_bps      |-> newAllocationBps,
                stope_allocated_bps     |-> allocation'[s].allocated_bps,
                stope_emissions_bps     |-> allocation'[s].emissions_bps,
                timestamp               |-> now])
    /\ UNCHANGED <<admin_vars, custody_vars, pool_vars, queue_vars>>

\* KeeperBonded and KeeperUnbonded
BondChanged(k) ==
    Index!OnKeeperBondChanged([keeper        |-> k,
                               bonded_amount |-> keeper'[k].bonded_amount,
                               active        |-> keeper'[k].active,
                               keeper_count  |-> keeper_count'])

BondKeeper(k, amount) ==
    /\ bond_vault_open
    /\ Keepers!Bond(k, amount)
    /\ BondChanged(k)
    /\ UNCHANGED <<admin_vars, custody_vars, pool_vars, seam_vars, queue_vars>>

UnbondKeeper(k, amount) ==
    /\ bond_vault_open
    /\ Keepers!Unbond(k, amount)
    /\ BondChanged(k)
    /\ UNCHANGED <<admin_vars, custody_vars, pool_vars, seam_vars, queue_vars>>

-----------------------------------------------------------------------------
(***************************************************************************)
(* The authority, signing with key k.                                      *)
(***************************************************************************)
SlashKeeper(k, bonded, amount) ==
    /\ Admin!SignedByAuthority(k)
    /\ bond_vault_open
    /\ Keepers!Slash(bonded, amount)
    /\ Index!OnKeeperSlashed([keeper        |-> bonded,
                              amount        |-> amount,
                              bonded_amount |-> keeper'[bonded].bonded_amount,
                              active        |-> keeper'[bonded].active])
    /\ UNCHANGED <<admin_vars, custody_vars, pool_vars, seam_vars, queue_vars>>

RegisterAdit(k, a, conversion, depositCap) ==
    /\ Admin!SignedByAuthority(k)
    /\ Custody!RegisterAdit(a, conversion, depositCap)
    /\ Index!OnAditRegistered([asset_mint  |-> a,
                               conversion  |-> conversion,
                               deposit_cap |-> depositCap])
    /\ UNCHANGED <<now, admin_vars, pool_vars, seam_vars, keeper_vars, queue_vars>>

RegisterSeam(k, id, s, declared) ==
    /\ Admin!SignedByAuthority(k)
    /\ IsOpen(s)
    /\ declared.asset_mint \in DOMAIN adit
    /\ Seams!RegisterSeam(id, s, declared)
    /\ Index!OnSeamRegistered([seam_id             |-> id,
                               stope_id            |-> s,
                               declared            |-> declared,
                               yield_kind          |-> declared.yield_kind,
                               stope_emissions_bps |-> allocation'[s].emissions_bps])
    /\ UNCHANGED <<admin_vars, custody_vars, pool_vars, keeper_vars, queue_vars>>

\* The seven instructions of VaultAdmin, each with its event.
Administer(k) ==
    /\ \/ /\ Admin!InitializeVault(k, InitialParams)
          /\ Index!OnVaultInitialized([authority |-> authority'])
       \/ /\ Admin!InitializeBondVault(k)
          /\ Index!OnBondVaultInitialized
       \/ \E s \in Stope, profile \in {"Conservative", "Balanced", "Aggressive"} :
            /\ Admin!OpenStope(k, s - 1, profile)
            /\ Index!OnStopeOpened([stope_id |-> s - 1])
       \/ /\ Admin!PauseVault(k) \/ Admin!UnpauseVault(k)
          /\ Index!OnVaultPauseChanged([paused |-> paused'])
       \/ \E newAuthority \in Admin!Key \cup {NoKey} :
            /\ Admin!ProposeAuthority(k, newAuthority)
            /\ Index!OnAuthorityTransferProposed(
                    [pending_authority |-> pending_authority'])
       \/ /\ Admin!AcceptAuthority(k)
          /\ Index!OnAuthorityTransferAccepted([authority |-> authority'])
    /\ UNCHANGED <<now, custody_vars, pool_vars, seam_vars, keeper_vars, queue_vars>>

-----------------------------------------------------------------------------
(***************************************************************************)
(* The world around the program.                                           *)
(***************************************************************************)
SendDirectly(a, amount) ==
    /\ Custody!SendDirectly(a, amount)
    /\ UNCHANGED <<now, admin_vars, pool_vars, seam_vars, keeper_vars,
                   queue_vars, index_vars>>

\* Bound of the slashes: the treasury stops when so much has been slashed.
TreasurySpends(k) == keeper[k].slashed_amount <= InitialLodz

SendLodz(k, amount) ==
    /\ \/ bond_vault_open /\ Keepers!SendToBondVault(k, amount)
       \/ TreasurySpends(k) /\ Keepers!SpendTreasury(k, amount)
    /\ UNCHANGED <<now, admin_vars, custody_vars, pool_vars, seam_vars,
                   queue_vars, index_vars>>

Tick ==
    /\ Queue!Tick
    /\ Keepers!Tick
    /\ Seams!Tick
    /\ UNCHANGED <<admin_vars, custody_vars, pool_vars, index_vars>>

\* Bound of the clock: requests stop while every wait can still elapse.
TimeToClaim == now + max_redemption_delay_sec <= MaxTime

Money ==
    \/ \E o \in Owner, s \in Stope, a \in Asset :
        \/ \E amount \in 1..Supply : MakeDeposit(o, s, a, amount)
        \/ \E shares \in U64 : TimeToClaim /\ RequestRedemption(o, s, a, shares)
    \/ \E address \in DOMAIN ticket : ClaimRedemption(address)

Keeping ==
    \E k \in Keeper :
        \/ \E id \in 1..NumSeams :
            \/ \E amount \in 1..Supply : AccrueYield(k, id, amount)
            \/ \E bps \in Weights : UpdateSeamAllocation(k, id, bps)
        \/ \E amount \in 1..InitialLodz :
            BondKeeper(k, amount) \/ UnbondKeeper(k, amount)

Governing ==
    \E k \in Signers :
        \/ Administer(k)
        \/ \E bonded \in Keeper, amount \in 1..InitialLodz :
                SlashKeeper(k, bonded, amount)
        \/ \E a \in Asset, c \in Conversions, cap \in DepositCaps :
                RegisterAdit(k, a, c, cap)
        \/ \E id \in 1..NumSeams, s \in Stope, declared \in Seams!Declarations :
                RegisterSeam(k, id, s, declared)

Next ==
    \/ Money
    \/ Keeping
    \/ Governing
    \/ \E a \in Asset, amount \in 1..Supply : SendDirectly(a, amount)
    \/ \E k \in Keeper, amount \in 1..InitialLodz : SendLodz(k, amount)
    \/ Tick

Spec == Init /\ [][Next]_vars

(***************************************************************************)
(* The clock keeps running, and an owner whose ticket can be claimed does  *)
(* claim it in the end.  Nobody else has to do anything: the vault may be  *)
(* paused for good, and no keeper or authority has to act.                 *)
(***************************************************************************)
ClaimAt(address) == address \in DOMAIN ticket /\ ClaimRedemption(address)

Fairness == WF_vars(Tick) /\ \A x \in Queue!Address : WF_vars(ClaimAt(x))

-----------------------------------------------------------------------------
(***************************************************************************)
(* Sums across components.                                                 *)
(***************************************************************************)
Queued == {x \in DOMAIN ticket : ticket[x].status = "Queued"}

NormalizedOf(X) ==
    SumFunctionOnSet([x \in X |-> ticket[x].terms.normalized_amount], X)

FeesTaken == Total([s \in Stope |-> queue[s].total_fees], NumStopes)

CreditedTo(A) == SumFunctionOnSet([a \in A |-> adit[a].total_normalized], A)

\* The value of everything in custody or withheld on the way there, in units
\* of 1/CommonDen, unrounded.
CommonDen ==
    FoldFunctionOnSet(LAMBDA den, product : den * product, 1,
        [a \in DOMAIN adit |-> adit[a].conversion.den], DOMAIN adit)

CustodyValue ==
    SumFunctionOnSet(
        [a \in DOMAIN adit |-> (adit_vault[a] + withheld[a]) * adit[a].conversion.num
                                  * (CommonDen \div adit[a].conversion.den)],
        DOMAIN adit)

(***************************************************************************)
(* Types of the whole state.                                               *)
(***************************************************************************)
TypeOK ==
    /\ Admin!TypeOK
    /\ Custody!TypeOK
    /\ Pool!TypeOK
    /\ Seams!TypeOK
    /\ Keepers!TypeOK
    /\ Queue!TypeOK

(***************************************************************************)
(* The books of the assets never claim more than is there (Custody), for   *)
(* the payouts that tickets lead to, in any asset.                         *)
(***************************************************************************)
BooksCoveredByCustody == Custody!BooksCoveredByCustody

(***************************************************************************)
(* The vault is solvent: what it holds, at the registered ratios, covers   *)
(* the principal of every stope, every queued ticket and the fees it has   *)
(* kept.  No rounding, conversion, accrual or payout in another asset than *)
(* the one deposited ever takes more out than was put in.  A mint with a   *)
(* transfer fee costs the vault what the token program withheld from       *)
(* booked transfers, whatever its assets are redeemed in, and no more.     *)
(***************************************************************************)
Solvent ==
    CustodyValue >= CommonDen *
        (total_normalized_deposits + NormalizedOf(Queued) + FeesTaken)

(***************************************************************************)
(* Two sets of books record the life of what is credited, in accounts of   *)
(* different owners: the assets, the vault total and the tickets one by    *)
(* one, and the running totals of the stopes and their queues.  Each moves *)
(* as VaultLedger does, in every instruction, so none of the saturating    *)
(* subtractions of redemption.rs loses or invents a unit.                  *)
(***************************************************************************)
Books == INSTANCE VaultLedger WITH
    credited <- CreditedTo(DOMAIN adit),
    backing  <- total_normalized_deposits,
    owed     <- NormalizedOf(Queued),
    settled  <- NormalizedOf(DOMAIN ticket \ Queued)

Totals == INSTANCE VaultLedger WITH
    credited <- CreditedTo(DOMAIN adit),
    backing  <- Total([s \in Stope |-> stope[s].total_deposits], NumStopes),
    owed     <- Total([s \in Stope |-> queue[s].total_pending], NumStopes),
    settled  <- Total([s \in Stope |-> queue[s].total_claimed], NumStopes)

ImplementsLedger == Books!Spec /\ Totals!Spec

(***************************************************************************)
(* The log tells the whole story (events.rs): a reader who has seen every  *)
(* event and no account holds the weights, yields and disclosures of the   *)
(* seams, the totals of the stopes, the shares, the tickets, the bonds and *)
(* the root account as they are, although events carry totals of some and  *)
(* only differences of others, captured before the handler's last changes. *)
(* What the log leaves open of an asset's total_deposited includes what it *)
(* is.                                                                     *)
(***************************************************************************)
Accounts ==
    [root    |-> [authority                 |-> authority,
                  pending_authority         |-> pending_authority,
                  paused                    |-> paused,
                  bond_vault_open           |-> bond_vault_open,
                  open_stopes               |-> open_stopes,
                  keeper_count              |-> keeper_count,
                  total_normalized_deposits |-> total_normalized_deposits],
     adits   |-> [a \in DOMAIN adit |->
                    [conversion       |-> adit[a].conversion,
                     deposit_cap      |-> adit[a].deposit_cap,
                     total_normalized |-> adit[a].total_normalized]],
     seams   |-> seam,
     board   |-> [s \in Stope |->
                    [total_shares   |-> stope[s].total_shares,
                     total_deposits |-> stope[s].total_deposits,
                     realized       |-> stope[s].realized,
                     total_pending  |-> queue[s].total_pending,
                     routing        |-> allocation[s]]],
     shares  |-> [s \in Stope |-> [o \in Owner |-> miner[s][o].shares]],
     tickets |-> ticket,
     keepers |-> [k \in Keeper |->
                    [bonded_amount     |-> keeper[k].bonded_amount,
                     slashed_amount    |-> keeper[k].slashed_amount,
                     active            |-> keeper[k].active,
                     last_rebalance_at |-> keeper[k].last_rebalance_at]]]

ReplayMatchesAccounts ==
    /\ view = Accounts
    /\ \A a \in DOMAIN adit : adit[a].total_deposited \in custody_view[a]

(***************************************************************************)
(* The two records of realized yield agree: for each stope and kind, the   *)
(* stope has booked what its seams of that kind report, so yield of one    *)
(* kind is never shown as another (state/seam.rs, "realized_yield").       *)
(***************************************************************************)
RealizedBy(s, k) ==
    Total([id \in 1..NumSeams |->
            IF id \in DOMAIN seam /\ Seams!IsSeamOf(seam[id], s, {k})
            THEN seam[id].realized_yield ELSE 0],
          NumSeams)

StopesBookWhatSeamsReport ==
    \A s \in Stope, k \in YieldKind : stope[s].realized[k] = RealizedBy(s, k)

(***************************************************************************)
(* A due ticket can be claimed by its owner whatever else happened, paused *)
(* or not, as long as the vault has a single asset, of a mint that charges *)
(* no transfer fee: the custody account covers it and no lifetime counter  *)
(* of the claim overflows, each being bounded by what was ever credited    *)
(* (state/config.rs, "a ticket whose delay has already elapsed is a        *)
(* settled debt").                                                         *)
(***************************************************************************)
CanClaim(x) ==
    LET terms == ticket[x].terms
    IN  /\ terms.payout_amount > 0
        /\ adit_vault[terms.asset_mint] >= terms.payout_amount
        /\ Queue!LifetimeCountersFit(ticket[x])

OneFeelessAsset == Cardinality(DOMAIN adit) = 1 /\ fee_mints = {}

OneAssetAlwaysPays == OneFeelessAsset => \A x \in Queued : CanClaim(x)

(***************************************************************************)
(* In such a vault request_redemption refuses the holder of some shares of *)
(* a running stope for four reasons only: the payout rounds to nothing,    *)
(* the sum of the three kinds or the wait does not fit its width, or the   *)
(* position has used up its ticket numbers.  Every other checked addition  *)
(* or conversion on the way (redemption.rs:188-260) fits after any history *)
(* of all owners, since what it counts was once credited.                  *)
(***************************************************************************)
RefusesByDesign(o, s, a, shares) ==
    \/ Terms(o, s, a, shares).payout_amount = 0
    \/ ~ Fits64(Pool!SumOfKinds(Pool!ClaimedYield(o, s, shares)))
    \/ ~ Queue!DelayFits(queue[s].total_pending)
    \/ ~ Queue!RoomForTicket(o, s)

CanRequest(o, s, a, shares) ==
    LET normalized == Pool!RedemptionValue(s, shares)
    IN  /\ Pool!CanBurn(o, s, shares)
        /\ Fits64(Custody!NativeUnits(a, normalized))
        /\ Queue!BacklogFits(o, s, normalized)
        /\ Fits64(queue[s].tail + 1)
        /\ Fits64(queue[s].pending_tickets + 1)

OneAssetAlwaysRedeems ==
    OneFeelessAsset =>
        \A a \in DOMAIN adit, s \in Stope, o \in Owner :
            \A shares \in 1..miner[s][o].shares :
                RefusesByDesign(o, s, a, shares) \/ CanRequest(o, s, a, shares)

(***************************************************************************)
(* With one such asset every ticket is paid in the end, under Fairness.    *)
(***************************************************************************)
OneAssetPaysEveryTicket ==
    \A x \in Queue!Address :
        (x \in Queued /\ OneFeelessAsset)
            ~> (x \in DOMAIN ticket /\ ticket[x].status = "Claimed")

-----------------------------------------------------------------------------
(***************************************************************************)
(* state/adit.rs:44 calls deposit_cap a "Hard cap on `total_deposited`".   *)
(***************************************************************************)
CapIsHard ==
    \A a \in DOMAIN adit :
        adit[a].deposit_cap > 0
            => adit[a].total_deposited <= adit[a].deposit_cap

(***************************************************************************)
(* state/mod.rs:295 says of a queued ticket that "the payout is reserved": *)
(* the payouts queued in an asset are covered by the units held of it.     *)
(***************************************************************************)
QueuedIn(a) == {x \in Queued : ticket[x].terms.asset_mint = a}

PayoutsReserved ==
    \A a \in DOMAIN adit :
        SumFunctionOnSet([x \in QueuedIn(a) |-> ticket[x].terms.payout_amount],
                         QueuedIn(a)) <= adit_vault[a]

(***************************************************************************)
(* docs/architecture.md:347 says that every instruction that changes state *)
(* emits an event, "what lets the indexer reconstruct protocol state from  *)
(* logs rather than by polling every account".  Of the units an asset      *)
(* holds, which its cap is checked against, that means one value.          *)
(***************************************************************************)
LogDeterminesCustody ==
    \A a \in DOMAIN custody_view : Cardinality(custody_view[a]) = 1
=============================================================================
