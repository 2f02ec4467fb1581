---------------------------- MODULE MCLodzVault -----------------------------
(***************************************************************************)
(* The whole program.  Spec starts with nothing on chain.  OpenedSpec      *)
(* starts where the setup instructions lead: initialized and unpaused,     *)
(* every stope open, every asset registered, every seam registered with no *)
(* weight, and every keeper bonded.  It leaves TLC the states for what     *)
(* happens after.                                                          *)
(***************************************************************************)
EXTENDS LodzVault

CONSTANTS
    OpenConversion,     \* [Asset -> conversion]
    OpenSeams           \* a function from seam ids to declarations and stope

OneToOne    == [num |-> 1, den |-> 1]
ThreeHalves == [num |-> 3, den |-> 2]
OneHalf     == [num |-> 1, den |-> 2]

MCConversions == {OneToOne, ThreeHalves}

Opened ==
    /\ now = 0
    /\ initialized = TRUE
    /\ paused = FALSE
    /\ bond_vault_open = TRUE
    /\ authority \in Signers \cup LostKeys
    /\ pending_authority = NoKey
    /\ params = InitialParams
    /\ open_stopes = {s - 1 : s \in Stope}
    /\ stope_count = NumStopes
    /\ nominator = NoKey
    /\ \E cap \in DepositCaps : adit = [a \in Asset |->
            [conversion |-> OpenConversion[a], deposit_cap |-> cap,
             total_deposited |-> 0, total_normalized |-> 0]]
    /\ adit_vault = [a \in Asset |-> 0]
    /\ outside = [a \in Asset |-> Supply]
    /\ fee_mints \in SUBSET FeeMints
    /\ withheld = [a \in Asset |-> 0]
    /\ Pool!Init
    /\ seam = OpenSeams
    /\ allocation = [s \in Stope |-> Seams!Decoded(s)]
    /\ seam_count = NumSeams
    /\ keeper = [k \in Keeper |-> [Keepers!NewKeeper EXCEPT
            !.bonded_amount = min_keeper_bond, !.active = TRUE]]
    /\ keeper_count = Cardinality(Keeper)
    /\ lodz = [k \in Keeper |-> InitialLodz - min_keeper_bond]
    /\ bond_vault = Cardinality(Keeper) * min_keeper_bond
    /\ treasury = 0
    /\ ticket = <<>>
    /\ queue = [s \in Stope |-> Queue!EmptyQueue]
    /\ position = [s \in Stope |-> [o \in Owner |->
            [ticket_count |-> 0, pending_redemption |-> 0, withdrawn |-> 0]]]
    /\ reserve = [s \in Stope |->
            [pending_redemption |-> 0, total_redeemed |-> 0]]
    /\ view = Accounts
    /\ custody_view = [a \in Asset |-> {0}]

OpenedSpec == Opened /\ [][Next]_vars

OpenedFairSpec == OpenedSpec /\ Fairness

\* One seam of each asset in stope 1, of different kinds.
SeamOf(a, kind, endsAt, mint) ==
    [stope_id |-> 1, asset_mint |-> a, yield_kind |-> kind, risk_tier |-> 2,
     allocation_bps |-> 0, emission_ends_at |-> endsAt, emission_mint |-> mint,
     realized_yield |-> 0, last_accrual_at |-> 0]

AnAsset == CHOOSE a \in Asset : TRUE

MCHalfAsset == [a \in Asset |-> OneHalf]
MCOneAsset  == [a \in Asset |-> ThreeHalves]
MCTwoAssets == [a \in Asset |-> IF a = AnAsset THEN OneToOne ELSE ThreeHalves]

MCOneSeam  == <<SeamOf(AnAsset, "Sustainable", 0, NoMint)>>
MCTwoSeams ==
    <<SeamOf(AnAsset, "Sustainable", 0, NoMint),
      SeamOf(AnAsset, "Emissions", MaxTime, CHOOSE m \in Mint : TRUE)>>
=============================================================================
