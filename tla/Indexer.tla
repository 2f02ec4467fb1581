------------------------------- MODULE Indexer ------------------------------
(***************************************************************************)
(* The reader of the program's event log (events.rs): one rule for each    *)
(* event, saying what it lets a reader conclude about accounts that it     *)
(* never reads.  A total that the event carries replaces the one held;     *)
(* where it carries only a difference, the difference is applied.          *)
(*                                                                         *)
(* LodzVault conjoins with every instruction the rule of the event it      *)
(* emits.  An event e is a record of the fields of its struct that say     *)
(* something about an account; keys, labels and copies of what is fixed    *)
(* are left out.  The reader knows how the program creates an account.     *)
(***************************************************************************)
EXTENDS LodzMath

CONSTANTS
    NewRoot,        \* the root account before anything happened
    NewBoard,       \* what the reader keeps of a stope, as open_stope leaves it
    NewKeeper,      \* the same of a keeper
    Stope, Owner, Keeper

VARIABLES
    view,           \* the accounts, rebuilt from the log
    custody_view    \* [asset -> values of Adit::total_deposited that are
                    \* consistent with the log]

Init ==
    /\ view = [root      |-> NewRoot,
               adits     |-> <<>>,
               seams     |-> <<>>,
               board     |-> [s \in Stope |-> NewBoard],
               shares    |-> [s \in Stope |-> [o \in Owner |-> 0]],
               tickets   |-> <<>>,
               keepers   |-> [k \in Keeper |-> NewKeeper]]
    /\ custody_view = <<>>

\* The accounts and a new one, as the event of its creation describes it.
Created(accounts, key, account) ==
    [k \in DOMAIN accounts \cup {key} |->
        IF k # key THEN accounts[k] ELSE account]

\* Administration.
OnVaultInitialized(e) ==
    /\ view' = [view EXCEPT !.root.authority = e.authority, !.root.paused = TRUE]
    /\ UNCHANGED custody_view

OnBondVaultInitialized ==
    /\ view' = [view EXCEPT !.root.bond_vault_open = TRUE]
    /\ UNCHANGED custody_view

OnStopeOpened(e) ==
    /\ view' = [view EXCEPT !.root.open_stopes = @ \cup {e.stope_id}]
    /\ UNCHANGED custody_view

OnVaultPauseChanged(e) ==
    /\ view' = [view EXCEPT !.root.paused = e.paused]
    /\ UNCHANGED custody_view

OnAuthorityTransferProposed(e) ==
    /\ view' = [view EXCEPT !.root.pending_authority = e.pending_authority]
    /\ UNCHANGED custody_view

OnAuthorityTransferAccepted(e) ==
    /\ view' = [view EXCEPT !.root.authority = e.authority,
                            !.root.pending_authority = NewRoot.pending_authority]
    /\ UNCHANGED custody_view

OnAditRegistered(e) ==
    /\ view' = [view EXCEPT !.adits = Created(@, e.asset_mint,
            [conversion |-> e.conversion, deposit_cap |-> e.deposit_cap,
             total_normalized |-> 0])]
    /\ custody_view' = Created(custody_view, e.asset_mint, {0})

\* Counterparty weight is in no event's totals: the reader has to re-sum it.
Routed(r, e, previous, next) ==
    [r EXCEPT !.emissions_bps = e.stope_emissions_bps,
              !.counterparty_bps = IF e.yield_kind = "Counterparty"
                                   THEN @ - previous + next ELSE @]

RoutedNew(r, e) ==
    [Routed(r, e, 0, e.declared.allocation_bps) EXCEPT
        !.allocated_bps = @ + e.declared.allocation_bps, !.seam_count = @ + 1]

RoutedAnew(r, e) ==
    [Routed(r, e, e.previous_allocation_bps, e.new_allocation_bps) EXCEPT
        !.allocated_bps = e.stope_allocated_bps]

OnSeamRegistered(e) ==
    /\ view' = [view EXCEPT
            !.seams = Created(@, e.seam_id,
                [stope_id         |-> e.stope_id,
                 asset_mint       |-> e.declared.asset_mint,
                 yield_kind       |-> e.declared.yield_kind,
                 risk_tier        |-> e.declared.risk_tier,
                 allocation_bps   |-> e.declared.allocation_bps,
                 emission_ends_at |-> e.declared.emission_ends_at,
                 emission_mint    |-> e.declared.emission_mint,
                 realized_yield   |-> 0,
                 last_accrual_at  |-> 0]),
            !.board[e.stope_id].routing = RoutedNew(@, e)]
    /\ UNCHANGED custody_view

OnSeamRebalanced(e) ==
    /\ view' = [view EXCEPT
            !.seams[e.seam_id].allocation_bps = e.new_allocation_bps,
            !.keepers[e.keeper].last_rebalance_at = e.timestamp,
            !.board[e.stope_id].routing = RoutedAnew(@, e)]
    /\ UNCHANGED custody_view

-----------------------------------------------------------------------------
\* Money.
OnDeposit(e) ==
    /\ view' = [view EXCEPT
            !.root.total_normalized_deposits = @ + e.normalized_amount,
            !.adits[e.asset_mint].total_normalized = @ + e.normalized_amount,
            !.shares[e.stope_id][e.owner] = e.miner_shares,
            !.board[e.stope_id].total_shares = e.stope_total_shares,
            !.board[e.stope_id].total_deposits = e.stope_total_deposits]
    /\ custody_view' = [custody_view EXCEPT
            ![e.asset_mint] = {n + e.amount : n \in @}]

(***************************************************************************)
(* The event has the amount in internal units only.  What was received is  *)
(* any native amount worth as much.                                        *)
(***************************************************************************)
WorthAs(a, normalized) ==
    {n \in U64 : ToNormalized(n, view.adits[a].conversion) = normalized}

OnYieldAccrued(e) ==
    LET a == view.seams[e.seam_id].asset_mint
    IN  /\ view' = [view EXCEPT
                !.root.total_normalized_deposits = @ + e.amount,
                !.adits[a].total_normalized = @ + e.amount,
                !.seams[e.seam_id].realized_yield = e.seam_realized_yield,
                !.seams[e.seam_id].last_accrual_at = e.timestamp,
                !.board[e.stope_id].realized = e.stope_realized,
                !.board[e.stope_id].total_shares = e.stope_total_shares,
                !.board[e.stope_id].total_deposits = @ + e.amount]
        /\ custody_view' = [custody_view EXCEPT
                ![a] = {n + m : n \in @, m \in WorthAs(a, e.amount)}]

OnRedemptionRequested(e) ==
    /\ view' = [view EXCEPT
            !.root.total_normalized_deposits = @ - e.terms.normalized_amount,
            !.shares[e.stope_id][e.owner] = @ - e.shares_burned,
            !.board[e.stope_id].total_shares = @ - e.shares_burned,
            !.board[e.stope_id].total_deposits = @ - e.terms.normalized_amount,
            !.board[e.stope_id].total_pending =
                e.queue_pending_ahead + e.terms.normalized_amount,
            !.tickets = Created(@, e.orecart,
                [owner |-> e.owner, stope_id |-> e.stope_id, terms |-> e.terms,
                 status |-> "Queued", queue_position |-> e.queue_position,
                 requested_at |-> e.requested_at,
                 claimable_at |-> e.claimable_at, claimed_at |-> 0])]
    /\ UNCHANGED custody_view

OnRedemptionClaimed(e) ==
    /\ view' = [view EXCEPT
            !.board[e.stope_id].total_pending = e.queue_total_pending,
            !.tickets[e.orecart].status = "Claimed",
            !.tickets[e.orecart].claimed_at = e.claimed_at]
    /\ custody_view' = [custody_view EXCEPT
            ![e.asset_mint] = {SaturatingSub(n, e.payout_amount) : n \in @}]

-----------------------------------------------------------------------------
\* Keepers.
OnKeeperBondChanged(e) ==
    /\ view' = [view EXCEPT !.root.keeper_count = e.keeper_count,
                            !.keepers[e.keeper].bonded_amount = e.bonded_amount,
                            !.keepers[e.keeper].active = e.active]
    /\ UNCHANGED custody_view

\* The event has no keeper_count; that it fell shows in active.
OnKeeperSlashed(e) ==
    /\ view' = [view EXCEPT
            !.root.keeper_count =
                IF view.keepers[e.keeper].active /\ ~ e.active THEN @ - 1 ELSE @,
            !.keepers[e.keeper].bonded_amount = e.bonded_amount,
            !.keepers[e.keeper].slashed_amount = @ + e.amount,
            !.keepers[e.keeper].active = e.active]
    /\ UNCHANGED custody_view
=============================================================================
