# LODZ vault: TLA+ verification

This directory models the on-chain program of LODZ, `programs/lodz-vault` (Rust,
Anchor, Solana), in TLA+. TLC checks it on small instances; TLAPS proves its
central invariants, of the components and of the whole program, for every size.
Paths below are relative to `programs/lodz-vault/src/`. `PROJECT.json` lists every
run, the lines each definition stands for, and the hazards the properties are
aimed at.

## The system

The vault takes tokenized BTC (an *adit* per asset) into three share pools
(*stopes*), books the yield of registered sources (*seams*) into them, and pays
depositors (*miners*) out through a queue of tickets (*orecarts*). *Keepers*
report the yield and move routing weights, against a bond in $LODZ. All
accounting is in one internal unit; each asset has a pinned ratio to it.

There are no threads, callbacks or messages: a transaction runs alone and either
succeeds or changes nothing. What makes the program hard is the order in which
transactions of different signers arrive, the time that passes between them, and
integers: every division floors, and the same credit is recorded in up to five
accounts.

| Part | State | Operations | Talks to |
|---|---|---|---|
| Arithmetic (`math.rs`) | none | `mul_div_floor`, `to_normalized`, `index_delta`, `queue_delay_sec`, ... | all |
| Pools and positions (`state/stope.rs`, `state/miner.rs`) | shares, principal, an index and a lifetime total per kind of yield; per owner shares, settled and taken-out yield, a snapshot of the indices | `deposit`, `accrue_yield`, `request_redemption` | custody, seams, queue, config total |
| Queue (`state/orecart.rs`) | tickets; per stope an aggregate; counters in the miner and stope accounts | `request_redemption`, `claim_redemption` | pools, custody, clock |
| Assets and custody (`state/adit.rs`) | ratio, cap, two counters; the token balance | `register_adit`, the transfers of `deposit`, `accrue_yield`, `claim_redemption` | token program |
| Seams (`state/seam.rs`, `Stope::reallocate`) | kind, schedule, weight, realized yield; three running totals per stope | `register_seam`, `update_seam_allocation`, `accrue_yield` | clock, keepers, pools |
| Keepers (`state/keeper.rs`) | bond, slashes, activity, cooldown; `keeper_count` | `bond_keeper`, `unbond_keeper`, `slash_keeper`, `update_seam_allocation` | clock, token program |
| Events (`events.rs`, the `emit!` of every handler) | none on chain; a reader's copy of the accounts | sixteen events, one per instruction (both pause instructions share one) | every handler |
| Root account (`state/config.rs`, `instructions/admin.rs`) | authority, nomination, pause, parameters | `initialize_vault`, `initialize_bond_vault`, `open_stope`, `pause_vault`, `unpause_vault`, `propose_authority`, `accept_authority` | gates the others |

What is hard, and what makes each part correct:

- *Pools.* Shares are minted and redeemed at a floored ratio that accruals move.
  The value of a share must never fall, no holder may end with shares worth
  nothing, attribution of yield must neither exceed what was accrued nor reach
  back before a deposit, and no history may make settlement fail. Redemption
  subtracts with `saturating_sub`, which would hide a total that drifted.
- *Queue.* Requests and claims interleave in any order with the clock. A ticket
  must wait for the backlog that stood in front of it, must be payable once and
  not early, its address must be free, and nothing but a full lifetime counter may
  keep it from being paid in the end.
- *Custody.* Amounts change units on the way in and out, possibly in different
  assets. The vault must stay solvent, and the books must stay below the balance
  although anybody can send tokens to it. A Token-2022 mint may withhold a fee
  from every transfer, which the handlers do not look for.
- *Seams.* Ceilings are enforced on incremental totals. They must be the sums
  they stand for, and an emission schedule must end when it said it would. One of
  the totals was added by an upgrade and starts at zero whatever is there; from
  then on it may read too little by what it missed, and by no more.
- *Keepers.* A bond must stay within reach during the cooldown, activity and
  count must stay in step through three handlers, and the bond vault must hold
  the bonds although anybody can send to it.
- *Events.* Some carry totals, some differences, captured at different points of
  a handler; a reader who sees only them must end up with the accounts.
- *Root account.* No handover may leave the vault without a working authority,
  and no parameter set may pass that breaks the queue.

## Modules

| Module | Models | Remarks |
|---|---|---|
| `LodzMath` | `math.rs` | plus `Total`, the sum the properties compare running totals with |
| `StopePool` | pools and positions | one action per handler's share of the work: `MintShares`, `BookYield`, `BurnShares` |
| `RedemptionPromise` | abstract | what the queue promises: fixed terms, a due date within bounds, kept once, not early, in the end |
| `Orecart` | queue | `Issue`, `Settle`, `Tick`; implements `RedemptionPromise` |
| `Custody` | assets and transfers | `TakeDeposit`, `TakeYield`, `PayOut`, `RegisterAdit`; `SendDirectly` is the outside world |
| `SeamRegistry` | seams and weights | `RegisterSeam`, `UpdateAllocation`, `SeamAccrues`, `Tick` |
| `KeeperBond` | bonds | `Bond`, `Unbond`, `Slash`, `Rebalance`, `Tick`; `SendToBondVault` and `SpendTreasury` are the outside world |
| `VaultAdmin` | root account | the seven instructions, each signed by a key |
| `Indexer` | events | one rule per event: what the reader of the log concludes from it |
| `VaultLedger` | abstract | what the program promises about value: credited, backing shares, owed to tickets, settled, in that order and without loss |
| `LodzVault` | the program | every one of the 17 instructions of `lib.rs`, a conjunction of component actions and the event; implements `VaultLedger` |
| `MC*` | instances for TLC | values of the constants; `MCLodzVault` also a start after set-up, `MCSeamRegistry` a start after an upgrade |
| `LodzMathProofs` | lemmas | sums, division, the sums over sets that the books are compared with |
| `StopePoolProofs`, `OrecartProofs`, `CustodyProofs`, `SeamRegistryProofs`, `KeeperBondProofs`, `VaultAdminProofs` | proofs | of one component each |
| `LodzVaultProofs` | proofs | the composition: every instruction is a step or a stutter of every component and of `VaultLedger` |

A transaction is one step. A component's action is its share of the handler:
`request_redemption`, for example, is `Pool!BurnShares /\ Queue!Issue` and the
guards of the handler itself, in `LodzVault!RequestRedemption`. The components
are instantiated (`INSTANCE`), so what the component runs check is the very
definition the composition uses; `now` is shared, and `LodzVault!Tick` advances
the clocks of all components at once.

Correspondence conventions:

- A failed `require!` or checked operation is a disabled action. Operators in
  `LodzMath` return the mathematical value and the action has `Fits64`,
  `Fits128` or `FitsI64` of it among its guards. `saturating_sub` is
  `SaturatingSub` wherever the code has it.
- The three kinds of yield are three families of fields in the code and
  functions on `YieldKind` here. `opened` stands for `owner != Pubkey::default()`.
- Optional accounts are functions whose domain is what has been created
  (`ticket`, `seam`, `adit`). Account constraints (seeds, `has_one`) are modelled
  by what they select.
- `stope[s]`, `allocation[s]`, `reserve[s]` are disjoint fields of one Stope
  account, as `miner` and `position` are of one Miner account; each component
  keeps the fields only it moves.
- `Custody!TakeYield` is what `accrue_yield` does to the asset; its guard that the
  stope has shares (`accrual.rs:143`) is `Pool!BookYield`'s, and the two are one
  step of `LodzVault!AccrueYield`.
- `VaultAdmin!nominator`, who signed the last nomination, and
  `Custody!withheld`, what transfer fees kept from transfers that were booked in
  full, are history variables: nothing reads them but properties. `view` and
  `custody_view` are the memory of the log's reader, not of the program.
- An event is emitted by the action of its instruction, with the values its
  handler captured: `stope'` where the handler reads the account after the
  change, `stope` where before. The reader's rule is applied in the same step, so
  the log is complete and in order, as the chain keeps it.
- Operators called mutants are deliberately wrong forms of the definition that
  follows them. No specification uses them; substituting one must make TLC find
  the property it is paired with violated.

## Runs

Widths and scales are constants, so TLC runs with a `u64` of a few units. That
makes overflow, which no test reaches at 2^64, an ordinary event, and the
fixed-point scale small enough for rounding to show at every step.

| Run | States | Shows | Bounds, and why they suffice |
|---|---|---|---|
| `pool` | 295,633 | shares, backing and attribution stay sound for two owners, and the pool's guards let any part of a position go | all amounts of a `u64` of 0..5, the smallest width at which a deposit is rounded down and still accepted; scale 2. The run needs no other bound: lifetime totals stop at the width. Two owners: the hazards are between one who earned and one who came later. One kind: the three are moved alike, field by field |
| `queue` | 126,685 | books match tickets, waits cover the backlog, addresses never collide; the queue implements its promise and keeps it in the end, unless a lifetime counter is full | two owners in two stopes with up to two tickets in each, three in all (`MaxTickets`), which is enough for a collision, a claim out of order and a wait behind another owner's ticket; terms of 1 and of 6 in a `u64` of 0..15, so that three large tickets are more than `total_claimed` can count and the last one is stranded; delays from 1 to the ceiling 3, time to 4, so that a ticket waits the base delay, more, or the ceiling; under fairness |
| `keepers` | 719,890 | bonds covered and within reach, count, cooldown | two keepers, 3 $LODZ each, minimum 2, cooldown 2, time to 3; a `u64` of 0..7, which the slashes of a keeper can fill because the treasury may spend and the tokens come back |
| `seams` | 26,728 | totals, ceilings, schedules, legacy weight | one new seam beside two legacy ones of 2000 bps, in the balanced stope, where the counterparty ceiling is 0, and in the aggressive one, where it is 3000; the real ceilings, weights on both sides of each |
| `admin` | 193 | authority, nomination, parameters | three keys, a lost key, the default key, every parameter bound broken once; deadlock checked |
| `vault_money` | 241,329 | solvency and covered books across two assets of different ratios | opened vault; two units of each asset, one of them with and without a transfer fee of half the amount, one seam, two tickets |
| `vault_owners` | 123,696 | agreement of the two yield records, payability, the reasons for which a redemption is refused, every ticket paid in the end, with two owners and two kinds, pause and handover at any moment | one asset at 3/2, three units of it, which are worth all of a `u64` of 0..4; a signing authority; time to 2 with one second of delay, so that what a claim paid out can be deposited and redeemed again and only the check at the deposit keeps the lifetime counters within their width; under fairness |
| `vault_genesis` | 324,403 | from nothing on chain, every instruction: the log rebuilds the accounts, the program implements `VaultLedger` | one of everything, a cap, a slash and a weight, time to 2. The stope is the conservative one, where counterparty weight is 0: that the reader's differences of it are right where it is not is the theorem `LogReplaysAccounts` only |

`MaxTime` bounds the clock in every module that has one. `MCOrecart!MayRequest`
and `LodzVault!TimeToClaim` stop requests when the clock could no longer reach
the date a ticket is quoted; without them a ticket could be stranded by the end
of the model's time. `MayRequest` also bounds the number of tickets. Nothing
bounds the lifetime counters but their width. `LodzVault!TreasurySpends` stops
the treasury's own transfers once a keeper was slashed of more than it ever had;
without it the instance's few tokens are slashed until `slashed_amount` is full,
as they are in `keepers`. The theorems
about `Orecart` and `KeeperBond` are about their own `Spec`, which has none of
these bounds but `MaxTime`.

Where a lifetime counter can really fill up: `total_redeemed`, `withdrawn` and
`total_claimed` only grow, and their sums outlive the principal they count. In a
vault with one asset they are bounded by that asset's `total_normalized`, which
counts all credit ever given and is checked at the deposit; so a deposit fails
before a claim can, which is what `OneAssetAlwaysPays` says and `vault_owners`
checks at the edge. With several assets each has a `total_normalized` of its
own, and a stope's counters can pass `u64` while none of them does: there a
ticket can be stranded, and `EveryTicketClaimed` says that this is the one way.

A `U32Max` of 1 or 2 bounds tickets per position as the field's width does in
the program, and `TypeOK` fails if the check is off by one.

`OpenedSpec` starts `LodzVault` initialized, unpaused, with assets, seams and
keepers in place. This is a state the set-up instructions lead to
(`vault_genesis` runs them), taken as initial so that the states are spent on
what follows. In `vault_money` the authority is a key of `LostKeys`: an
authority that does nothing. What it could do to money, pausing, is in
`vault_owners`.

### Divergences between comments and code

Four runs check a sentence of the repository's own comments and find it violated
(`PROJECT.json`, "findings", has the quotes):

- `pool_fee_basis`: the yield that leaves with some shares can exceed what they
  are worth, because each kind is rounded on its own and against balances
  settled at earlier ratios. The `min` in the fee basis, called not "an expected
  branch", is needed (`redemption.rs:177`).
- `custody_cap`: after a deposit up to the cap, `accrue_yield` takes
  `total_deposited` past `deposit_cap` (`state/adit.rs:44`).
- `vault_reserve`: nothing reserves the payout of a queued ticket. The asset is
  the caller's choice at the request and its balance is first read at the claim,
  so queued payouts in one asset can exceed what is held of it, although the
  vault as a whole is solvent (`state/mod.rs:295`).
- `indexer_custody`: `YieldAccrued` has the amount in internal units, while
  `total_deposited` moves in native ones. Where several native amounts are worth
  the same, here 2 and 3 at a ratio of 1/2, the log does not say what is held of
  an asset (`docs/architecture.md:348`).

Disagreements that other runs show in passing:

- `state/stope.rs:97` says of a stope whose counterparty ceiling is 0, and that
  held such weight before the ceiling, that "every further change is rejected
  anyway". It is not: the change of a legacy seam to 0 is admitted, since the
  total that misses it stays at 0, and so is every change of a seam of another
  kind. `WindDownAlwaysPossible` needs the former, `LegacyWeightOnlyWindsDown`
  says what is left of the sentence, and the handler has it right for an expired
  seam: "winding an expired seam down to zero is always allowed"
  (`instructions/keeper.rs:309`).
- The same comment calls the under-count harmless where the ceiling is 0. Where
  it is not, in the aggressive stope, old weight can be wound down and new weight
  take its place beyond the ceiling of 3000 bps, by as much as the total missed:
  the margin in `ExposureWithinProfile`, which `seams` reaches.
- `state/config.rs:27` says that the fee is "charged on the gross payout of an
  Orecart ticket". The code takes it of the yield that leaves with the shares and
  of nothing else (`redemption.rs:167`, "on realized yield, never on principal"),
  and so does `Terms`.

Seen while modelling, without a property about it: `RedemptionRequested` carries no
stope total after the change, `SeamRegistered` and `SeamRebalanced` no
counterparty total, `KeeperSlashed` no `keeper_count` (`events.rs:4` says totals
are emitted, not just differences; the reader in `Indexer` has to apply
differences there, and `ReplayMatchesAccounts` shows that it can), and
`VaultInitialized` leaves out `keeper_unbond_cooldown_sec`, so the end of a
cooldown cannot be read off the log at all: `Accounts` has no `unbond_ready_at`.
`total_deposited` is described as what is "currently custodied"
(`state/adit.rs:49`), which for a mint with a transfer fee it overstates;
`BooksCoveredByCustody` says by how much.

### Fairness

`Orecart!Fairness` and `LodzVault!Fairness`: the clock keeps running, which the
validators see to, and an owner whose ticket can be claimed does claim it in the
end, which is the owner's own interest and needs no other signature
(`ClaimRedemption` has only the owner as signer). No property needs the claims of
another owner: `EveryTicketClaimed` and `OneAssetPaysEveryTicket` are about each
ticket and its own owner's claim. Weak fairness is enough: a claim that is
enabled stays enabled until made, but for a lifetime counter that another claim
fills, which `EveryTicketClaimed` excepts and `OneAssetAlwaysPays` excludes.
Nobody is assumed to request, deposit, report or unpause.

What is *not* promised: a backlog whose wait does not fit an i64 (`math.rs:132`)
shuts out new requests of its stope for as long as its owners do not claim, and
nothing makes them. The guard is in the model; no property says that it ends.

## Proofs

Every theorem is about the very module TLC checks, for every value of its
constants that satisfies the named assumption of that module.

| Module | Theorem | Says |
|---|---|---|
| `StopePoolProofs` | `TypeCorrect` | `Spec => []TypeOK` |
| | `PoolAlwaysMatchesPositions` | `Spec => []PoolMatchesPositions` |
| | `BackingNeverLost` | `Spec => []ShareNeverUnderwater` |
| | `SharePriceIsMonotone` | `Spec => SharePriceNeverFalls` |
| | `YieldIsNeverInvented` | `Spec => []AttributionNeverExceedsAccrued` |
| | `NothingOutlivesItsShares` | `Spec => []NoYieldWithoutShares` |
| | `EntitlementIsNeverDiluted` | `Spec => OnlyAccrualMovesEntitlement` |
| | `SettlingAlwaysFits` | `Spec => []SettlementNeverFails` |
| | `PoolNeverBlocksBurns` | `Spec => []PoolLetsSharesGo` |
| `OrecartProofs` | `QueueTypeCorrect` | `Spec => []TypeOK` |
| | `QueueImplementsPromise` | `Spec => ImplementsPromise` |
| | `NoTicketIsLockedOut` | `Spec => []NextTicketAddressFree` |
| | `TicketsKeepIssueOrder` | `Spec => []PositionsFollowIssueOrder` |
| | `BooksAlwaysMatch` | `Spec => []BooksMatchTickets` |
| | `WaitAlwaysCoversBacklog` | `Spec => []WaitCoversBacklog` |
| `KeeperBondProofs` | `KeepersTypeCorrect`, `CountIsExact`, `BondsAreFunded` | the types, `CountMatchesActiveKeepers`, `BondsCovered` |
| | `BondHeldThroughCooldown`, `BondsAlwaysSlashable` | `BondStaysThroughCooldown`, `BondAlwaysSlashable` |
| `SeamRegistryProofs` | `RegistryTypeCorrect`, `TotalsAlwaysMatchSeams` | the types, `TotalsMatchSeams` |
| | `ExposureStaysWithinProfile`, `WindDownNeverRefused` | `ExposureWithinProfile`, `WindDownAlwaysPossible` |
| | `LegacyWeightNeverGrows`, `DisclosureIsBinding` | `LegacyWeightOnlyWindsDown`, `DisclosureBinds` |
| `CustodyProofs` | `CustodyTypeCorrect`, `CustodyCoversBooks`, `OnlyFeesAreWithheld` | the types, `BooksCoveredByCustody`, `FeelessWhole` |
| `VaultAdminProofs` | `AdminTypeCorrect`, `AuthorityNeverLost` | the types, `AuthorityCanSign` |
| | `NoStaleNomination`, `ParametersAlwaysSound` | `NominationIsCurrent`, `ParametersAreSound` |
| `LodzVaultProofs` | `ProgramRunsComponents` | `Spec` implies the `Spec` of each of the six components |
| | `ProgramTypeCorrect` | `Spec => []TypeOK`, of the whole state |
| | `CustodyAlwaysCoversBooks` | `Spec => []BooksCoveredByCustody` |
| | `StopesAlwaysBookWhatSeamsReport` | `Spec => []StopesBookWhatSeamsReport` |
| | `ProgramImplementsLedger` | `Spec => ImplementsLedger` |
| | `NothingIsLost`, `TotalsLoseNothing` | `Spec => []Books!Conserved`, `Spec => []Totals!Conserved` |
| | `VaultAlwaysSolvent` | `Spec => []Solvent` |
| | `OneAssetAlwaysPaysTickets` | `Spec => []OneAssetAlwaysPays` |
| | `LogReplaysAccounts` | `Spec => []ReplayMatchesAccounts` |

*The assumptions* are what the literals of the code and `initialize_vault`
guarantee: positive widths and scales, and an index scale of at most 2^64
(`MathAssumption`; 10^12 in the code), delays in order and a drain that is not
zero (`QueueAssumption`), weights and tiers that are naturals
(`RegistryAssumption`), a minimum bond that is not zero (`BondAssumption`), and
disjoint sets of keys that sign and of keys that are lost (`AdminAssumption`).
`LegacyAssumption` says that seams from before the upgrade met the rules of their
time, weights of at most 100% and the ceilings on emissions and risk; of their
counterparty weight it says nothing, in any stope. `CustodyAssumption` is a
definition that `LodzVault` assumes of its constants (`AssetsAssumption`).
`VaultAssumption` is the composition's; from it the assumption of every component
is derived where that component is instantiated, so no component theorem is used
under a condition the program does not meet. `LodzVault` starts from nothing on
chain, and so without legacy seams: there the registry's theorems give exact
totals.

### The invariants, and why they are needed

*Pool.* `PoolInv` is `TypeOK`, `PoolMatchesPositions` and `ShareNeverUnderwater`
together; neither of the last two is inductive alone. A redemption subtracts with
saturation: it keeps the totals exact only if the burned shares are among
`total_shares` and their value is at most `total_deposits`, and it leaves a
backed pool only if the pool was backed (`BurnKeepsBacking`: floor(n * td / ts)
units go for n shares). A deposit keeps the backing because
floor(n * ts / td) <= n when ts <= td (`MintKeepsBacking`).

*Yield.* `YieldInv` adds the potential: for each stope and kind, the sum over the
owners of `(accrued + claimed) * SCALE + shares * (index - snapshot)` is at most
`realized * SCALE` (`YieldBacked`). Settling a position moves value inside its
summand and floors, an accrual raises index and `realized` so that the flooring
of the index favours the pool, and a redemption moves between `accrued` and
`claimed`. It needs the snapshots to be in the past (`SnapshotsInThePast`), no
shares without an owner (`SharesAreOwned`), and nothing accrued without shares
(`NoYieldWithoutShares`), so that a late depositor starts at zero.
`SettlementNeverFails` and `PoolLetsSharesGo` follow, because everything
a settlement can reach is then bounded by a `realized` that fits its width.

*Queue.* `OrderInv` is about numbers: a position's addresses in use are those
below its `ticket_count` (`AddressesNumbered`), the stope's numbers are those
below its tail, and every request lies in the past (`RequestedInThePast`).
`BooksInv` adds that the tickets are finitely many and that the counters of each
stope (`StopeBook`) and position (`PositionBook`) are sums over them; a ticket's
amount is then at most what is pending (`PendingCoversTicket`), so no subtraction
saturates. `WaitInv` adds `WaitCoversBacklog`; a wait is monotone in the backlog,
and the backlog in front of a ticket never grows.

*Seams.* `RegistryInv`: the allocated and the emissions total are the sums over
the seams. The counterparty total is at most its sum, and the sum at most the
total and `UncountedBps`, what the upgrade found. Both bounds are kept by the
saturating subtraction in `reallocate`: where it saturates, the total loses less
than the sum does, and where it does not, both lose the same. With the ceilings
that `reallocate` holds the total to, `ExposureWithinProfile` follows, with that
margin; where the upgrade finds no counterparty weight the margin is 0.
*Keepers.* `BondInv` adds that the cooldown on the account is the one of the
last rebalance (`CooldownIsCurrent`). `BondsCovered` is kept by whoever sends to
the vault, and gives `slash_keeper` the tokens it moves. *Custody.* `CustodyInv`
adds that nothing is minted (`SupplyInv`), which is what keeps balances within
their width; the books stay below the balance also where a payout spends
unbooked units and the subtraction stops at zero. *Root account.* `AdminInv` is
the types, `AuthorityCanSign` and `NominationIsCurrent`: an acceptance leaves a
key that signs because the nominee itself signs it.

*The program.* `VaultInv` is what the steps of one component need of another: the
types of pool and queue, `RegistryInv`, `CustodyInv`, and that no registered
ratio has a zero (`RatiosPinned`). `NextAdvances` shows for each of the 17
instructions that it is, for every component, a step or a stutter (`Advance`).
The work is in the arguments: a request's terms must be terms the queue admits,
which is the bound on the value of the shares, the fee and the payout
(`TermsFit`), and a claim's payout must be one custody admits, an amount between
1 and the supply. `ProgramRunsComponents` follows, and with it every theorem
above holds in the program; `ProgramTypeCorrect` and `CustodyAlwaysCoversBooks`
are the two that a run checks of `LodzVault` as well.

*The ledger.* What `VaultLedger` moves is a sum in the program: over assets,
over tickets, over stopes. `LedgerInv` is `VaultInv`, `PoolInv`, `BooksInv` and
`VaultTotals`, which says that `total_normalized_deposits` is the sum of what the
stopes hold. For each instruction one summand moves: `MakeDeposit` and
`AccrueYield` credit (`CreditMoves`), `RequestRedemption` asks (`AskMoves`),
`ClaimRedemption` settles (`SettleMoves`), and every other one leaves all sums
alone. That the request asks for no more than backs the shares is `BurnIsExact`,
that the claim settles no more than is owed is `PendingCoversTicket`; with them
all four saturating subtractions of the two handlers are exact. `NothingIsLost`
is the consequence for the books: what was ever credited is what backs shares,
is owed or was settled.

*Solvency.* `SolventInv` is `LedgerInv`, `TicketsPriced` and `Solvent`. All assets
are brought to the product of their denominators, where the value held is a sum
over the assets without a rounding (`ValueHeld`, `UnitValues`). A credit adds to
the value at least what it adds to the obligations, since `to_normalized` floors
(`GainKeepsSolvent`); a claim takes at most what its ticket takes off them, since
its payout was floored when the ticket was issued (`LossKeepsSolvent`), which is
what `TicketsPriced` remembers of every ticket; a request moves value from shares
to a ticket; a new asset multiplies the common denominator and adds nothing to
either side (`RegisterAditSolvent`). `OneAssetAlwaysPaysTickets` reads this with
one asset, where the denominator divides out: the account covers each ticket
(`SoleAssetCovers`), `FeelessWhole` says that nothing of it was withheld, and
the counters of the claim are within all credit ever given
(`SoleAssetCountersFit`), by `Totals!Conserved` and by what the queue's books say
of a queued ticket (`TicketBooks`).

*Replay.* The reader's copy is compared part by part: the root, the assets, the
stopes, the shares, the keepers (`RootPart` to `KeeperPart`). For each event one
lemma says what its rule does to a record of parts, and one per instruction that
the accounts change by the same; `NextReplayed` puts them together. `ReplayInv`
needs `LedgerInv`, because the handlers subtract with saturation where the reader
of differences subtracts, `BondInv` for the keepers, and that no authority is
nominated before the vault exists (`UnbornHasNoHeir`). That the counterparty
differences of a stope replay needs `WeightIsCounted`: a seam's weight is within
its stope's total, which holds because the program has no legacy seams.

*Two tiers.* The lemmas about single steps assume `Proved`, a list of what is
used of each component; the last part of `LodzVaultProofs` instantiates the
components' proofs and discharges it (`ComponentsProved`), one component at a
time (`SameCustody` to `SameAdmin` say that both instances mean the same).

### Sums and induction

The library's induction theorems take the induction predicate as a parameter,
which the available provers cannot instantiate, so each induction is done with a
least counterexample (`LeastNat`, `UpTo`): the set of indices at which a claim
fails has a minimal element, which is neither 0 nor a successor.
`LodzMathProofs` proves in this way what is needed of `Total`, a sum over 1..N,
and of `SumFunctionOnSet`, the community modules' sum over a finite set. The
latter is a fold that picks its elements with CHOOSE; by induction on the size of
the set, the order does not matter (`SetSumAnyOrder`) and neither does the set
the fold was started on (`SetSumAnyDomain`), from which `SumPlusOne` and
`SumGrows` follow, and with products the sums over assets at a common denominator
(`SumScaled`, `ValueHeldType`, `OneAssetMore`). `MulDivFloorBounds` is the one fact
about division that everything rests on.

## Only model-checked, and why

- Liveness under fairness (`EveryTicketClaimed`, `OneAssetPaysEveryTicket`) is out
  of the prover's reach.
- `OneAssetAlwaysRedeems` relates a request's guards to the totals of every
  component; it is checked at small widths, not proved. `PoolNeverBlocksBurns`
  is the pool's part of it, for every size.

## Not modelled, and why

- Error codes, the interface description and the tests: output or documentation,
  nothing reads them.
- The indexer service is not in the repository. `Indexer` is what can be
  concluded from the events, by a reader who misses none.
- Labels, decimals, custody kinds, venues, timestamps that are only recorded,
  `rebalance_count`, `accrual_count`, `slash_count`: no instruction reads them.
  `miner_count`, `adit_count`, `seam_count` and `keeper_count` are counted
  without their 16 or 32 bit ceilings, whose guards bite only after tens of
  thousands of accounts.
- `Stope::paused`, `Adit::paused` and `Seam::active`: no instruction changes
  them after the account is created.
- Freezes and closed token accounts: the token program is external. Transfer
  fees are modelled, as a flag per mint and half of the amount, for assets that
  are custodied; the mint of the bonds charges none.
- $LODZ that comes from elsewhere: all of it is the keepers' and the bond vault's
  or the treasury's at any time, and what the treasury spends goes to a keeper.
  More of it in other hands would change who can send, not what can arrive.
- The off-chain services that the docs describe are not in the repository.
- `open_stope` in `LodzVault` opens the stopes of the instance; `VaultAdmin` on
  its own opens all three, and one that does not exist.

## Plan

Done: all component modules and their composition, the two abstract
specifications, the reader of the log, the runs above, and the proofs of every
safety property of the components and of the composition but
`OneAssetAlwaysRedeems`.

Left:

1. `OneAssetAlwaysRedeems`, proved from `PoolNeverBlocksBurns`,
   `Totals!Conserved` and the queue's books.
2. Further runs where they ask a new question: two owners racing for the
   liquidity of one of two assets, and three stopes under one vault.
