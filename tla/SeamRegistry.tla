---------------------------- MODULE SeamRegistry ----------------------------
(***************************************************************************)
(* The registry of yield sources (state/seam.rs) and the routing weights   *)
(* each stope adds up over its seams (Stope::reallocate): what             *)
(* register_seam, update_seam_allocation and accrue_yield do to them.      *)
(*                                                                         *)
(* Weights are basis points.  The venue's name, its program and the        *)
(* rebalance times are left out: nothing reads them.                       *)
(***************************************************************************)
EXTENDS LodzMath, FiniteSets

CONSTANTS
    NumSeams,       \* seam ids in use are among 1..NumSeams
    Stope,          \* stopes that are open; stope n has stope_id n - 1
    Asset,          \* the asset a seam deploys
    Mint,           \* mints an emission can be paid in
    NoMint,         \* Pubkey::default()
    Weights,        \* allocations that callers ask for
    Tiers,          \* risk tiers that callers declare
    LegacySeams,    \* a function from seam ids to Seam accounts: what was
                    \* registered before stopes had the field counterparty_bps
    MaxTime         \* bound on the clock

SeamId == 1..NumSeams

\* state/mod.rs: enum YieldKind
YieldKind == {"Sustainable", "Emissions", "Counterparty"}

ASSUME RegistryAssumption ==
    /\ NumSeams \in Nat
    /\ Stope \subseteq 1..3
    /\ NoMint \notin Mint
    /\ Weights \subseteq Nat
    /\ Tiers \subseteq Nat
    /\ MaxTime \in Nat

VARIABLES
    now,
    seam,           \* a function from the registered seam ids to Seam accounts
    allocation,     \* [Stope -> routing fields of the Stope account]
    seam_count      \* field of VaultConfig

vars == <<now, seam, allocation, seam_count>>

IsSeamOf(x, s, kinds) == x.stope_id = s /\ x.yield_kind \in kinds

\* The weight that the seams of a stope of some kinds carry.
WeightsOf(seams, s, kinds) ==
    [id \in SeamId |->
        IF id \in DOMAIN seams /\ IsSeamOf(seams[id], s, kinds)
        THEN seams[id].allocation_bps ELSE 0]

RoutedBps(seams, s, kinds) == Total(WeightsOf(seams, s, kinds), NumSeams)

(***************************************************************************)
(* A stope as this version of the program first reads it.  The older       *)
(* totals stand for the seams there are, while counterparty_bps, taken     *)
(* from reserved bytes, decodes as zero whatever they carry.               *)
(***************************************************************************)
Decoded(s) ==
    [allocated_bps    |-> RoutedBps(LegacySeams, s, YieldKind),
     emissions_bps    |-> RoutedBps(LegacySeams, s, {"Emissions"}),
     counterparty_bps |-> 0,
     seam_count       |-> Cardinality({id \in DOMAIN LegacySeams :
                                            LegacySeams[id].stope_id = s})]

Init ==
    /\ now = 0
    /\ seam = LegacySeams
    /\ allocation = [s \in Stope |-> Decoded(s)]
    /\ seam_count = Cardinality(DOMAIN LegacySeams)

-----------------------------------------------------------------------------
(***************************************************************************)
(* RiskProfile: what the profile of a stope admits, fixed to its id.       *)
(***************************************************************************)
MAX_BPS       == BPS_DENOMINATOR
MIN_RISK_TIER == 1
MAX_RISK_TIER == 5

MaxEmissionsBps(s)    == <<2000, 5000, 10000>>[s]
MaxCounterpartyBps(s) == <<0, 0, 3000>>[s]
MaxRiskTier(s)        == <<2, 3, 5>>[s]

SeamRecord ==
    [stope_id : Stope, asset_mint : Asset, yield_kind : YieldKind,
     risk_tier : MIN_RISK_TIER..MAX_RISK_TIER, allocation_bps : 0..MAX_BPS,
     emission_ends_at : 0..MaxTime, emission_mint : Mint \cup {NoMint},
     realized_yield : U64, last_accrual_at : 0..MaxTime]

\* Legacy seams met the rules of their time, which had no ceiling on
\* counterparty weight: any stope may carry any amount of it.
ASSUME LegacyAssumption ==
    /\ DOMAIN LegacySeams \subseteq SeamId
    /\ \A id \in DOMAIN LegacySeams :
        LET x == LegacySeams[id]
        IN  /\ x \in SeamRecord
            /\ x.risk_tier <= MaxRiskTier(x.stope_id)
    /\ \A s \in Stope :
        /\ RoutedBps(LegacySeams, s, YieldKind) <= MAX_BPS
        /\ RoutedBps(LegacySeams, s, {"Emissions"}) <= MaxEmissionsBps(s)

(***************************************************************************)
(* Stope::reallocate: move one seam's weight, then hold the stope to all   *)
(* three ceilings.  Widths are no concern: MAX_BPS twice fits u16.         *)
(***************************************************************************)
\* Mutant: the seam's old weight stays in the total.
MovedOnto(total, previous, next) == total + next

Moved(total, previous, next) == SaturatingSub(total, previous) + next

\* Mutant: old and new weight swapped.
ReallocatedBack(a, kind, previous, next) ==
    [a EXCEPT
        !.allocated_bps = Moved(@, next, previous),
        !.emissions_bps =
            IF kind = "Emissions" THEN Moved(@, next, previous) ELSE @,
        !.counterparty_bps =
            IF kind = "Counterparty" THEN Moved(@, next, previous) ELSE @]

Reallocated(a, kind, previous, next) ==
    [a EXCEPT
        !.allocated_bps = Moved(@, previous, next),
        !.emissions_bps =
            IF kind = "Emissions" THEN Moved(@, previous, next) ELSE @,
        !.counterparty_bps =
            IF kind = "Counterparty" THEN Moved(@, previous, next) ELSE @]

\* Mutants: one ceiling forgotten.
WithinProfileCeilings(s, a) ==
    /\ a.emissions_bps <= MaxEmissionsBps(s)
    /\ a.counterparty_bps <= MaxCounterpartyBps(s)

WithinEmissionsCeiling(s, a) ==
    /\ a.allocated_bps <= MAX_BPS
    /\ a.emissions_bps <= MaxEmissionsBps(s)

WithinCeilings(s, a) ==
    /\ a.allocated_bps <= MAX_BPS
    /\ a.emissions_bps <= MaxEmissionsBps(s)
    /\ a.counterparty_bps <= MaxCounterpartyBps(s)

CanReallocate(s, kind, previous, next) ==
    /\ next <= MAX_BPS
    /\ WithinCeilings(s, Reallocated(allocation[s], kind, previous, next))

\* Seam::validate_emission_fields
ValidEmissionFields(kind, emissionEndsAt, emissionMint) ==
    IF kind = "Emissions"
    THEN emissionEndsAt > now /\ emissionEndsAt # 0 /\ emissionMint # NoMint
    ELSE emissionEndsAt = 0 /\ emissionMint = NoMint

\* Mutant: still open at the end of the schedule.
AccrualWindowClosesLate(x, time) ==
    x.yield_kind = "Emissions" => time <= x.emission_ends_at

\* Seam::accrual_window_open
AccrualWindowOpen(x, time) ==
    x.yield_kind = "Emissions" => time < x.emission_ends_at

-----------------------------------------------------------------------------
RegisterSeam(id, s, declared) ==
    /\ id \notin DOMAIN seam
    /\ declared.risk_tier \in MIN_RISK_TIER..MAX_RISK_TIER
    /\ ValidEmissionFields(declared.yield_kind, declared.emission_ends_at,
                           declared.emission_mint)
    /\ declared.risk_tier <= MaxRiskTier(s)
    /\ CanReallocate(s, declared.yield_kind, 0, declared.allocation_bps)
    /\ allocation' = [allocation EXCEPT ![s] =
            [Reallocated(allocation[s], declared.yield_kind, 0,
                         declared.allocation_bps) EXCEPT !.seam_count = @ + 1]]
    /\ seam' = [i \in DOMAIN seam \cup {id} |->
            IF i # id THEN seam[i] ELSE
            [stope_id         |-> s,
             asset_mint       |-> declared.asset_mint,
             yield_kind       |-> declared.yield_kind,
             risk_tier        |-> declared.risk_tier,
             allocation_bps   |-> declared.allocation_bps,
             emission_ends_at |-> declared.emission_ends_at,
             emission_mint    |-> declared.emission_mint,
             realized_yield   |-> 0,
             last_accrual_at  |-> 0]]
    /\ seam_count' = seam_count + 1
    /\ UNCHANGED now

\* update_seam_allocation, without the keeper (KeeperBond) and the pause.
UpdateAllocation(id, newAllocationBps) ==
    LET x == seam[id]
    IN  /\ newAllocationBps > 0 => AccrualWindowOpen(x, now)
        /\ CanReallocate(x.stope_id, x.yield_kind, x.allocation_bps,
                         newAllocationBps)
        /\ allocation' = [allocation EXCEPT ![x.stope_id] =
                Reallocated(@, x.yield_kind, x.allocation_bps, newAllocationBps)]
        /\ seam' = [seam EXCEPT ![id].allocation_bps = newAllocationBps]
        /\ UNCHANGED <<now, seam_count>>

\* accrue_yield, without the keeper, the transfer and the pool.
SeamAccrues(id, normalized) ==
    /\ AccrualWindowOpen(seam[id], now)
    /\ normalized > 0
    /\ Fits64(seam[id].realized_yield + normalized)
    /\ seam' = [seam EXCEPT ![id].realized_yield = @ + normalized,
                            ![id].last_accrual_at = now]
    /\ UNCHANGED <<now, allocation, seam_count>>

Tick ==
    /\ now < MaxTime
    /\ now' = now + 1
    /\ UNCHANGED <<seam, allocation, seam_count>>

Declarations ==
    [yield_kind : YieldKind, risk_tier : Tiers, allocation_bps : Weights,
     asset_mint : Asset, emission_ends_at : 0..MaxTime,
     emission_mint : Mint \cup {NoMint}]

Next ==
    \/ \E id \in SeamId, s \in Stope, declared \in Declarations :
            RegisterSeam(id, s, declared)
    \/ \E id \in DOMAIN seam :
        \/ \E bps \in Weights : UpdateAllocation(id, bps)
        \/ \E normalized \in U64 : SeamAccrues(id, normalized)
    \/ Tick

Spec == Init /\ [][Next]_vars

-----------------------------------------------------------------------------
(***************************************************************************)
(* Types of the registry's state.                                          *)
(***************************************************************************)
TypeOK ==
    /\ now \in 0..MaxTime
    /\ DOMAIN seam \subseteq SeamId
    /\ \A id \in DOMAIN seam : seam[id] \in SeamRecord
    /\ allocation \in [Stope ->
            [allocated_bps : 0..MAX_BPS, emissions_bps : Nat,
             counterparty_bps : Nat, seam_count : 0..NumSeams]]
    /\ seam_count \in 0..NumSeams

\* The counterparty weight that no total knew of at the upgrade.
UncountedBps(s) == RoutedBps(LegacySeams, s, {"Counterparty"})

(***************************************************************************)
(* Two of a stope's running totals are the weights of its seams at all     *)
(* times.  The third, counterparty_bps, starts at 0 whatever is there      *)
(* (state/stope.rs), and changes of legacy seams, where the saturating_sub *)
(* in reallocate does saturate, shift it against the seams.  It never      *)
(* reads too much, and too little by no more than what it missed at the    *)
(* upgrade: no sequence of changes makes the drift grow, and without       *)
(* legacy weight there is none.                                            *)
(***************************************************************************)
TotalsMatchSeams ==
    \A s \in Stope :
        LET carried == RoutedBps(seam, s, {"Counterparty"})
        IN  /\ allocation[s].allocated_bps = RoutedBps(seam, s, YieldKind)
            /\ allocation[s].emissions_bps = RoutedBps(seam, s, {"Emissions"})
            /\ allocation[s].counterparty_bps <= carried
            /\ carried <= allocation[s].counterparty_bps + UncountedBps(s)

(***************************************************************************)
(* A stope is never exposed beyond its risk profile by more than it was    *)
(* at the upgrade: what its seams really carry is within the ceilings, for *)
(* counterparty weight after a margin of what no total knew of then.  The  *)
(* margin is not only for legacy seams: where the ceiling is not 0, their  *)
(* weight can be wound down and new weight take its place, beyond the      *)
(* ceiling.  No seam is riskier than its stope admits.                     *)
(***************************************************************************)
ExposureWithinProfile ==
    \A s \in Stope :
        /\ RoutedBps(seam, s, YieldKind) <= MAX_BPS
        /\ RoutedBps(seam, s, {"Emissions"}) <= MaxEmissionsBps(s)
        /\ RoutedBps(seam, s, {"Counterparty"})
                <= MaxCounterpartyBps(s) + UncountedBps(s)
        /\ \A id \in DOMAIN seam :
            seam[id].stope_id = s => seam[id].risk_tier <= MaxRiskTier(s)

(***************************************************************************)
(* A seam can be wound down to zero whatever happened to it or to the      *)
(* other seams of its stope (instructions/keeper.rs, "Winding an expired   *)
(* seam down to zero is always allowed"): reallocate checks every ceiling, *)
(* also for a change that only frees weight.                               *)
(***************************************************************************)
WindDownAlwaysPossible ==
    \A id \in DOMAIN seam :
        CanReallocate(seam[id].stope_id, seam[id].yield_kind,
                      seam[id].allocation_bps, 0)

(***************************************************************************)
(* Where no counterparty weight is admitted, what was there before the     *)
(* ceiling never grows, although no total knows of it: a seam that has     *)
(* been wound down stays down, and none takes its place.  state/stope.rs:  *)
(* 97-99 goes further, "every further change is rejected anyway", which is *)
(* not so: the change of such a seam to 0 is admitted.                     *)
(***************************************************************************)
LegacyWeightOnlyWindsDown ==
    [][\A s \in Stope : MaxCounterpartyBps(s) = 0 =>
        RoutedBps(seam', s, {"Counterparty"})
            <= RoutedBps(seam, s, {"Counterparty"})]_vars

(***************************************************************************)
(* What a seam disclosed when it was registered binds it: the date and the *)
(* kind never change, and from that date on it books nothing and is given  *)
(* no more weight.                                                         *)
(***************************************************************************)
Expired(x) == x.yield_kind = "Emissions" /\ now >= x.emission_ends_at

DisclosureBinds ==
    [][\A id \in DOMAIN seam :
        LET x == seam[id]
            y == seam'[id]
        IN  /\ y.yield_kind = x.yield_kind
            /\ y.emission_ends_at = x.emission_ends_at
            /\ Expired(x) => /\ y.realized_yield = x.realized_yield
                             /\ y.allocation_bps \in {x.allocation_bps, 0}]_vars

-----------------------------------------------------------------------------
(***************************************************************************)
(* What the totals rest on.  Ceilings are kept by reallocate itself.       *)
(***************************************************************************)
RoutingRecord == [allocated_bps : Nat, emissions_bps : Nat,
                  counterparty_bps : Nat, seam_count : Nat]

SeamsTyped == DOMAIN seam \subseteq SeamId /\ \A id \in DOMAIN seam : seam[id] \in SeamRecord

RoutingTyped ==
    allocation \in [Stope -> [allocated_bps : Nat, emissions_bps : Nat,
                              counterparty_bps : Nat, seam_count : Nat]]

SeamsCounted ==
    /\ seam_count = Cardinality(DOMAIN seam)
    /\ \A s \in Stope :
        allocation[s].seam_count
            = Cardinality({id \in DOMAIN seam : seam[id].stope_id = s})

TiersAdmitted ==
    \A id \in DOMAIN seam : seam[id].risk_tier <= MaxRiskTier(seam[id].stope_id)

RegistryInv ==
    /\ now \in 0..MaxTime
    /\ SeamsTyped
    /\ RoutingTyped
    /\ SeamsCounted
    /\ TiersAdmitted
    /\ \A s \in Stope : WithinCeilings(s, allocation[s])
    /\ TotalsMatchSeams
=============================================================================
