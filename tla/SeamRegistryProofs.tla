------------------------- MODULE SeamRegistryProofs -------------------------
(***************************************************************************)
(* Theorems about SeamRegistry, for any number of seams, any weights and   *)
(* any registry that LegacyAssumption lets an upgrade find.                *)
(***************************************************************************)
EXTENDS SeamRegistry, LodzMathProofs

USE MathAssumption, RegistryAssumption

LEMMA Ceilings ==
    /\ MAX_BPS \in Nat
    /\ \A s \in Stope : /\ MaxEmissionsBps(s) \in Nat
                        /\ MaxCounterpartyBps(s) \in Nat
                        /\ MaxRiskTier(s) \in Nat
<1>1. \A s \in 1..3 : /\ MaxEmissionsBps(s) \in Nat
                      /\ MaxCounterpartyBps(s) \in Nat
                      /\ MaxRiskTier(s) \in Nat
  BY DEF MaxEmissionsBps, MaxCounterpartyBps, MaxRiskTier
<1> QED
  BY <1>1 DEF MAX_BPS

(***************************************************************************)
(* Sums of weights.                                                        *)
(***************************************************************************)
Typed(seams) == \A id \in DOMAIN seams : seams[id].allocation_bps \in Nat

LEMMA WeightsType ==
    ASSUME NEW seams, Typed(seams), NEW s, NEW kinds
    PROVE  /\ WeightsOf(seams, s, kinds) \in [1..NumSeams -> Nat]
           /\ RoutedBps(seams, s, kinds) \in Nat
<1>1. WeightsOf(seams, s, kinds) \in [1..NumSeams -> Nat]
  BY DEF Typed, WeightsOf, SeamId
<1> QED
  BY <1>1, TotalType DEF RoutedBps

LEMMA UncountedType == \A s : UncountedBps(s) \in Nat
<1>1. Typed(LegacySeams)
  BY LegacyAssumption, Ceilings DEF SeamRecord, Typed
<1> QED
  BY <1>1, WeightsType DEF UncountedBps

\* Without legacy seams there is nothing that a total could miss.
LEMMA NothingUncounted ==
    ASSUME LegacySeams = <<>>
    PROVE  \A s : UncountedBps(s) = 0
<1> SUFFICES ASSUME NEW s PROVE UncountedBps(s) = 0
  OBVIOUS
<1> DEFINE f == WeightsOf(LegacySeams, s, {"Counterparty"})
<1>1. \A i \in 1..NumSeams : f[i] = 0
  BY DEF WeightsOf, SeamId
<1>2. f \in [1..NumSeams -> Nat]
  BY DEF WeightsOf, SeamId
<1> HIDE DEF f
<1>3. Total(f, NumSeams) = 0
  BY <1>1, <1>2, TotalOfZeros
<1> QED
  BY <1>3 DEF UncountedBps, RoutedBps, f

(***************************************************************************)
(* One seam moves from the weight previous to next, every other one stays: *)
(* register_seam from nothing, update_seam_allocation from what it has.    *)
(***************************************************************************)
Reweighs(id, s, kind, previous, next, before, after) ==
    /\ id \in SeamId
    /\ Typed(before) /\ Typed(after)
    /\ previous \in Nat /\ next \in Nat
    /\ id \in DOMAIN before => /\ before[id].stope_id = s
                               /\ before[id].yield_kind = kind
                               /\ before[id].allocation_bps = previous
    /\ id \notin DOMAIN before => previous = 0
    /\ id \in DOMAIN after
    /\ after[id].stope_id = s
    /\ after[id].yield_kind = kind
    /\ after[id].allocation_bps = next
    /\ \A i \in SeamId \ {id} :
        /\ i \in DOMAIN after <=> i \in DOMAIN before
        /\ i \in DOMAIN before => after[i] = before[i]

LEMMA ReweighedWeights ==
    ASSUME NEW id, NEW s, NEW kind, NEW previous, NEW next, NEW before, NEW after,
           Reweighs(id, s, kind, previous, next, before, after),
           NEW t, NEW kinds
    PROVE  LET f == WeightsOf(before, t, kinds)
               g == WeightsOf(after, t, kinds)
           IN  /\ \A i \in 1..NumSeams : i # id => g[i] = f[i]
               /\ f[id] = IF t = s /\ kind \in kinds THEN previous ELSE 0
               /\ g[id] = IF t = s /\ kind \in kinds THEN next ELSE 0
<1>1. id \in SeamId
  BY DEF Reweighs
<1>2. ASSUME NEW i \in SeamId, i # id
      PROVE  WeightsOf(after, t, kinds)[i] = WeightsOf(before, t, kinds)[i]
  BY <1>2 DEF Reweighs, WeightsOf, IsSeamOf
<1>3. WeightsOf(before, t, kinds)[id] = IF t = s /\ kind \in kinds THEN previous ELSE 0
  BY <1>1 DEF Reweighs, WeightsOf, IsSeamOf
<1>4. WeightsOf(after, t, kinds)[id] = IF t = s /\ kind \in kinds THEN next ELSE 0
  BY <1>1 DEF Reweighs, WeightsOf, IsSeamOf
<1> QED
  BY <1>2, <1>3, <1>4 DEF SeamId

LEMMA ReweighedRouted ==
    ASSUME NEW id, NEW s, NEW kind, NEW previous, NEW next, NEW before, NEW after,
           Reweighs(id, s, kind, previous, next, before, after),
           NEW t, NEW kinds
    PROVE  IF t = s /\ kind \in kinds
           THEN /\ previous <= RoutedBps(before, t, kinds)
                /\ RoutedBps(after, t, kinds)
                    = RoutedBps(before, t, kinds) + next - previous
           ELSE RoutedBps(after, t, kinds) = RoutedBps(before, t, kinds)
<1> DEFINE f == WeightsOf(before, t, kinds)
           g == WeightsOf(after, t, kinds)
<1>1. /\ f \in [1..NumSeams -> Nat] /\ g \in [1..NumSeams -> Nat]
      /\ Total(f, NumSeams) \in Nat /\ Total(g, NumSeams) \in Nat
      /\ id \in 1..NumSeams /\ previous \in Nat /\ next \in Nat
  BY WeightsType DEF Reweighs, SeamId, RoutedBps
<1>2. /\ \A i \in 1..NumSeams : i # id => g[i] = f[i]
      /\ f[id] = IF t = s /\ kind \in kinds THEN previous ELSE 0
      /\ g[id] = IF t = s /\ kind \in kinds THEN next ELSE 0
  BY ReweighedWeights
<1> HIDE DEF f, g
<1>3. Total(g, NumSeams) = Total(f, NumSeams) + g[id] - f[id]
  <2>1. \A i \in 1..NumSeams : i # id => g[i] = f[i]
    BY <1>2
  <2> QED BY <1>1, <2>1, TotalOfUpdate, ZenonT(60)
<1>4. f[id] <= Total(f, NumSeams)
  BY <1>1, SummandAtMostTotal
<1>5. /\ RoutedBps(before, t, kinds) = Total(f, NumSeams)
      /\ RoutedBps(after, t, kinds) = Total(g, NumSeams)
  BY DEF RoutedBps, f, g
<1>6. CASE t = s /\ kind \in kinds
  <2>1. f[id] = previous /\ g[id] = next
    BY <1>2, <1>6
  <2> QED BY <1>1, <1>3, <1>4, <1>5, <1>6, <2>1
<1>7. CASE ~ (t = s /\ kind \in kinds)
  <2>1. f[id] = 0 /\ g[id] = 0
    BY <1>2, <1>7
  <2>2. RoutedBps(after, t, kinds) = RoutedBps(before, t, kinds)
    BY <1>1, <1>3, <1>5, <2>1
  <2> QED BY <1>7, <2>2
<1> QED
  BY <1>6, <1>7

-----------------------------------------------------------------------------
(***************************************************************************)
(* reallocate.  Where the weight that moves is in the total, the           *)
(* subtraction does not saturate; where it is not, the total that reads    *)
(* too little still reads too little, and by no more than before.          *)
(***************************************************************************)
Routed(s, kind, previous, next) ==
    /\ allocation'[s].allocated_bps
            = Reallocated(allocation[s], kind, previous, next).allocated_bps
    /\ allocation'[s].emissions_bps
            = Reallocated(allocation[s], kind, previous, next).emissions_bps
    /\ allocation'[s].counterparty_bps
            = Reallocated(allocation[s], kind, previous, next).counterparty_bps
    /\ \A t \in Stope : t # s => allocation'[t] = allocation[t]

LEMMA ReallocatedFields ==
    ASSUME NEW a \in [allocated_bps : Nat, emissions_bps : Nat,
                      counterparty_bps : Nat, seam_count : Nat],
           NEW kind, NEW previous \in Nat, NEW next \in Nat
    PROVE  /\ Reallocated(a, kind, previous, next).allocated_bps
                = Moved(a.allocated_bps, previous, next)
           /\ Reallocated(a, kind, previous, next).emissions_bps
                = IF kind = "Emissions"
                  THEN Moved(a.emissions_bps, previous, next) ELSE a.emissions_bps
           /\ Reallocated(a, kind, previous, next).counterparty_bps
                = IF kind = "Counterparty"
                  THEN Moved(a.counterparty_bps, previous, next)
                  ELSE a.counterparty_bps
           /\ Reallocated(a, kind, previous, next).seam_count = a.seam_count
BY DEF Reallocated

LEMMA MovedExactly ==
    ASSUME NEW total \in Nat, NEW previous \in Nat, NEW next \in Nat
    PROVE  /\ Moved(total, previous, next) \in Nat
           /\ previous <= total =>
                Moved(total, previous, next) = total + next - previous
           /\ next <= Moved(total, previous, next)
           /\ Moved(total, previous, 0) <= total
BY DEF Moved, SaturatingSub

LEMMA MovedWithin ==
    ASSUME NEW total \in Nat, NEW carried \in Nat, NEW missed \in Nat,
           NEW previous \in Nat, NEW next \in Nat,
           previous <= carried, total <= carried, carried <= total + missed
    PROVE  /\ Moved(total, previous, next) <= carried + next - previous
           /\ carried + next - previous <= Moved(total, previous, next) + missed
BY DEF Moved, SaturatingSub

LEMMA ReallocateKeepsCeilings ==
    ASSUME \A t \in Stope : WithinCeilings(t, allocation[t]),
           NEW s \in Stope, NEW kind, NEW previous, NEW next,
           CanReallocate(s, kind, previous, next),
           Routed(s, kind, previous, next)
    PROVE  \A t \in Stope : WithinCeilings(t, allocation'[t])
BY DEF CanReallocate, Routed, WithinCeilings

\* The counterparty total of a stope against the seams' weights.
Within(a, seams, s) ==
    LET carried == RoutedBps(seams, s, {"Counterparty"})
    IN  /\ a.counterparty_bps <= carried
        /\ carried <= a.counterparty_bps + UncountedBps(s)

LEMMA ReallocateKeepsTotals ==
    ASSUME RegistryInv, NEW id, NEW s \in Stope, NEW kind \in YieldKind,
           NEW previous, NEW next,
           Reweighs(id, s, kind, previous, next, seam, seam'),
           CanReallocate(s, kind, previous, next),
           Routed(s, kind, previous, next)
    PROVE  TotalsMatchSeams'
<1> SUFFICES ASSUME NEW t \in Stope
             PROVE  /\ allocation'[t].allocated_bps = RoutedBps(seam', t, YieldKind)
                    /\ allocation'[t].emissions_bps
                            = RoutedBps(seam', t, {"Emissions"})
                    /\ Within(allocation'[t], seam', t)
  BY DEF TotalsMatchSeams, Within
<1> DEFINE a == allocation[t]
<1>1. /\ a.allocated_bps = RoutedBps(seam, t, YieldKind)
      /\ a.emissions_bps = RoutedBps(seam, t, {"Emissions"})
      /\ Within(a, seam, t)
      /\ a.allocated_bps \in Nat /\ a.emissions_bps \in Nat
      /\ a.counterparty_bps \in Nat
      /\ previous \in Nat /\ next \in Nat
  BY DEF RegistryInv, TotalsMatchSeams, Within, RoutingTyped, Reweighs
<1>2. CASE t # s
  <2>1. allocation'[t] = allocation[t]
    BY <1>2 DEF Routed
  <2>2. /\ RoutedBps(seam', t, YieldKind) = RoutedBps(seam, t, YieldKind)
        /\ RoutedBps(seam', t, {"Emissions"}) = RoutedBps(seam, t, {"Emissions"})
        /\ RoutedBps(seam', t, {"Counterparty"})
                = RoutedBps(seam, t, {"Counterparty"})
    BY <1>2, ReweighedRouted
  <2> QED BY <1>1, <2>1, <2>2 DEF Within
<1>3. CASE t = s
  <2> DEFINE b == allocation'[t]
  <2>1. /\ b.allocated_bps = Moved(a.allocated_bps, previous, next)
        /\ b.emissions_bps = IF kind = "Emissions"
             THEN Moved(a.emissions_bps, previous, next) ELSE a.emissions_bps
        /\ b.counterparty_bps = IF kind = "Counterparty"
             THEN Moved(a.counterparty_bps, previous, next) ELSE a.counterparty_bps
    <3> DEFINE r == Reallocated(a, kind, previous, next)
    <3>1. /\ r.allocated_bps = Moved(a.allocated_bps, previous, next)
          /\ r.emissions_bps = IF kind = "Emissions"
               THEN Moved(a.emissions_bps, previous, next) ELSE a.emissions_bps
          /\ r.counterparty_bps = IF kind = "Counterparty"
               THEN Moved(a.counterparty_bps, previous, next)
               ELSE a.counterparty_bps
      <4>1. a \in [allocated_bps : Nat, emissions_bps : Nat,
                   counterparty_bps : Nat, seam_count : Nat]
        BY DEF RegistryInv, RoutingTyped
      <4>2. previous \in Nat /\ next \in Nat
        BY <1>1
      <4>3. r.allocated_bps = Moved(a.allocated_bps, previous, next)
        BY <4>1, <4>2, ReallocatedFields, SMT
      <4>4. r.emissions_bps = IF kind = "Emissions"
               THEN Moved(a.emissions_bps, previous, next) ELSE a.emissions_bps
        BY <4>1, <4>2, ReallocatedFields, SMT
      <4>5. r.counterparty_bps = IF kind = "Counterparty"
               THEN Moved(a.counterparty_bps, previous, next)
               ELSE a.counterparty_bps
        BY <4>1, <4>2, ReallocatedFields, SMT
      <4> QED BY <4>3, <4>4, <4>5
    <3>2. /\ b.allocated_bps = r.allocated_bps
          /\ b.emissions_bps = r.emissions_bps
          /\ b.counterparty_bps = r.counterparty_bps
      BY <1>3 DEF Routed
    <3> QED BY <3>1, <3>2
  <2> HIDE DEF a, b
  <2>2. b.allocated_bps = RoutedBps(seam', t, YieldKind)
    <3>1. /\ previous <= RoutedBps(seam, t, YieldKind)
          /\ RoutedBps(seam', t, YieldKind)
                = RoutedBps(seam, t, YieldKind) + next - previous
      BY <1>3, ReweighedRouted
    <3> QED BY <1>1, <2>1, <3>1, MovedExactly
  <2>3. b.emissions_bps = RoutedBps(seam', t, {"Emissions"})
    <3>1. CASE kind = "Emissions"
      <4>1. /\ previous <= RoutedBps(seam, t, {"Emissions"})
            /\ RoutedBps(seam', t, {"Emissions"})
                  = RoutedBps(seam, t, {"Emissions"}) + next - previous
        BY <1>3, <3>1, ReweighedRouted
      <4> QED BY <1>1, <2>1, <3>1, <4>1, MovedExactly
    <3>2. CASE kind # "Emissions"
      <4>1. RoutedBps(seam', t, {"Emissions"}) = RoutedBps(seam, t, {"Emissions"})
        BY <3>2, ReweighedRouted
      <4> QED BY <1>1, <2>1, <3>2, <4>1
    <3> QED BY <3>1, <3>2
  <2>4. Within(b, seam', t)
    <3>1. CASE kind = "Counterparty"
      <4> DEFINE carried == RoutedBps(seam, t, {"Counterparty"})
      <4>1. /\ previous <= carried
            /\ RoutedBps(seam', t, {"Counterparty"}) = carried + next - previous
        BY <1>3, <3>1, ReweighedRouted
      <4>2. carried \in Nat
        BY WeightsType DEF Reweighs
      <4>3. /\ a.counterparty_bps <= carried
            /\ carried <= a.counterparty_bps + UncountedBps(t)
        BY <1>1 DEF Within
      <4> HIDE DEF carried
      <4>4. b.counterparty_bps = Moved(a.counterparty_bps, previous, next)
        BY <2>1, <3>1
      <4>5. UncountedBps(t) \in Nat
        BY UncountedType
      <4>6. /\ b.counterparty_bps <= carried + next - previous
            /\ carried + next - previous <= b.counterparty_bps + UncountedBps(t)
        <5> DEFINE m == Moved(a.counterparty_bps, previous, next)
        <5>1. /\ a.counterparty_bps \in Nat /\ previous \in Nat /\ next \in Nat
              /\ previous <= carried
          BY <1>1, <4>1
        <5>2. /\ m <= carried + next - previous
              /\ carried + next - previous <= m + UncountedBps(t)
          BY <4>2, <4>3, <4>5, <5>1, MovedWithin, Zenon
        <5> QED BY <4>4, <5>2
      <4> QED BY <4>1, <4>6 DEF Within
    <3>2. CASE kind # "Counterparty"
      <4>1. RoutedBps(seam', t, {"Counterparty"})
                = RoutedBps(seam, t, {"Counterparty"})
        BY <3>2, ReweighedRouted
      <4> QED BY <1>1, <2>1, <3>2, <4>1 DEF Within
    <3> QED BY <3>1, <3>2
  <2> QED BY <2>2, <2>3, <2>4 DEF b
<1> QED
  BY <1>2, <1>3

-----------------------------------------------------------------------------
(***************************************************************************)
(* register_seam.                                                          *)
(***************************************************************************)

LEMMA ReallocatedType ==
    ASSUME NEW a \in RoutingRecord, NEW kind,
           NEW previous \in Nat, NEW next \in Nat
    PROVE  Reallocated(a, kind, previous, next) \in RoutingRecord
<1>1. \A total \in Nat : Moved(total, previous, next) \in Nat
  BY MovedExactly
<1> QED
  BY <1>1 DEF Reallocated, RoutingRecord

LEMMA SeamWeights ==
    ASSUME SeamsTyped
    PROVE  /\ Typed(seam)
           /\ \A id \in DOMAIN seam :
                /\ id \in SeamId
                /\ seam[id].stope_id \in Stope
                /\ seam[id].yield_kind \in YieldKind
                /\ seam[id].allocation_bps \in Nat
BY Ceilings DEF SeamsTyped, SeamRecord, Typed

\* Without legacy seams, a seam's counterparty weight is in its stope's total.
LEMMA WeightIsCounted ==
    ASSUME RegistryInv, LegacySeams = <<>>, NEW id \in DOMAIN seam,
           seam[id].yield_kind = "Counterparty"
    PROVE  seam[id].allocation_bps <= allocation[seam[id].stope_id].counterparty_bps
<1> DEFINE s == seam[id].stope_id
           f == WeightsOf(seam, s, {"Counterparty"})
<1>1. Typed(seam) /\ id \in SeamId /\ s \in Stope
  BY SeamWeights DEF RegistryInv
<1>2. f \in [1..NumSeams -> Nat]
  BY <1>1, WeightsType
<1>3. f[id] = seam[id].allocation_bps
  BY <1>1 DEF WeightsOf, IsSeamOf
<1>4. /\ RoutedBps(seam, s, {"Counterparty"}) <= allocation[s].counterparty_bps
                                                    + UncountedBps(s)
      /\ allocation[s].counterparty_bps \in Nat
  BY <1>1 DEF RegistryInv, TotalsMatchSeams, RoutingTyped
<1>5. RoutedBps(seam, s, {"Counterparty"}) = Total(f, NumSeams)
  BY DEF RoutedBps
<1>6. UncountedBps(s) = 0
  BY NothingUncounted
<1>7. Total(f, NumSeams) \in Nat
  BY <1>2, TotalType
<1> HIDE DEF s, f
<1>8. f[id] <= Total(f, NumSeams)
  BY <1>1, <1>2, SummandAtMostTotal DEF SeamId
<1>9. f[id] \in Nat
  BY <1>1, <1>2 DEF SeamId
<1>10. f[id] <= allocation[s].counterparty_bps
  BY <1>4, <1>5, <1>6, <1>7, <1>8, <1>9
<1> QED
  BY <1>3, <1>10 DEF s

LEMMA RegisterSeams ==
    ASSUME RegistryInv, NEW id \in SeamId, NEW s \in Stope,
           NEW declared \in Declarations, RegisterSeam(id, s, declared)
    PROVE  /\ DOMAIN seam' = DOMAIN seam \cup {id}
           /\ id \notin DOMAIN seam
           /\ \A i \in DOMAIN seam : seam'[i] = seam[i]
           /\ seam'[id] \in SeamRecord
           /\ seam'[id].stope_id = s
           /\ seam'[id].yield_kind = declared.yield_kind
           /\ seam'[id].allocation_bps = declared.allocation_bps
           /\ seam'[id].risk_tier <= MaxRiskTier(s)
           /\ SeamsTyped'
<1>1. /\ id \notin DOMAIN seam
      /\ declared.risk_tier <= MaxRiskTier(s)
      /\ DOMAIN seam' = DOMAIN seam \cup {id}
      /\ \A i \in DOMAIN seam : seam'[i] = seam[i]
  BY DEF RegisterSeam
<1>2. seam'[id] =
        [stope_id         |-> s,
         asset_mint       |-> declared.asset_mint,
         yield_kind       |-> declared.yield_kind,
         risk_tier        |-> declared.risk_tier,
         allocation_bps   |-> declared.allocation_bps,
         emission_ends_at |-> declared.emission_ends_at,
         emission_mint    |-> declared.emission_mint,
         realized_yield   |-> 0,
         last_accrual_at  |-> 0]
  BY DEF RegisterSeam
<1>3. /\ declared.risk_tier \in MIN_RISK_TIER..MAX_RISK_TIER
      /\ declared.allocation_bps <= MAX_BPS
      /\ declared.allocation_bps \in Nat
      /\ declared.asset_mint \in Asset /\ declared.yield_kind \in YieldKind
      /\ declared.emission_ends_at \in 0..MaxTime
      /\ declared.emission_mint \in Mint \cup {NoMint}
  BY DEF RegisterSeam, CanReallocate, Declarations
<1>4. declared.allocation_bps \in 0..MAX_BPS
  BY <1>3, Ceilings
<1>5. 0 \in U64 /\ 0 \in 0..MaxTime
  BY DEF U64
<1>6. seam'[id] \in SeamRecord
  BY <1>2, <1>3, <1>4, <1>5 DEF SeamRecord
<1>7. SeamsTyped'
  BY <1>1, <1>6 DEF RegistryInv, SeamsTyped
<1> QED
  BY <1>1, <1>2, <1>6, <1>7

LEMMA RegisterSeamReweighs ==
    ASSUME RegistryInv, NEW id \in SeamId, NEW s \in Stope,
           NEW declared \in Declarations, RegisterSeam(id, s, declared)
    PROVE  Reweighs(id, s, declared.yield_kind, 0, declared.allocation_bps,
                    seam, seam')
<1>1. Typed(seam)
  BY SeamWeights DEF RegistryInv
<1>2. \A i \in DOMAIN seam' : seam'[i].allocation_bps \in Nat
  <2>1. SeamsTyped'
    BY RegisterSeams
  <2> QED BY <2>1, Ceilings DEF SeamsTyped, SeamRecord
<1>3. declared.allocation_bps \in Nat
  BY DEF Declarations
<1> QED
  BY <1>1, <1>2, <1>3, RegisterSeams DEF Reweighs, Typed

LEMMA RegisterSeamRoutes ==
    ASSUME RegistryInv, NEW id \in SeamId, NEW s \in Stope,
           NEW declared \in Declarations, RegisterSeam(id, s, declared)
    PROVE  /\ RoutingTyped'
           /\ Routed(s, declared.yield_kind, 0, declared.allocation_bps)
           /\ \A t \in Stope : allocation'[t].seam_count =
                IF t = s THEN allocation[t].seam_count + 1
                         ELSE allocation[t].seam_count
<1> DEFINE r == Reallocated(allocation[s], declared.yield_kind, 0,
                            declared.allocation_bps)
<1>1. allocation \in [Stope -> RoutingRecord]
  BY DEF RegistryInv, RoutingTyped, RoutingRecord
<1>2. declared.allocation_bps \in Nat
  BY DEF Declarations
<1>3. r \in RoutingRecord /\ r.seam_count = allocation[s].seam_count
  BY <1>1, <1>2, ReallocatedType, ReallocatedFields DEF RoutingRecord
<1>4. allocation' = [allocation EXCEPT ![s] = [r EXCEPT !.seam_count = @ + 1]]
  BY DEF RegisterSeam
<1>5. Routed(s, declared.yield_kind, 0, declared.allocation_bps)
  <2>1. allocation'[s] = [r EXCEPT !.seam_count = @ + 1]
    BY <1>1, <1>4
  <2>2. \A t \in Stope : t # s => allocation'[t] = allocation[t]
    BY <1>1, <1>4
  <2> HIDE DEF r
  <2>3. /\ allocation'[s].allocated_bps = r.allocated_bps
        /\ allocation'[s].emissions_bps = r.emissions_bps
        /\ allocation'[s].counterparty_bps = r.counterparty_bps
    BY <1>3, <2>1 DEF RoutingRecord
  <2> QED BY <2>2, <2>3, Zenon DEF Routed, r
<1> HIDE DEF r
<1>6. [r EXCEPT !.seam_count = @ + 1] \in RoutingRecord
  BY <1>3 DEF RoutingRecord
<1>7. allocation' \in [Stope -> RoutingRecord]
  BY <1>1, <1>4, <1>6
<1>8. [r EXCEPT !.seam_count = @ + 1].seam_count = allocation[s].seam_count + 1
  BY <1>3 DEF RoutingRecord
<1>9. \A t \in Stope : allocation'[t].seam_count =
        IF t = s THEN allocation[t].seam_count + 1
                 ELSE allocation[t].seam_count
  BY <1>1, <1>4, <1>8
<1> QED
  BY <1>5, <1>7, <1>9 DEF RoutingTyped, RoutingRecord

LEMMA SeamsAreFew ==
    ASSUME SeamsTyped
    PROVE  /\ IsFiniteSet(DOMAIN seam)
           /\ Cardinality(DOMAIN seam) \in 0..NumSeams
           /\ \A s : LET D == {id \in DOMAIN seam : seam[id].stope_id = s}
                     IN  IsFiniteSet(D) /\ Cardinality(D) \in 0..NumSeams
<1>1. IsFiniteSet(SeamId) /\ Cardinality(SeamId) = NumSeams
  BY FS_Interval DEF SeamId
<1>2. ASSUME NEW D \in SUBSET SeamId
      PROVE  IsFiniteSet(D) /\ Cardinality(D) \in 0..NumSeams
  <2>1. IsFiniteSet(D) /\ Cardinality(D) <= NumSeams
    BY <1>1, FS_Subset
  <2> QED BY <2>1, FS_CardinalityType
<1>3. DOMAIN seam \in SUBSET SeamId
  BY DEF SeamsTyped
<1>4. \A s : {id \in DOMAIN seam : seam[id].stope_id = s} \in SUBSET SeamId
  BY <1>3
<1> QED
  BY <1>2, <1>3, <1>4

LEMMA RegisterSeamCounts ==
    ASSUME RegistryInv, NEW id \in SeamId, NEW s \in Stope,
           NEW declared \in Declarations, RegisterSeam(id, s, declared)
    PROVE  SeamsCounted'
<1> DEFINE Of(t) == {i \in DOMAIN seam : seam[i].stope_id = t}
<1>1. IsFiniteSet(DOMAIN seam) /\ \A t : IsFiniteSet(Of(t))
  BY SeamsAreFew DEF RegistryInv
<1>2. seam_count' = Cardinality(DOMAIN seam')
  <2>1. Cardinality(DOMAIN seam \cup {id}) = Cardinality(DOMAIN seam) + 1
    BY <1>1, FS_AddElement, RegisterSeams
  <2> QED BY <2>1, RegisterSeams DEF RegisterSeam, RegistryInv, SeamsCounted
<1>3. ASSUME NEW t \in Stope
      PROVE  allocation'[t].seam_count
                = Cardinality({i \in DOMAIN seam' : seam'[i].stope_id = t})
  <2>1. {i \in DOMAIN seam' : seam'[i].stope_id = t}
            = IF t = s THEN Of(t) \cup {id} ELSE Of(t)
    BY RegisterSeams
  <2>2. Cardinality(Of(t) \cup {id}) = Cardinality(Of(t)) + 1
    <3>1. id \notin Of(t)
      BY RegisterSeams
    <3>2. IsFiniteSet(Of(t))
      BY <1>1
    <3> HIDE DEF Of
    <3> QED BY <3>1, <3>2, FS_AddElement
  <2>3. allocation[t].seam_count = Cardinality(Of(t))
    BY DEF RegistryInv, SeamsCounted
  <2> HIDE DEF Of
  <2> QED BY <2>1, <2>2, <2>3, RegisterSeamRoutes
<1> QED
  BY <1>2, <1>3 DEF SeamsCounted

LEMMA RegisterSeamInv ==
    ASSUME RegistryInv, NEW id \in SeamId, NEW s \in Stope,
           NEW declared \in Declarations, RegisterSeam(id, s, declared)
    PROVE  RegistryInv'
<1> DEFINE kind == declared.yield_kind
           bps == declared.allocation_bps
<1>1. /\ Reweighs(id, s, kind, 0, bps, seam, seam')
      /\ Routed(s, kind, 0, bps)
      /\ CanReallocate(s, kind, 0, bps)
      /\ kind \in YieldKind
  BY RegisterSeamReweighs, RegisterSeamRoutes DEF RegisterSeam, Declarations
<1> HIDE DEF kind, bps
<1>3. TotalsMatchSeams'
  BY <1>1, ReallocateKeepsTotals
<1>4. \A t \in Stope : WithinCeilings(t, allocation'[t])
  BY <1>1, ReallocateKeepsCeilings DEF RegistryInv
<1>6. TiersAdmitted'
  BY ZenonT(60), RegisterSeams DEF RegistryInv, TiersAdmitted
<1>7. SeamsTyped' /\ RoutingTyped' /\ SeamsCounted'
  BY RegisterSeams, RegisterSeamRoutes, RegisterSeamCounts
<1>8. now' \in 0..MaxTime
  BY DEF RegisterSeam, RegistryInv
<1> QED
  BY <1>3, <1>4, <1>6, <1>7, <1>8 DEF RegistryInv

-----------------------------------------------------------------------------
(***************************************************************************)
(* update_seam_allocation and accrue_yield change one registered seam,     *)
(* never what it is.                                                       *)
(***************************************************************************)
OneSeamChanges(id) ==
    /\ id \in DOMAIN seam
    /\ DOMAIN seam' = DOMAIN seam
    /\ \A i \in DOMAIN seam : i # id => seam'[i] = seam[i]
    /\ seam'[id].stope_id = seam[id].stope_id
    /\ seam'[id].yield_kind = seam[id].yield_kind
    /\ seam'[id].risk_tier = seam[id].risk_tier
    /\ seam'[id].emission_ends_at = seam[id].emission_ends_at
    /\ seam'[id] \in SeamRecord

LEMMA OneSeamChangesInv ==
    ASSUME RegistryInv, NEW id, OneSeamChanges(id)
    PROVE  SeamsTyped' /\ TiersAdmitted'
<1>1. SeamsTyped'
  BY DEF RegistryInv, SeamsTyped, OneSeamChanges
<1>2. TiersAdmitted'
  BY DEF RegistryInv, TiersAdmitted, OneSeamChanges
<1> QED
  BY <1>1, <1>2

LEMMA OneSeamChangesCounts ==
    ASSUME RegistryInv, NEW id, OneSeamChanges(id), seam_count' = seam_count,
           \A s \in Stope : allocation'[s].seam_count = allocation[s].seam_count
    PROVE  SeamsCounted'
<1>1. \A s : {i \in DOMAIN seam' : seam'[i].stope_id = s}
                = {i \in DOMAIN seam : seam[i].stope_id = s}
  BY DEF OneSeamChanges
<1> QED
  BY <1>1 DEF RegistryInv, SeamsCounted, OneSeamChanges

LEMMA UpdateChanges ==
    ASSUME RegistryInv, NEW id \in DOMAIN seam, NEW bps \in Weights,
           UpdateAllocation(id, bps)
    PROVE  /\ OneSeamChanges(id)
           /\ seam'[id].allocation_bps = bps
           /\ seam'[id].realized_yield = seam[id].realized_yield
<1>1. seam[id] \in SeamRecord
  BY DEF RegistryInv, SeamsTyped
<1>2. bps \in 0..MAX_BPS
  BY Ceilings DEF UpdateAllocation, CanReallocate
<1>3. seam' = [seam EXCEPT ![id].allocation_bps = bps]
  BY DEF UpdateAllocation
<1>4. /\ DOMAIN seam' = DOMAIN seam
      /\ \A i \in DOMAIN seam : i # id => seam'[i] = seam[i]
      /\ seam'[id] = [seam[id] EXCEPT !.allocation_bps = bps]
  BY <1>3
<1> QED
  BY <1>1, <1>2, <1>4 DEF OneSeamChanges, SeamRecord

LEMMA UpdateReweighs ==
    ASSUME RegistryInv, NEW id \in DOMAIN seam, NEW bps \in Weights,
           UpdateAllocation(id, bps)
    PROVE  Reweighs(id, seam[id].stope_id, seam[id].yield_kind,
                    seam[id].allocation_bps, bps, seam, seam')
<1>1. /\ Typed(seam) /\ id \in SeamId /\ seam[id].allocation_bps \in Nat
  BY SeamWeights DEF RegistryInv
<1>2. \A i \in DOMAIN seam' : seam'[i].allocation_bps \in Nat
  BY <1>1, UpdateChanges DEF OneSeamChanges, Typed
<1> QED
  BY <1>1, <1>2, UpdateChanges DEF Reweighs, Typed, OneSeamChanges

LEMMA UpdateInv ==
    ASSUME RegistryInv, NEW id \in DOMAIN seam, NEW bps \in Weights,
           UpdateAllocation(id, bps)
    PROVE  RegistryInv'
<1> DEFINE s == seam[id].stope_id
           kind == seam[id].yield_kind
           previous == seam[id].allocation_bps
           r == Reallocated(allocation[s], kind, previous, bps)
<1>1. s \in Stope /\ kind \in YieldKind /\ previous \in Nat /\ bps \in Nat
  BY SeamWeights DEF RegistryInv
<1>2. CanReallocate(s, kind, previous, bps) /\ now' = now /\ seam_count' = seam_count
  BY DEF UpdateAllocation
<1>3. allocation' = [allocation EXCEPT ![s] = r]
  BY DEF UpdateAllocation
<1>4. Reweighs(id, s, kind, previous, bps, seam, seam')
  BY UpdateReweighs
<1>6. allocation \in [Stope -> RoutingRecord]
  BY DEF RegistryInv, RoutingTyped, RoutingRecord
<1>7. r \in RoutingRecord /\ r.seam_count = allocation[s].seam_count
  <2>1. allocation[s] \in RoutingRecord
    BY <1>1, <1>6
  <2> HIDE DEF s, kind, previous
  <2>2. r \in RoutingRecord
    BY <1>1, <2>1, ReallocatedType
  <2>3. r.seam_count = allocation[s].seam_count
    BY <1>1, <2>1, ReallocatedFields DEF RoutingRecord
  <2> QED BY <2>2, <2>3
<1>8. Routed(s, kind, previous, bps)
  BY <1>1, <1>3, <1>6 DEF Routed
<1> HIDE DEF s, kind, previous, r
<1>9. TotalsMatchSeams' /\ \A t \in Stope : WithinCeilings(t, allocation'[t])
  BY <1>1, <1>2, <1>4, <1>8, ReallocateKeepsTotals, ReallocateKeepsCeilings
     DEF RegistryInv
<1>10. RoutingTyped'
  BY <1>1, <1>3, <1>6, <1>7 DEF RoutingTyped, RoutingRecord
<1>11. SeamsCounted'
  <2>1. \A t \in Stope : allocation'[t].seam_count = allocation[t].seam_count
    BY <1>1, <1>3, <1>6, <1>7
  <2> QED BY <1>2, <2>1, UpdateChanges, OneSeamChangesCounts
<1>12. SeamsTyped' /\ TiersAdmitted'
  BY UpdateChanges, OneSeamChangesInv
<1> QED
  BY <1>2, <1>9, <1>10, <1>11, <1>12 DEF RegistryInv

LEMMA AccrueChanges ==
    ASSUME RegistryInv, NEW id \in DOMAIN seam, NEW normalized \in U64,
           SeamAccrues(id, normalized)
    PROVE  /\ OneSeamChanges(id)
           /\ seam'[id].allocation_bps = seam[id].allocation_bps
<1>1. seam[id] \in SeamRecord /\ now \in 0..MaxTime
  BY DEF RegistryInv, SeamsTyped
<1>2. seam[id].realized_yield + normalized \in U64
  BY DEF SeamAccrues, Fits64
<1>3. seam' = [seam EXCEPT ![id].realized_yield = @ + normalized,
                           ![id].last_accrual_at = now]
  BY DEF SeamAccrues
<1>4. /\ DOMAIN seam' = DOMAIN seam
      /\ \A i \in DOMAIN seam : i # id => seam'[i] = seam[i]
      /\ seam'[id] = [seam[id] EXCEPT !.realized_yield = @ + normalized,
                                      !.last_accrual_at = now]
  BY <1>3
<1> QED
  BY <1>1, <1>2, <1>4 DEF OneSeamChanges, SeamRecord

(***************************************************************************)
(* Where no weight moves, no sum of weights does.                          *)
(***************************************************************************)
LEMMA SameWeights ==
    ASSUME NEW id, OneSeamChanges(id),
           seam'[id].allocation_bps = seam[id].allocation_bps, NEW s, NEW kinds
    PROVE  RoutedBps(seam', s, kinds) = RoutedBps(seam, s, kinds)
<1>1. WeightsOf(seam', s, kinds) = WeightsOf(seam, s, kinds)
  BY DEF OneSeamChanges, WeightsOf, IsSeamOf
<1> QED
  BY <1>1 DEF RoutedBps

LEMMA AccrueInv ==
    ASSUME RegistryInv, NEW id \in DOMAIN seam, NEW normalized \in U64,
           SeamAccrues(id, normalized)
    PROVE  RegistryInv'
<1>1. UNCHANGED <<now, allocation, seam_count>>
  BY DEF SeamAccrues
<1>2. TotalsMatchSeams'
  <2>1. ASSUME NEW s \in Stope
        PROVE  /\ allocation'[s].allocated_bps = RoutedBps(seam', s, YieldKind)
               /\ allocation'[s].emissions_bps
                        = RoutedBps(seam', s, {"Emissions"})
               /\ Within(allocation'[s], seam', s)
    BY <1>1, AccrueChanges, SameWeights DEF RegistryInv, TotalsMatchSeams, Within
  <2> QED BY <2>1 DEF TotalsMatchSeams, Within
<1>3. SeamsCounted'
  BY <1>1, AccrueChanges, OneSeamChangesCounts
<1>4. SeamsTyped' /\ TiersAdmitted'
  BY AccrueChanges, OneSeamChangesInv
<1>5. RoutingTyped' /\ \A s \in Stope : WithinCeilings(s, allocation'[s])
  BY <1>1 DEF RegistryInv, RoutingTyped
<1> QED
  BY <1>1, <1>2, <1>3, <1>4, <1>5 DEF RegistryInv

LEMMA StutterInv ==
    ASSUME RegistryInv, UNCHANGED <<seam, allocation, seam_count>>,
           now' \in 0..MaxTime
    PROVE  RegistryInv'
BY DEF RegistryInv, SeamsTyped, RoutingTyped, SeamsCounted,
       TiersAdmitted, TotalsMatchSeams

LEMMA NextInv == RegistryInv /\ [Next]_vars => RegistryInv'
<1> SUFFICES ASSUME RegistryInv, [Next]_vars PROVE RegistryInv'
  OBVIOUS
<1>1. Tick => RegistryInv'
  <2>1. Tick => now' \in 0..MaxTime
    BY DEF RegistryInv, Tick
  <2> QED BY <2>1, StutterInv DEF Tick
<1>2. UNCHANGED vars => RegistryInv'
  BY StutterInv DEF RegistryInv, vars
<1> QED
  BY <1>1, <1>2, RegisterSeamInv, UpdateInv, AccrueInv DEF Next

(***************************************************************************)
(* The registry an upgrade finds.                                          *)
(***************************************************************************)
LEMMA InitInv == Init => RegistryInv
<1> SUFFICES ASSUME Init PROVE RegistryInv
  OBVIOUS
<1> USE LegacyAssumption
<1>1. SeamsTyped /\ TiersAdmitted /\ now \in 0..MaxTime
  BY DEF Init, SeamsTyped, TiersAdmitted
<1>2. /\ seam = LegacySeams
      /\ \A s \in Stope : allocation[s] = Decoded(s)
      /\ allocation = [s \in Stope |-> Decoded(s)]
  BY DEF Init
<1>3. ASSUME NEW s \in Stope
      PROVE  /\ UncountedBps(s) \in Nat
             /\ RoutedBps(LegacySeams, s, YieldKind) \in Nat
             /\ RoutedBps(LegacySeams, s, {"Emissions"}) \in Nat
             /\ Cardinality({id \in DOMAIN seam : seam[id].stope_id = s}) \in Nat
  <2>1. Typed(seam)
    BY <1>1, SeamWeights
  <2>2. Cardinality({id \in DOMAIN seam : seam[id].stope_id = s}) \in Nat
    <3> DEFINE D == {id \in DOMAIN seam : seam[id].stope_id = s}
    <3>1. IsFiniteSet(D)
      BY <1>1, SeamsAreFew
    <3> QED BY <3>1, FS_CardinalityType
  <2>3. \A kinds : RoutedBps(seam, s, kinds) \in Nat
    BY <2>1, WeightsType
  <2> QED BY <1>2, <2>2, <2>3, UncountedType
<1>4. TotalsMatchSeams
  BY <1>2, <1>3 DEF TotalsMatchSeams, Decoded, UncountedBps
<1>5. RoutingTyped
  <2>1. ASSUME NEW s \in Stope PROVE Decoded(s) \in RoutingRecord
    BY <1>2, <1>3 DEF Decoded, RoutingRecord
  <2> QED BY <1>2, <2>1 DEF RoutingTyped, RoutingRecord
<1>6. SeamsCounted
  BY <1>2 DEF Init, SeamsCounted, Decoded
<1>7. \A s \in Stope : WithinCeilings(s, allocation[s])
  <2>1. \A s \in Stope : 0 <= MaxCounterpartyBps(s)
    BY Ceilings
  <2> QED BY <1>2, <2>1 DEF WithinCeilings, Decoded
<1> QED
  BY <1>1, <1>4, <1>5, <1>6, <1>7 DEF RegistryInv

LEMMA RegistryInvariant == Spec => []RegistryInv
BY InitInv, NextInv, PTL DEF Spec

-----------------------------------------------------------------------------
(***************************************************************************)
(* Types of the registry, the number of seams among them.                  *)
(***************************************************************************)
THEOREM RegistryTypeCorrect == Spec => []TypeOK
<1>1. RegistryInv => TypeOK
  <2> SUFFICES ASSUME RegistryInv PROVE TypeOK
    OBVIOUS
  <2>1. seam_count \in 0..NumSeams
    BY SeamsAreFew DEF RegistryInv, SeamsCounted
  <2>2. ASSUME NEW s \in Stope
        PROVE  allocation[s] \in
                    [allocated_bps : 0..MAX_BPS, emissions_bps : Nat,
                     counterparty_bps : Nat, seam_count : 0..NumSeams]
    <3>1. allocation[s].seam_count \in 0..NumSeams
      BY ZenonT(60), SeamsAreFew DEF RegistryInv, SeamsCounted
    <3>2. allocation[s].allocated_bps \in 0..MAX_BPS
      BY Ceilings DEF RegistryInv, RoutingTyped, WithinCeilings
    <3> QED BY <3>1, <3>2 DEF RegistryInv, RoutingTyped
  <2> QED BY <2>1, <2>2 DEF RegistryInv, SeamsTyped, RoutingTyped, TypeOK
<1> QED
  BY <1>1, RegistryInvariant, PTL

(***************************************************************************)
(* For every registry an upgrade may find: the weights that reallocate     *)
(* adds up are the sums over the seams, and counterparty_bps, which starts *)
(* at 0 whatever the seams carry, is never more than they carry and never  *)
(* less by more than it missed at the upgrade.                             *)
(***************************************************************************)
THEOREM TotalsAlwaysMatchSeams == Spec => []TotalsMatchSeams
<1>1. RegistryInv => TotalsMatchSeams
  BY DEF RegistryInv
<1> QED
  BY <1>1, RegistryInvariant, PTL

(***************************************************************************)
(* No sequence of changes takes a stope past the ceilings of its profile,  *)
(* for counterparty weight past its ceiling and what counterparty_bps      *)
(* missed at the upgrade: a margin that legacy weight leaves behind when   *)
(* it is wound down, for new weight to take.                               *)
(***************************************************************************)
THEOREM ExposureStaysWithinProfile == Spec => []ExposureWithinProfile
<1>1. RegistryInv => ExposureWithinProfile
  <2> SUFFICES ASSUME RegistryInv PROVE ExposureWithinProfile
    OBVIOUS
  <2>1. ASSUME NEW s \in Stope
        PROVE  RoutedBps(seam, s, {"Counterparty"})
                    <= MaxCounterpartyBps(s) + UncountedBps(s)
    <3>1. /\ allocation[s].counterparty_bps \in Nat
          /\ allocation[s].counterparty_bps <= MaxCounterpartyBps(s)
          /\ RoutedBps(seam, s, {"Counterparty"})
                <= allocation[s].counterparty_bps + UncountedBps(s)
      BY DEF RegistryInv, RoutingTyped, WithinCeilings, TotalsMatchSeams
    <3>2. RoutedBps(seam, s, {"Counterparty"}) \in Nat
      BY SeamWeights, WeightsType DEF RegistryInv
    <3> QED BY <3>1, <3>2, Ceilings, UncountedType
  <2> QED BY <2>1 DEF RegistryInv, TotalsMatchSeams, WithinCeilings, TiersAdmitted,
                      ExposureWithinProfile
<1> QED
  BY <1>1, RegistryInvariant, PTL

(***************************************************************************)
(* reallocate never refuses to take weight off a seam.                     *)
(***************************************************************************)
THEOREM WindDownNeverRefused == Spec => []WindDownAlwaysPossible
<1>1. RegistryInv => WindDownAlwaysPossible
  <2> SUFFICES ASSUME RegistryInv, NEW id \in DOMAIN seam
               PROVE  CanReallocate(seam[id].stope_id, seam[id].yield_kind,
                                    seam[id].allocation_bps, 0)
    BY DEF WindDownAlwaysPossible
  <2> DEFINE s == seam[id].stope_id
             kind == seam[id].yield_kind
             previous == seam[id].allocation_bps
             a == allocation[s]
             r == Reallocated(a, kind, previous, 0)
  <2>1. s \in Stope /\ previous \in Nat
    BY SeamWeights DEF RegistryInv
  <2>2. a \in RoutingRecord /\ WithinCeilings(s, a)
    BY <2>1 DEF RegistryInv, RoutingTyped, RoutingRecord
  <2> HIDE DEF s, kind, previous, a
  <2>3. /\ r.allocated_bps = Moved(a.allocated_bps, previous, 0)
        /\ r.emissions_bps \in {a.emissions_bps, Moved(a.emissions_bps, previous, 0)}
        /\ r.counterparty_bps
                \in {a.counterparty_bps, Moved(a.counterparty_bps, previous, 0)}
    BY <2>1, <2>2, ReallocatedFields DEF RoutingRecord
  <2>4. \A total \in Nat : /\ Moved(total, previous, 0) \in Nat
                           /\ Moved(total, previous, 0) <= total
    BY <2>1, MovedExactly
  <2> HIDE DEF r
  <2>5. /\ a.allocated_bps \in Nat /\ a.emissions_bps \in Nat
        /\ a.counterparty_bps \in Nat
    BY <2>2 DEF RoutingRecord
  <2>6. WithinCeilings(s, r)
    BY <2>1, <2>2, <2>3, <2>4, <2>5, Ceilings DEF WithinCeilings
  <2>7. CanReallocate(s, kind, previous, 0)
    BY <2>6, Ceilings DEF CanReallocate, r, a
  <2> QED BY <2>7 DEF s, kind, previous
<1> QED
  BY <1>1, RegistryInvariant, PTL

(***************************************************************************)
(* Weight that the counterparty total does not know of never grows where   *)
(* the profile admits none: a change of it is admitted only to zero.       *)
(***************************************************************************)
LEMMA NothingAdmitted ==
    ASSUME RegistryInv, NEW s \in Stope, MaxCounterpartyBps(s) = 0,
           NEW previous \in Nat, NEW next \in Nat,
           CanReallocate(s, "Counterparty", previous, next)
    PROVE  next = 0
<1> DEFINE a == allocation[s]
<1>1. a \in RoutingRecord
  BY DEF RegistryInv, RoutingTyped, RoutingRecord
<1>2. Reallocated(a, "Counterparty", previous, next).counterparty_bps
        = Moved(a.counterparty_bps, previous, next)
  BY <1>1, ReallocatedFields DEF RoutingRecord
<1>3. Moved(a.counterparty_bps, previous, next) <= 0
  BY <1>2 DEF CanReallocate, WithinCeilings
<1>4. /\ Moved(a.counterparty_bps, previous, next) \in Nat
      /\ next <= Moved(a.counterparty_bps, previous, next)
  <2>1. a.counterparty_bps \in Nat
    BY <1>1 DEF RoutingRecord
  <2> QED BY <2>1, MovedExactly
<1> QED
  BY <1>3, <1>4

LEMMA ReweighedDown ==
    ASSUME RegistryInv, NEW id, NEW s \in Stope, NEW kind, NEW previous, NEW next,
           Reweighs(id, s, kind, previous, next, seam, seam'),
           CanReallocate(s, kind, previous, next),
           NEW t \in Stope, MaxCounterpartyBps(t) = 0
    PROVE  RoutedBps(seam', t, {"Counterparty"})
                <= RoutedBps(seam, t, {"Counterparty"})
<1>1. previous \in Nat /\ next \in Nat /\ RoutedBps(seam, t, {"Counterparty"}) \in Nat
  BY WeightsType DEF Reweighs
<1>2. CASE t = s /\ kind = "Counterparty"
  <2>1. next = 0
    BY <1>1, <1>2, NothingAdmitted
  <2>2. /\ previous <= RoutedBps(seam, t, {"Counterparty"})
        /\ RoutedBps(seam', t, {"Counterparty"})
                = RoutedBps(seam, t, {"Counterparty"}) + next - previous
    BY <1>2, ReweighedRouted
  <2> QED BY <1>1, <2>1, <2>2
<1>3. CASE ~ (t = s /\ kind = "Counterparty")
  <2>1. RoutedBps(seam', t, {"Counterparty"}) = RoutedBps(seam, t, {"Counterparty"})
    BY <1>3, ReweighedRouted
  <2> QED BY <1>1, <2>1
<1> QED
  BY <1>2, <1>3

(***************************************************************************)
(* Counterparty weight that a stope carries from before the ceiling, and   *)
(* that its profile no longer admits, only ever goes down.                 *)
(***************************************************************************)
THEOREM LegacyWeightNeverGrows == Spec => LegacyWeightOnlyWindsDown
<1> DEFINE Down == \A s \in Stope : MaxCounterpartyBps(s) = 0 =>
                        RoutedBps(seam', s, {"Counterparty"})
                            <= RoutedBps(seam, s, {"Counterparty"})
<1>1. RegistryInv /\ [Next]_vars => [Down]_vars
  <2> SUFFICES ASSUME RegistryInv, Next, NEW t \in Stope, MaxCounterpartyBps(t) = 0
               PROVE  RoutedBps(seam', t, {"Counterparty"})
                        <= RoutedBps(seam, t, {"Counterparty"})
    OBVIOUS
  <2>1. ASSUME NEW id \in SeamId, NEW s \in Stope, NEW declared \in Declarations,
               RegisterSeam(id, s, declared)
        PROVE  RoutedBps(seam', t, {"Counterparty"})
                    <= RoutedBps(seam, t, {"Counterparty"})
    <3>1. CanReallocate(s, declared.yield_kind, 0, declared.allocation_bps)
      BY <2>1 DEF RegisterSeam
    <3>2. Reweighs(id, s, declared.yield_kind, 0, declared.allocation_bps, seam, seam')
      BY <2>1, RegisterSeamReweighs
    <3> QED BY <3>1, <3>2, ReweighedDown
  <2>2. ASSUME NEW id \in DOMAIN seam, NEW bps \in Weights, UpdateAllocation(id, bps)
        PROVE  RoutedBps(seam', t, {"Counterparty"})
                    <= RoutedBps(seam, t, {"Counterparty"})
    <3>1. CanReallocate(seam[id].stope_id, seam[id].yield_kind,
                        seam[id].allocation_bps, bps)
      BY <2>2 DEF UpdateAllocation
    <3>2. Reweighs(id, seam[id].stope_id, seam[id].yield_kind,
                   seam[id].allocation_bps, bps, seam, seam')
      BY <2>2, UpdateReweighs
    <3>3. seam[id].stope_id \in Stope
      BY SeamWeights DEF RegistryInv
    <3> QED BY <3>1, <3>2, <3>3, ReweighedDown
  <2>3. RoutedBps(seam, t, {"Counterparty"}) \in Nat
    BY SeamWeights, WeightsType DEF RegistryInv
  <2>4. ASSUME NEW id \in DOMAIN seam, NEW normalized \in U64,
               SeamAccrues(id, normalized)
        PROVE  RoutedBps(seam', t, {"Counterparty"})
                    <= RoutedBps(seam, t, {"Counterparty"})
    BY <2>3, <2>4, AccrueChanges, SameWeights
  <2>5. Tick => RoutedBps(seam', t, {"Counterparty"})
                    <= RoutedBps(seam, t, {"Counterparty"})
    BY <2>3 DEF Tick
  <2> QED BY <2>1, <2>2, <2>4, <2>5 DEF Next
<1> QED
  BY <1>1, RegistryInvariant, PTL DEF Spec, LegacyWeightOnlyWindsDown

(***************************************************************************)
(* No instruction rewrites what a seam disclosed, and an expired one takes *)
(* no yield and no new weight.                                             *)
(***************************************************************************)
Bound(x, y) ==
    /\ y.yield_kind = x.yield_kind
    /\ y.emission_ends_at = x.emission_ends_at
    /\ Expired(x) => /\ y.realized_yield = x.realized_yield
                     /\ y.allocation_bps \in {x.allocation_bps, 0}

(***************************************************************************)
(* A seam's kind and end date never change, and once an emission seam has  *)
(* expired it books nothing and its weight stays or becomes zero.          *)
(***************************************************************************)
THEOREM DisclosureIsBinding == Spec => DisclosureBinds
<1> DEFINE Binding == \A id \in DOMAIN seam : Bound(seam[id], seam'[id])
<1>1. RegistryInv /\ [Next]_vars => [Binding]_vars
  <2> SUFFICES ASSUME RegistryInv, Next, NEW i \in DOMAIN seam
               PROVE  Bound(seam[i], seam'[i])
    OBVIOUS
  <2>1. seam'[i] = seam[i] => Bound(seam[i], seam'[i])
    BY DEF Bound
  <2>2. ASSUME NEW id \in SeamId, NEW s \in Stope, NEW declared \in Declarations,
               RegisterSeam(id, s, declared)
        PROVE  Bound(seam[i], seam'[i])
    BY <2>1, <2>2, RegisterSeams
  <2>3. seam[i] \in SeamRecord /\ now \in Int
    BY DEF RegistryInv, SeamsTyped
  <2>4. ASSUME NEW id \in DOMAIN seam, NEW bps \in Weights, UpdateAllocation(id, bps)
        PROVE  Bound(seam[i], seam'[i])
    <3>1. CASE i = id
      <4>1. Expired(seam[i]) => bps = 0
        BY <2>3, <2>4, <3>1
           DEF Expired, UpdateAllocation, AccrualWindowOpen, SeamRecord
      <4> QED BY <2>4, <3>1, <4>1, UpdateChanges DEF OneSeamChanges, Bound
    <3> QED BY <2>1, <2>4, <3>1, UpdateChanges DEF OneSeamChanges
  <2>5. ASSUME NEW id \in DOMAIN seam, NEW normalized \in U64,
               SeamAccrues(id, normalized)
        PROVE  Bound(seam[i], seam'[i])
    <3>1. CASE i = id
      <4>1. ~ Expired(seam[i])
        BY <2>3, <2>5, <3>1 DEF Expired, SeamAccrues, AccrualWindowOpen, SeamRecord
      <4> QED BY <2>5, <3>1, <4>1, AccrueChanges DEF OneSeamChanges, Bound
    <3> QED BY <2>1, <2>5, <3>1, AccrueChanges DEF OneSeamChanges
  <2>6. Tick => Bound(seam[i], seam'[i])
    BY <2>1 DEF Tick
  <2> QED BY <2>2, <2>4, <2>5, <2>6 DEF Next
<1>2. [Binding]_vars => [\A id \in DOMAIN seam :
        LET x == seam[id]
            y == seam'[id]
        IN  /\ y.yield_kind = x.yield_kind
            /\ y.emission_ends_at = x.emission_ends_at
            /\ Expired(x) => /\ y.realized_yield = x.realized_yield
                             /\ y.allocation_bps \in {x.allocation_bps, 0}]_vars
  BY Zenon DEF Bound
<1> QED
  BY <1>1, <1>2, RegistryInvariant, PTL DEF Spec, DisclosureBinds
=============================================================================
