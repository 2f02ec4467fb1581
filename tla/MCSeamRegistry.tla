--------------------------- MODULE MCSeamRegistry ---------------------------
(***************************************************************************)
(* The registry as an upgrade finds it: while nothing forbade it           *)
(* (docs/risk-spec.md, section 7.5), a counterparty seam was given 2000    *)
(* bps of the balanced stope, where the ceiling is now 0, and another one  *)
(* 2000 bps of the aggressive stope, where new weight is still admitted.   *)
(***************************************************************************)
EXTENDS SeamRegistry

CounterpartySeam(s) ==
    [stope_id |-> s, asset_mint |-> CHOOSE a \in Asset : TRUE,
     yield_kind |-> "Counterparty", risk_tier |-> 2, allocation_bps |-> 2000,
     emission_ends_at |-> 0, emission_mint |-> NoMint,
     realized_yield |-> 0, last_accrual_at |-> 0]

MCLegacySeams == <<CounterpartySeam(2), CounterpartySeam(3)>>
=============================================================================
