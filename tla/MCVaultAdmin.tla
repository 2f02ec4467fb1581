---------------------------- MODULE MCVaultAdmin ----------------------------
(***************************************************************************)
(* The authority's instructions, called with parameters in and out of the  *)
(* bounds initialize_vault checks, each bound on its own.                  *)
(***************************************************************************)
EXTENDS VaultAdmin, TLC

Sound == [fee_bps |-> 1, redemption_delay_sec |-> 1,
          max_redemption_delay_sec |-> 3, queue_drain_per_day |-> 1,
          min_keeper_bond |-> 1, keeper_unbond_cooldown_sec |-> 1]

MCParameters ==
    {Sound,
     [Sound EXCEPT !.fee_bps = 11],
     [Sound EXCEPT !.redemption_delay_sec = -1],
     [Sound EXCEPT !.redemption_delay_sec = 3],
     [Sound EXCEPT !.max_redemption_delay_sec = 0],
     [Sound EXCEPT !.max_redemption_delay_sec = 8],
     [Sound EXCEPT !.queue_drain_per_day = 0],
     [Sound EXCEPT !.min_keeper_bond = 0],
     [Sound EXCEPT !.keeper_unbond_cooldown_sec = -1],
     [Sound EXCEPT !.keeper_unbond_cooldown_sec = 8]}

KeysAlike == Permutations(Signers) \cup Permutations(LostKeys)
=============================================================================
