----------------------------- MODULE VaultAdmin -----------------------------
(***************************************************************************)
(* The root account (state/config.rs) and the instructions that set the    *)
(* vault up, pause it and hand its authority over (instructions/admin.rs). *)
(*                                                                         *)
(* A transaction is signed by the keys it names as Signer.  Left out: the  *)
(* addresses initialize_vault records and the counts of adits, seams and   *)
(* keepers, which other modules keep.                                      *)
(***************************************************************************)
EXTENDS LodzMath

CONSTANTS
    Signers,        \* keys somebody can sign with
    LostKeys,       \* keys nobody can sign with, such as a mistyped one
    NoKey,          \* Pubkey::default()
    Parameters,     \* what initialize_vault may be called with
    MAX_FEE_BPS,                        \* bounds the program compiles in
    MAX_BASE_REDEMPTION_DELAY_SEC,
    MAX_TOTAL_REDEMPTION_DELAY_SEC,
    MAX_KEEPER_UNBOND_COOLDOWN_SEC

ASSUME AdminAssumption ==
    /\ NoKey \notin Signers \cup LostKeys
    /\ Signers \cap LostKeys = {}
    /\ Parameters \subseteq
            [fee_bps : Nat, redemption_delay_sec : Int,
             max_redemption_delay_sec : Int, queue_drain_per_day : Nat,
             min_keeper_bond : Nat, keeper_unbond_cooldown_sec : Int]
    /\ MAX_FEE_BPS \in 0..BPS_DENOMINATOR
    /\ MAX_BASE_REDEMPTION_DELAY_SEC \in Nat
    /\ MAX_TOTAL_REDEMPTION_DELAY_SEC \in 0..I64Max
    /\ MAX_KEEPER_UNBOND_COOLDOWN_SEC \in 0..I64Max

Key == Signers \cup LostKeys

STOPE_COUNT == 3

VARIABLES
    initialized,        \* whether the VaultConfig account exists
    authority,
    pending_authority,
    paused,
    params,             \* the parameters initialize_vault fixed
    bond_vault_open,    \* whether the bond vault account exists
    open_stopes,        \* the stope ids whose accounts exist
    stope_count,
    nominator           \* history: who signed the last propose_authority

vars == <<initialized, authority, pending_authority, paused, params,
          bond_vault_open, open_stopes, stope_count, nominator>>

\* What initialize_vault decides once.
setup == <<initialized, params>>

NoParams == [fee_bps |-> 0, redemption_delay_sec |-> 0,
             max_redemption_delay_sec |-> 0, queue_drain_per_day |-> 0,
             min_keeper_bond |-> 0, keeper_unbond_cooldown_sec |-> 0]

Init ==
    /\ initialized = FALSE
    /\ authority = NoKey
    /\ pending_authority = NoKey
    /\ paused = FALSE
    /\ params = NoParams
    /\ bond_vault_open = FALSE
    /\ open_stopes = {}
    /\ stope_count = 0
    /\ nominator = NoKey

-----------------------------------------------------------------------------
\* Mutant: a queue that never drains is accepted.
ValidWithoutDrain(p) ==
    /\ p.fee_bps <= MAX_FEE_BPS
    /\ p.redemption_delay_sec \in 0..MAX_BASE_REDEMPTION_DELAY_SEC
    /\ p.max_redemption_delay_sec
            \in p.redemption_delay_sec..MAX_TOTAL_REDEMPTION_DELAY_SEC
    /\ p.min_keeper_bond > 0
    /\ p.keeper_unbond_cooldown_sec \in 0..MAX_KEEPER_UNBOND_COOLDOWN_SEC

\* InitializeVaultParams::validate
Valid(p) ==
    /\ p.fee_bps <= MAX_FEE_BPS
    /\ p.redemption_delay_sec \in 0..MAX_BASE_REDEMPTION_DELAY_SEC
    /\ p.max_redemption_delay_sec
            \in p.redemption_delay_sec..MAX_TOTAL_REDEMPTION_DELAY_SEC
    /\ p.queue_drain_per_day > 0
    /\ p.min_keeper_bond > 0
    /\ p.keeper_unbond_cooldown_sec \in 0..MAX_KEEPER_UNBOND_COOLDOWN_SEC

\* The vault starts paused.
InitializeVault(k, p) ==
    /\ ~ initialized
    /\ Valid(p)
    /\ initialized' = TRUE
    /\ authority' = k
    /\ pending_authority' = NoKey
    /\ params' = p
    /\ stope_count' = 0
    /\ paused' = TRUE
    /\ UNCHANGED <<bond_vault_open, open_stopes, nominator>>

\* has_one = authority, on an account that exists
SignedByAuthority(k) == initialized /\ k = authority

InitializeBondVault(k) ==
    /\ SignedByAuthority(k)
    /\ ~ bond_vault_open
    /\ bond_vault_open' = TRUE
    /\ UNCHANGED <<setup, authority, pending_authority, paused,
                   open_stopes, stope_count, nominator>>

\* Mutant: an id beyond the third has a profile.
CanonicalProfileOfAny == [id \in 0..STOPE_COUNT |->
    CASE id = 0 -> "Conservative" [] id = 1 -> "Balanced" [] OTHER -> "Aggressive"]

\* RiskProfile::from_id, and the profile each id must be opened with.
CanonicalProfile == [id \in 0..2 |->
    CASE id = 0 -> "Conservative" [] id = 1 -> "Balanced" [] id = 2 -> "Aggressive"]

OpenStope(k, id, riskProfile) ==
    /\ SignedByAuthority(k)
    /\ id \notin open_stopes
    /\ id \in DOMAIN CanonicalProfile
    /\ CanonicalProfile[id] = riskProfile
    /\ stope_count + 1 <= STOPE_COUNT
    /\ open_stopes' = open_stopes \cup {id}
    /\ stope_count' = stope_count + 1
    /\ UNCHANGED <<setup, authority, pending_authority, paused,
                   bond_vault_open, nominator>>

SetPause(k, next) ==
    /\ SignedByAuthority(k)
    /\ paused # next
    /\ paused' = next
    /\ UNCHANGED <<setup, authority, pending_authority, bond_vault_open,
                   open_stopes, stope_count, nominator>>

PauseVault(k)   == SetPause(k, TRUE)
UnpauseVault(k) == SetPause(k, FALSE)

ProposeAuthority(k, newAuthority) ==
    /\ SignedByAuthority(k)
    /\ pending_authority' = newAuthority
    /\ nominator' = k
    /\ UNCHANGED <<setup, authority, paused, bond_vault_open, open_stopes,
                   stope_count>>

\* Mutant: anybody may accept for the nominated key.
MayAcceptForAnother(k) ==
    /\ initialized
    /\ pending_authority # NoKey

\* pending_authority signs; the default key is no signer, and is refused too.
MayAccept(k) ==
    /\ initialized
    /\ k = pending_authority
    /\ pending_authority # NoKey

\* Mutant: the nomination is not cleared.
AcceptAndKeepNomination(k) ==
    /\ MayAccept(k)
    /\ authority' = pending_authority
    /\ UNCHANGED <<setup, pending_authority, paused, bond_vault_open,
                   open_stopes, stope_count, nominator>>

AcceptAuthority(k) ==
    /\ MayAccept(k)
    /\ authority' = pending_authority
    /\ pending_authority' = NoKey
    /\ UNCHANGED <<setup, paused, bond_vault_open, open_stopes, stope_count,
                   nominator>>

Next ==
    \E k \in Signers :
        \/ \E p \in Parameters : InitializeVault(k, p)
        \/ InitializeBondVault(k)
        \/ \E id \in 0..STOPE_COUNT, profile \in {"Conservative", "Balanced", "Aggressive"} :
                OpenStope(k, id, profile)
        \/ PauseVault(k)
        \/ UnpauseVault(k)
        \/ \E newAuthority \in Key \cup {NoKey} : ProposeAuthority(k, newAuthority)
        \/ AcceptAuthority(k)

Spec == Init /\ [][Next]_vars

-----------------------------------------------------------------------------
(***************************************************************************)
(* Types of the root account.                                              *)
(***************************************************************************)
TypeOK ==
    /\ initialized \in BOOLEAN
    /\ authority \in Key \cup {NoKey}
    /\ pending_authority \in Key \cup {NoKey}
    /\ paused \in BOOLEAN
    /\ params \in Parameters \cup {NoParams}
    /\ bond_vault_open \in BOOLEAN
    /\ open_stopes \subseteq 0..2
    /\ stope_count \in 0..STOPE_COUNT
    /\ nominator \in Key \cup {NoKey}

(***************************************************************************)
(* The vault always has an authority that can sign: no typo in a handover, *)
(* and no cancelled or repeated one, leaves it to a key nobody has         *)
(* (state/config.rs, "cannot brick the protocol").                         *)
(***************************************************************************)
AuthorityCanSign == initialized => authority \in Signers

(***************************************************************************)
(* A nomination is the present authority's own: none survives the handover *)
(* that replaces the key which made it, so no former authority can leave   *)
(* one behind and take the vault back.                                     *)
(***************************************************************************)
NominationIsCurrent ==
    pending_authority # NoKey => nominator = authority

(***************************************************************************)
(* What initialize_vault lets through meets what the queue, the fee and    *)
(* the keeper bond assume of their parameters (QueueAssumption in Orecart, *)
(* BondAssumption in KeeperBond): no vault can be initialized in which the *)
(* wait overflows, the drain divides by zero or the fee exceeds the yield. *)
(***************************************************************************)
ParametersAreSound ==
    initialized =>
        /\ params.fee_bps \in 0..BPS_DENOMINATOR
        /\ params.redemption_delay_sec \in Nat
        /\ params.redemption_delay_sec <= params.max_redemption_delay_sec
        /\ params.max_redemption_delay_sec <= I64Max
        /\ params.queue_drain_per_day \in Nat \ {0}
        /\ params.min_keeper_bond \in Nat \ {0}
        /\ params.keeper_unbond_cooldown_sec \in 0..I64Max
=============================================================================
