-------------------------- MODULE VaultAdminProofs --------------------------
(***************************************************************************)
(* Theorems about VaultAdmin, for any sets of keys and of parameters.      *)
(***************************************************************************)
EXTENDS VaultAdmin, TLAPS

USE MathAssumption, AdminAssumption

(***************************************************************************)
(* What the handover rests on: types, a present authority that can sign,   *)
(* and a nomination made by it.                                            *)
(***************************************************************************)
AdminInv == TypeOK /\ AuthorityCanSign /\ NominationIsCurrent

LEMMA InitAdminInv == Init => AdminInv /\ ParametersAreSound
<1> SUFFICES ASSUME Init PROVE AdminInv /\ ParametersAreSound
  OBVIOUS
<1>1. TypeOK
  <2>1. params \in Parameters \cup {NoParams}
    BY Zenon DEF Init
  <2>2. stope_count \in 0..STOPE_COUNT
    BY DEF Init, STOPE_COUNT
  <2>3. open_stopes \subseteq 0..2
    BY DEF Init
  <2> QED BY <2>1, <2>2, <2>3, Zenon DEF Init, TypeOK
<1> QED
  BY <1>1 DEF Init, AdminInv, AuthorityCanSign, NominationIsCurrent,
              ParametersAreSound

LEMMA InitializeVaultAdminInv ==
    ASSUME AdminInv, NEW k \in Signers, NEW p \in Parameters,
           InitializeVault(k, p)
    PROVE  AdminInv'
BY DEF AdminInv, TypeOK, AuthorityCanSign, NominationIsCurrent,
       InitializeVault, Key, STOPE_COUNT

LEMMA InitializeBondVaultAdminInv ==
    ASSUME AdminInv, NEW k \in Signers, InitializeBondVault(k)
    PROVE  AdminInv'
BY DEF AdminInv, TypeOK, AuthorityCanSign, NominationIsCurrent,
       InitializeBondVault, setup

LEMMA OpenStopeAdminInv ==
    ASSUME AdminInv, NEW k \in Signers, NEW id, NEW profile,
           OpenStope(k, id, profile)
    PROVE  AdminInv'
<1>1. id \in 0..2
  <2>1. id \in DOMAIN CanonicalProfile
    BY DEF OpenStope
  <2>2. DOMAIN CanonicalProfile = 0..2
    BY Zenon DEF CanonicalProfile
  <2> QED BY <2>1, <2>2
<1>2. open_stopes' \subseteq 0..2
  BY <1>1 DEF OpenStope, AdminInv, TypeOK
<1>3. stope_count' \in 0..STOPE_COUNT
  BY DEF OpenStope, AdminInv, TypeOK, STOPE_COUNT
<1>4. UNCHANGED <<initialized, authority, pending_authority, paused, params,
                  bond_vault_open, nominator>>
  BY DEF OpenStope, setup
<1> QED
  BY <1>2, <1>3, <1>4, Zenon
     DEF AdminInv, TypeOK, AuthorityCanSign, NominationIsCurrent

LEMMA SetPauseAdminInv ==
    ASSUME AdminInv, NEW k \in Signers, NEW next \in BOOLEAN, SetPause(k, next)
    PROVE  AdminInv'
BY DEF AdminInv, TypeOK, AuthorityCanSign, NominationIsCurrent, SetPause, setup

(***************************************************************************)
(* A nomination names its maker, who is the authority.                     *)
(***************************************************************************)
LEMMA ProposeAuthorityAdminInv ==
    ASSUME AdminInv, NEW k \in Signers, NEW newAuthority \in Key \cup {NoKey},
           ProposeAuthority(k, newAuthority)
    PROVE  AdminInv'
BY DEF AdminInv, TypeOK, AuthorityCanSign, NominationIsCurrent,
       ProposeAuthority, SignedByAuthority, Key, setup

(***************************************************************************)
(* Only a key that signs can become the authority.                         *)
(***************************************************************************)
LEMMA AcceptAuthorityAdminInv ==
    ASSUME AdminInv, NEW k \in Signers, AcceptAuthority(k)
    PROVE  AdminInv'
BY DEF AdminInv, TypeOK, AuthorityCanSign, NominationIsCurrent,
       AcceptAuthority, MayAccept, Key, setup

LEMMA NextAdminInv == AdminInv /\ [Next]_vars => AdminInv'
<1> SUFFICES ASSUME AdminInv, [Next]_vars PROVE AdminInv'
  OBVIOUS
<1>1. ASSUME UNCHANGED vars PROVE AdminInv'
  BY <1>1 DEF AdminInv, TypeOK, AuthorityCanSign, NominationIsCurrent, vars
<1>2. ASSUME NEW k \in Signers, PauseVault(k) \/ UnpauseVault(k) PROVE AdminInv'
  BY <1>2, SetPauseAdminInv DEF PauseVault, UnpauseVault
<1> QED
  BY <1>1, <1>2, InitializeVaultAdminInv, InitializeBondVaultAdminInv,
     OpenStopeAdminInv, ProposeAuthorityAdminInv, AcceptAuthorityAdminInv
     DEF Next

(***************************************************************************)
(* The parameters are fixed once, by an instruction that checks them.      *)
(***************************************************************************)
LEMMA NextParametersAreSound ==
    AdminInv /\ ParametersAreSound /\ [Next]_vars => ParametersAreSound'
<1> SUFFICES ASSUME ParametersAreSound, [Next]_vars PROVE ParametersAreSound'
  OBVIOUS
<1>1. ASSUME NEW k \in Signers, NEW p \in Parameters, InitializeVault(k, p)
      PROVE  ParametersAreSound'
  <2>1. I64Max \in Int
    BY DEF I64Max
  <2> QED
    BY <1>1, <2>1 DEF InitializeVault, Valid, ParametersAreSound
<1>2. ASSUME UNCHANGED setup PROVE ParametersAreSound'
  BY <1>2 DEF setup, ParametersAreSound
<1>3. ASSUME NEW k \in Signers,
             \/ InitializeBondVault(k)
             \/ \E id \in 0..STOPE_COUNT,
                   profile \in {"Conservative", "Balanced", "Aggressive"} :
                    OpenStope(k, id, profile)
             \/ PauseVault(k)
             \/ UnpauseVault(k)
             \/ \E newAuthority \in Key \cup {NoKey} :
                    ProposeAuthority(k, newAuthority)
             \/ AcceptAuthority(k)
      PROVE  UNCHANGED setup
  BY <1>3 DEF InitializeBondVault, OpenStope, PauseVault, UnpauseVault,
              SetPause, ProposeAuthority, AcceptAuthority
<1>4. UNCHANGED vars => UNCHANGED setup
  BY DEF vars, setup
<1> QED
  BY <1>1, <1>2, <1>3, <1>4 DEF Next

-----------------------------------------------------------------------------
LEMMA AdminInvariant == Spec => []AdminInv
BY InitAdminInv, NextAdminInv, PTL DEF Spec

(***************************************************************************)
(* The root account keeps its types, open_stopes within the three ids.     *)
(***************************************************************************)
THEOREM AdminTypeCorrect == Spec => []TypeOK
<1>1. AdminInv => TypeOK
  BY DEF AdminInv
<1> QED
  BY <1>1, AdminInvariant, PTL

(***************************************************************************)
(* However handovers are proposed, cancelled and accepted (propose_        *)
(* authority, accept_authority), the vault has an authority that can sign. *)
(***************************************************************************)
THEOREM AuthorityNeverLost == Spec => []AuthorityCanSign
<1>1. AdminInv => AuthorityCanSign
  BY DEF AdminInv
<1> QED
  BY <1>1, AdminInvariant, PTL

(***************************************************************************)
(* No nomination outlives the authority that made it.                      *)
(***************************************************************************)
THEOREM NoStaleNomination == Spec => []NominationIsCurrent
<1>1. AdminInv => NominationIsCurrent
  BY DEF AdminInv
<1> QED
  BY <1>1, AdminInvariant, PTL

(***************************************************************************)
(* Whatever initialize_vault is called with, the parameters of a vault     *)
(* that exists meet what the queue, the fee and the bond assume of them.   *)
(***************************************************************************)
THEOREM ParametersAlwaysSound == Spec => []ParametersAreSound
BY InitAdminInv, NextParametersAreSound, AdminInvariant, PTL DEF Spec
=============================================================================
