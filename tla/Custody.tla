------------------------------ MODULE Custody -------------------------------
(***************************************************************************)
(* The assets the vault accepts (state/adit.rs) and the token accounts it  *)
(* holds them in: register_adit and the transfers of deposit, accrue_yield *)
(* and claim_redemption, with the counters of the Adit account that go     *)
(* with them.  Amounts here are in an asset's native units.                *)
(*                                                                         *)
(* Balances are the token program's.  It is modelled from how the program  *)
(* calls it: a transfer takes the amount or fails, delivers it less the    *)
(* fee of a Token-2022 mint that charges one, and anybody may send tokens  *)
(* to a custody account without calling the program at all.                *)
(***************************************************************************)
EXTENDS LodzMath

CONSTANTS
    Asset,          \* mints the authority may register
    Conversions,    \* [num, den] pairs it may pin, zeros among them
    DepositCaps,    \* caps it may set; 0 means uncapped
    Supply,         \* native units of each asset in existence
    FeeMints        \* assets whose mint may charge a transfer fee

\* Assumed by LodzVault, which instantiates this module.
CustodyAssumption ==
    /\ \A c \in Conversions : c.num \in Nat /\ c.den \in Nat
    /\ DepositCaps \subseteq Nat
    /\ Supply \in U64
    /\ FeeMints \subseteq Asset

VARIABLES
    adit,       \* a function from the registered assets to Adit accounts
    adit_vault, \* [Asset -> balance of the custody account]
    outside,    \* [Asset -> units in everybody else's accounts]
    fee_mints,  \* the assets whose mint does charge a transfer fee
    withheld    \* history: units of booked transfers that were not delivered

vars == <<adit, adit_vault, outside, fee_mints, withheld>>

Init ==
    /\ adit = <<>>
    /\ adit_vault = [a \in Asset |-> 0]
    /\ outside = [a \in Asset |-> Supply]
    /\ fee_mints \in SUBSET FeeMints
    /\ withheld = [a \in Asset |-> 0]

RegisterAdit(a, conversion, depositCap) ==
    /\ a \notin DOMAIN adit
    /\ conversion.num # 0 /\ conversion.den # 0
    /\ adit' = [b \in DOMAIN adit \cup {a} |->
            IF b # a THEN adit[b] ELSE
            [conversion |-> conversion, deposit_cap |-> depositCap,
             total_deposited |-> 0, total_normalized |-> 0]]
    /\ UNCHANGED <<adit_vault, outside, fee_mints, withheld>>

\* What an amount of a registered asset is credited as, and what it pays out.
Normalized(a, amount) == ToNormalized(amount, adit[a].conversion)

\* Mutant: converted in the wrong direction.
NativeUnitsInverted(a, normalized) ==
    ToNormalized(normalized, adit[a].conversion)

NativeUnits(a, normalized) == FromNormalized(normalized, adit[a].conversion)

(***************************************************************************)
(* A transfer of a mint that charges a fee delivers less than it takes.    *)
(* Half, rounded up as Token-2022 rounds, shows at the smallest amounts.   *)
(***************************************************************************)
Delivered(a, amount) == IF a \in fee_mints THEN amount \div 2 ELSE amount

TransferIn(a, amount) ==
    /\ amount <= outside[a]
    /\ outside' = [outside EXCEPT ![a] = @ - amount]
    /\ adit_vault' = [adit_vault EXCEPT ![a] = @ + Delivered(a, amount)]
    /\ UNCHANGED fee_mints

\* Mutant: the wrong counter checked.
RoomForNative(a, amount) == Fits64(adit[a].total_deposited + amount)

\* The checked additions to the counters of an asset.
RoomForCredit(a, amount) ==
    /\ Fits64(adit[a].total_deposited + amount)
    /\ Fits64(adit[a].total_normalized + Normalized(a, amount))

(***************************************************************************)
(* A transfer in, and the counters that deposit and accrue_yield both move *)
(* after it, by the amount they asked for.                                 *)
(***************************************************************************)
Receive(a, amount) ==
    /\ a \in DOMAIN adit
    /\ amount > 0
    /\ Fits64(Normalized(a, amount))
    /\ Normalized(a, amount) > 0
    /\ TransferIn(a, amount)
    /\ RoomForCredit(a, amount)
    /\ adit' = [adit EXCEPT
            ![a].total_deposited = @ + amount,
            ![a].total_normalized = @ + Normalized(a, amount)]
    /\ withheld' = [withheld EXCEPT ![a] = @ + amount - Delivered(a, amount)]

UnderCap(a, amount) ==
    adit[a].deposit_cap > 0
        => adit[a].total_deposited + amount <= adit[a].deposit_cap

\* deposit
TakeDeposit(a, amount) ==
    /\ a \in DOMAIN adit
    /\ UnderCap(a, amount)
    /\ Receive(a, amount)

\* accrue_yield, which checks no cap
TakeYield(a, amount) == Receive(a, amount)

\* Mutant: the wrong counter.
DebitedCredit(x, payout) ==
    [x EXCEPT !.total_normalized = SaturatingSub(@, payout)]

Debited(x, payout) ==
    [x EXCEPT !.total_deposited = SaturatingSub(@, payout)]

\* claim_redemption
PayOut(a, payout) ==
    /\ a \in DOMAIN adit
    /\ payout > 0
    /\ adit_vault[a] >= payout
    /\ adit_vault' = [adit_vault EXCEPT ![a] = @ - payout]
    /\ outside' = [outside EXCEPT ![a] = @ + Delivered(a, payout)]
    /\ adit' = [adit EXCEPT ![a] = Debited(@, payout)]
    /\ UNCHANGED <<fee_mints, withheld>>

\* Somebody's direct transfer to a custody account.
SendDirectly(a, amount) ==
    /\ a \in DOMAIN adit
    /\ amount > 0
    /\ TransferIn(a, amount)
    /\ UNCHANGED <<adit, withheld>>

(***************************************************************************)
(* Custody on its own.  Which payouts are made is decided by the tickets   *)
(* (Orecart), so any payout that the balance covers may happen here.       *)
(***************************************************************************)
Next ==
    \E a \in Asset :
        \/ \E c \in Conversions, cap \in DepositCaps : RegisterAdit(a, c, cap)
        \/ \E amount \in 1..Supply :
            \/ TakeDeposit(a, amount)
            \/ TakeYield(a, amount)
            \/ PayOut(a, amount)
            \/ SendDirectly(a, amount)

Spec == Init /\ [][Next]_vars

-----------------------------------------------------------------------------
AditRecord ==
    [conversion : Conversions, deposit_cap : DepositCaps,
     total_deposited : U64, total_normalized : U64]

(***************************************************************************)
(* Types of the custody state.                                             *)
(***************************************************************************)
TypeOK ==
    /\ DOMAIN adit \subseteq Asset
    /\ \A a \in DOMAIN adit : adit[a] \in AditRecord
    /\ adit_vault \in [Asset -> U64]
    /\ outside \in [Asset -> U64]
    /\ fee_mints \subseteq FeeMints
    /\ withheld \in [Asset -> U64]

(***************************************************************************)
(* The books never claim more than is there: total_deposited ("Native      *)
(* units currently custodied") is at most the custody balance, also after  *)
(* payouts that spent units the program never booked, where the code's     *)
(* saturating_sub does saturate.  For a mint that charges a transfer fee,  *)
(* which deposit and accrue_yield do not allow for, the books are short by *)
(* what was withheld from their transfers and by nothing else.             *)
(***************************************************************************)
BooksCoveredByCustody ==
    \A a \in DOMAIN adit :
        adit[a].total_deposited <= adit_vault[a] + withheld[a]

-----------------------------------------------------------------------------
(***************************************************************************)
(* Nothing is made: what the accounts hold and what transfers withheld is  *)
(* at most the supply.  It bounds every balance, so no transfer can        *)
(* overflow one.                                                           *)
(***************************************************************************)
Lost(a) == adit_vault[a] + outside[a] + withheld[a]

SupplyInv == \A a \in Asset : Lost(a) <= Supply

CustodyInv == TypeOK /\ SupplyInv /\ BooksCoveredByCustody

(***************************************************************************)
(* The ratio an asset was registered with is never zero on either side, so *)
(* no conversion divides by zero.                                          *)
(***************************************************************************)
RatiosPinned ==
    \A a \in DOMAIN adit : adit[a].conversion.num # 0 /\ adit[a].conversion.den # 0

(***************************************************************************)
(* Of a mint that charges no fee, every booked unit arrived.               *)
(***************************************************************************)
FeelessWhole == \A a \in Asset \ fee_mints : withheld[a] = 0
=============================================================================
