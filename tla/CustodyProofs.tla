--------------------------- MODULE CustodyProofs ---------------------------
(***************************************************************************)
(* Theorems about Custody, for any assets, conversions, caps and supply,   *)
(* whichever of the mints charge a transfer fee.                           *)
(***************************************************************************)
EXTENDS Custody, TLAPS

USE MathAssumption

LEMMA InU64 == \A n \in Nat : n <= Supply /\ CustodyAssumption => n \in U64
BY DEF CustodyAssumption, U64

LEMMA BalanceTypes ==
    ASSUME TypeOK, NEW a \in Asset
    PROVE  /\ adit_vault[a] \in Nat /\ outside[a] \in Nat /\ withheld[a] \in Nat
           /\ a \in DOMAIN adit => adit[a].total_deposited \in Nat
<1>1. adit_vault[a] \in U64 /\ outside[a] \in U64 /\ withheld[a] \in U64
  BY DEF TypeOK
<1>2. a \in DOMAIN adit => adit[a].total_deposited \in U64
  BY DEF TypeOK, AditRecord
<1> QED
  BY <1>1, <1>2 DEF U64

(***************************************************************************)
(* A transfer delivers at most what it takes.                              *)
(***************************************************************************)
LEMMA DeliveredBounds ==
    ASSUME NEW a, NEW amount \in Nat
    PROVE  Delivered(a, amount) \in 0..amount
<1>1. amount \div 2 \in 0..amount
  BY SMT
<1> QED
  BY <1>1 DEF Delivered

(***************************************************************************)
(* The balances of one asset, after a step that leaves the others alone,   *)
(* keep their types if they keep the supply.                               *)
(***************************************************************************)
BalancesMove(a, vault, out, lost) ==
    /\ adit_vault' = [adit_vault EXCEPT ![a] = vault]
    /\ outside' = [outside EXCEPT ![a] = out]
    /\ withheld' = [withheld EXCEPT ![a] = lost]
    /\ fee_mints' = fee_mints

LEMMA BalancesKeepTypes ==
    ASSUME CustodyAssumption, TypeOK, SupplyInv, NEW a \in Asset,
           NEW vault \in Nat, NEW out \in Nat, NEW lost \in Nat,
           BalancesMove(a, vault, out, lost), vault + out + lost <= Supply
    PROVE  /\ adit_vault' \in [Asset -> U64] /\ outside' \in [Asset -> U64]
           /\ withheld' \in [Asset -> U64] /\ fee_mints' \subseteq FeeMints
           /\ SupplyInv'
<1>1. Supply \in Nat
  BY DEF CustodyAssumption, U64
<1>2. vault \in U64 /\ out \in U64 /\ lost \in U64
  <2>1. vault <= Supply /\ out <= Supply /\ lost <= Supply
    BY <1>1
  <2> QED BY <2>1, InU64
<1>3. /\ adit_vault \in [Asset -> U64] /\ outside \in [Asset -> U64]
      /\ withheld \in [Asset -> U64] /\ fee_mints \subseteq FeeMints
  BY DEF TypeOK
<1>4. /\ adit_vault' \in [Asset -> U64] /\ outside' \in [Asset -> U64]
      /\ withheld' \in [Asset -> U64] /\ fee_mints' \subseteq FeeMints
  BY <1>2, <1>3 DEF BalancesMove
<1>5. ASSUME NEW b \in Asset
      PROVE  adit_vault'[b] + outside'[b] + withheld'[b] <= Supply
  <2>1. CASE b = a
    <3>1. adit_vault'[a] = vault /\ outside'[a] = out /\ withheld'[a] = lost
      BY <1>3 DEF BalancesMove
    <3> QED BY <2>1, <3>1
  <2>2. CASE b # a
    <3>1. /\ adit_vault'[b] = adit_vault[b] /\ outside'[b] = outside[b]
          /\ withheld'[b] = withheld[b]
      BY <1>3, <2>2 DEF BalancesMove
    <3> QED BY <3>1 DEF SupplyInv, Lost
  <2> QED BY <2>1, <2>2
<1>6. SupplyInv'
  BY <1>5 DEF SupplyInv, Lost
<1> QED
  BY <1>4, <1>6

(***************************************************************************)
(* The books of one registered asset change and the others' do not.        *)
(***************************************************************************)
BooksMove(a, record) ==
    /\ DOMAIN adit' = DOMAIN adit /\ adit'[a] = record
    /\ \A b \in DOMAIN adit : b # a => adit'[b] = adit[b]

LEMMA BooksKeepCover ==
    ASSUME TypeOK, BooksCoveredByCustody, NEW a \in Asset, a \in DOMAIN adit,
           NEW vault \in Nat, NEW out \in Nat, NEW lost \in Nat,
           NEW record \in AditRecord,
           BalancesMove(a, vault, out, lost), BooksMove(a, record),
           record.total_deposited <= vault + lost
    PROVE  /\ DOMAIN adit' \subseteq Asset
           /\ \A b \in DOMAIN adit' : adit'[b] \in AditRecord
           /\ BooksCoveredByCustody'
<1>1. /\ DOMAIN adit' = DOMAIN adit /\ adit'[a] = record
      /\ \A b \in DOMAIN adit : b # a => adit'[b] = adit[b]
  BY DEF BooksMove
<1>2. /\ adit_vault'[a] = vault /\ withheld'[a] = lost
      /\ \A b \in Asset : b # a => /\ adit_vault'[b] = adit_vault[b]
                                   /\ withheld'[b] = withheld[b]
  BY DEF BalancesMove, TypeOK
<1>3. /\ DOMAIN adit \subseteq Asset
      /\ \A b \in DOMAIN adit : adit[b] \in AditRecord
  BY DEF TypeOK
<1>4. \A b \in DOMAIN adit : adit[b].total_deposited <= adit_vault[b] + withheld[b]
  BY DEF BooksCoveredByCustody
<1>5. \A b \in DOMAIN adit :
            adit'[b].total_deposited <= adit_vault'[b] + withheld'[b]
  <2> TAKE b \in DOMAIN adit
  <2>1. CASE b = a
    BY <1>1, <1>2, <2>1
  <2>2. CASE b # a
    <3>1. adit'[b] = adit[b]
      BY <1>1, <2>2
    <3>2. adit_vault'[b] = adit_vault[b] /\ withheld'[b] = withheld[b]
      BY <1>2, <1>3, <2>2
    <3> QED BY <1>4, <3>1, <3>2
  <2> QED BY <2>1, <2>2
<1> QED
  BY <1>1, <1>3, <1>5 DEF BooksCoveredByCustody

LEMMA InitCustody == CustodyAssumption /\ Init => CustodyInv
<1> SUFFICES ASSUME CustodyAssumption, Init PROVE CustodyInv
  OBVIOUS
<1>1. 0 \in U64 /\ Supply \in U64 /\ Supply \in Nat
  BY DEF CustodyAssumption, U64
<1>2. DOMAIN adit = {}
  BY DEF Init
<1>3. TypeOK
  BY <1>1, <1>2 DEF Init, TypeOK
<1>4. SupplyInv
  BY <1>1 DEF Init, SupplyInv, Lost
<1> QED
  BY <1>2, <1>3, <1>4 DEF CustodyInv, BooksCoveredByCustody

LEMMA RegisterCustody ==
    ASSUME CustodyInv, NEW a \in Asset, NEW c \in Conversions, NEW cap \in DepositCaps,
           RegisterAdit(a, c, cap)
    PROVE  CustodyInv'
<1> DEFINE record == [conversion |-> c, deposit_cap |-> cap,
                      total_deposited |-> 0, total_normalized |-> 0]
<1>1. /\ UNCHANGED <<adit_vault, outside, fee_mints, withheld>>
      /\ adit' = [b \in DOMAIN adit \cup {a} |-> IF b # a THEN adit[b] ELSE record]
      /\ a \notin DOMAIN adit
  BY DEF RegisterAdit
<1>2. record \in AditRecord /\ record.total_deposited = 0
  BY DEF AditRecord, U64
<1> HIDE DEF record
<1>3. /\ DOMAIN adit' = DOMAIN adit \cup {a} /\ adit'[a] = record
      /\ \A b \in DOMAIN adit : adit'[b] = adit[b]
  BY <1>1
<1>4. TypeOK'
  BY <1>1, <1>2, <1>3 DEF CustodyInv, TypeOK
<1>5. SupplyInv'
  BY <1>1 DEF CustodyInv, SupplyInv, Lost
<1>6. BooksCoveredByCustody'
  <2>1. 0 <= adit_vault[a] + withheld[a]
    BY BalanceTypes DEF CustodyInv
  <2>2. \A b \in DOMAIN adit : adit[b].total_deposited <= adit_vault[b] + withheld[b]
    BY DEF CustodyInv, BooksCoveredByCustody
  <2> QED BY <1>1, <1>2, <1>3, <2>1, <2>2 DEF BooksCoveredByCustody
<1> QED
  BY <1>4, <1>5, <1>6 DEF CustodyInv

(***************************************************************************)
(* A deposit or an accrual books what it asked for; what was not delivered *)
(* is counted as withheld.                                                 *)
(***************************************************************************)
LEMMA ReceiveCustody ==
    ASSUME CustodyAssumption, CustodyInv, NEW a \in Asset, NEW amount \in Nat,
           Receive(a, amount)
    PROVE  CustodyInv'
<1> DEFINE d == Delivered(a, amount)
           vault == adit_vault[a] + d
           out == outside[a] - amount
           lost == withheld[a] + amount - d
           record == [adit[a] EXCEPT !.total_deposited = @ + amount,
                                     !.total_normalized = @ + Normalized(a, amount)]
<1>1. TypeOK /\ SupplyInv /\ BooksCoveredByCustody
  BY DEF CustodyInv
<1>2. /\ a \in DOMAIN adit /\ amount <= outside[a]
      /\ adit[a].total_deposited + amount \in U64
      /\ adit[a].total_normalized + Normalized(a, amount) \in U64
      /\ outside' = [outside EXCEPT ![a] = @ - amount]
      /\ adit_vault' = [adit_vault EXCEPT ![a] = @ + d]
      /\ withheld' = [withheld EXCEPT ![a] = @ + amount - d]
      /\ fee_mints' = fee_mints
      /\ adit' = [adit EXCEPT ![a].total_deposited = @ + amount,
                              ![a].total_normalized = @ + Normalized(a, amount)]
  BY Zenon DEF Receive, RoomForCredit, TransferIn, Fits64
<1>3. adit[a] \in AditRecord /\ adit[a].total_deposited \in Nat
  BY <1>1, <1>2, BalanceTypes DEF TypeOK
<1>4. record \in AditRecord /\ record.total_deposited = adit[a].total_deposited + amount
  <2> DEFINE n == Normalized(a, amount)
  <2> HIDE DEF n
  <2> QED BY <1>2, <1>3 DEF AditRecord, n
<1>5. BooksMove(a, record)
  BY <1>2, <1>3 DEF BooksMove, AditRecord
<1>6. d \in 0..amount
  BY DeliveredBounds
<1>7. /\ adit_vault[a] \in Nat /\ outside[a] \in Nat /\ withheld[a] \in Nat
  BY <1>1, BalanceTypes
<1>8. BalancesMove(a, vault, out, lost)
  BY <1>2, Zenon DEF BalancesMove
<1>9. adit[a].total_deposited <= adit_vault[a] + withheld[a]
  BY <1>1, <1>2 DEF BooksCoveredByCustody
<1>10. adit_vault[a] + outside[a] + withheld[a] <= Supply
  BY <1>1 DEF SupplyInv, Lost
<1>11. Supply \in Nat
  BY DEF CustodyAssumption, U64
<1> HIDE DEF d, record
<1>12. /\ vault \in Nat /\ out \in Nat /\ lost \in Nat
       /\ vault + out + lost <= Supply
       /\ adit[a].total_deposited + amount <= vault + lost
  BY <1>2, <1>3, <1>6, <1>7, <1>9, <1>10, <1>11
<1> HIDE DEF vault, out, lost
<1>13. /\ adit_vault' \in [Asset -> U64] /\ outside' \in [Asset -> U64]
       /\ withheld' \in [Asset -> U64] /\ fee_mints' \subseteq FeeMints
       /\ SupplyInv'
  BY <1>1, <1>8, <1>12, BalancesKeepTypes
<1>14. /\ DOMAIN adit' \subseteq Asset
       /\ \A b \in DOMAIN adit' : adit'[b] \in AditRecord
       /\ BooksCoveredByCustody'
  BY <1>1, <1>2, <1>4, <1>5, <1>8, <1>12, BooksKeepCover
<1> QED
  BY <1>13, <1>14 DEF CustodyInv, TypeOK

(***************************************************************************)
(* A payout takes units that are there; where the books had fewer, their   *)
(* subtraction stops at zero.                                              *)
(***************************************************************************)
LEMMA PayOutCustody ==
    ASSUME CustodyAssumption, CustodyInv, NEW a \in Asset, NEW payout \in Nat,
           PayOut(a, payout)
    PROVE  CustodyInv'
<1> DEFINE d == Delivered(a, payout)
           vault == adit_vault[a] - payout
           out == outside[a] + d
           record == Debited(adit[a], payout)
           booked == SaturatingSub(adit[a].total_deposited, payout)
<1>1. TypeOK /\ SupplyInv /\ BooksCoveredByCustody
  BY DEF CustodyInv
<1>2. /\ a \in DOMAIN adit /\ adit_vault[a] >= payout
      /\ outside' = [outside EXCEPT ![a] = @ + d]
      /\ adit_vault' = [adit_vault EXCEPT ![a] = @ - payout]
      /\ withheld' = withheld /\ fee_mints' = fee_mints
      /\ adit' = [adit EXCEPT ![a] = Debited(@, payout)]
  BY Zenon DEF PayOut
<1>3. adit[a] \in AditRecord /\ adit[a].total_deposited \in U64
  BY <1>1, <1>2 DEF TypeOK, AditRecord
<1>4. adit[a].total_deposited \in Nat
  BY <1>3 DEF U64
<1>5. booked \in U64
  <2> DEFINE t == adit[a].total_deposited
  <2>1. t \in U64
    BY <1>3
  <2> HIDE DEF t
  <2>2. SaturatingSub(t, payout) \in U64
    BY <2>1 DEF SaturatingSub, U64
  <2> QED BY <2>2 DEF t
<1> HIDE DEF booked
<1>6. record \in AditRecord /\ record.total_deposited = booked
  BY <1>3, <1>5 DEF AditRecord, Debited, booked
<1>7. BooksMove(a, record)
  BY <1>2 DEF BooksMove
<1>8. d \in 0..payout
  BY DeliveredBounds
<1>9. /\ adit_vault[a] \in Nat /\ outside[a] \in Nat /\ withheld[a] \in Nat
  BY <1>1, BalanceTypes
<1>10. BalancesMove(a, vault, out, withheld[a])
  <2>1. withheld' = [withheld EXCEPT ![a] = withheld[a]]
    BY <1>1, <1>2 DEF TypeOK
  <2> QED BY <1>2, <2>1, Zenon DEF BalancesMove
<1>11. adit[a].total_deposited <= adit_vault[a] + withheld[a]
  BY <1>1, <1>2 DEF BooksCoveredByCustody
<1>12. adit_vault[a] + outside[a] + withheld[a] <= Supply
  BY <1>1 DEF SupplyInv, Lost
<1>13. Supply \in Nat
  BY DEF CustodyAssumption, U64
<1> HIDE DEF d, record
<1>14. /\ vault \in Nat /\ out \in Nat
       /\ vault + out + withheld[a] <= Supply
  BY <1>2, <1>8, <1>9, <1>12, <1>13
<1>15. booked <= vault + withheld[a]
  BY <1>2, <1>4, <1>9, <1>11 DEF booked, SaturatingSub
<1> HIDE DEF vault, out
<1>16. /\ adit_vault' \in [Asset -> U64] /\ outside' \in [Asset -> U64]
       /\ withheld' \in [Asset -> U64] /\ fee_mints' \subseteq FeeMints
       /\ SupplyInv'
  BY <1>1, <1>9, <1>10, <1>14, BalancesKeepTypes
<1>17. /\ DOMAIN adit' \subseteq Asset
       /\ \A b \in DOMAIN adit' : adit'[b] \in AditRecord
       /\ BooksCoveredByCustody'
  BY <1>1, <1>2, <1>6, <1>7, <1>9, <1>10, <1>14, <1>15, BooksKeepCover
<1> QED
  BY <1>16, <1>17 DEF CustodyInv, TypeOK

LEMMA SendCustody ==
    ASSUME CustodyAssumption, CustodyInv, NEW a \in Asset, NEW amount \in Nat,
           SendDirectly(a, amount)
    PROVE  CustodyInv'
<1> DEFINE d == Delivered(a, amount)
           vault == adit_vault[a] + d
           out == outside[a] - amount
<1>1. TypeOK /\ SupplyInv /\ BooksCoveredByCustody
  BY DEF CustodyInv
<1>2. /\ amount <= outside[a]
      /\ outside' = [outside EXCEPT ![a] = @ - amount]
      /\ adit_vault' = [adit_vault EXCEPT ![a] = @ + d]
      /\ withheld' = withheld /\ fee_mints' = fee_mints /\ adit' = adit
      /\ a \in DOMAIN adit
  BY Zenon DEF SendDirectly, TransferIn
<1>3. d \in 0..amount
  BY DeliveredBounds
<1>4. /\ adit_vault[a] \in Nat /\ outside[a] \in Nat /\ withheld[a] \in Nat
      /\ adit[a].total_deposited \in Nat
  BY <1>1, <1>2, BalanceTypes
<1>5. BalancesMove(a, vault, out, withheld[a])
  <2>1. withheld' = [withheld EXCEPT ![a] = withheld[a]]
    BY <1>1, <1>2 DEF TypeOK
  <2> QED BY <1>2, <2>1, Zenon DEF BalancesMove
<1>6. adit_vault[a] + outside[a] + withheld[a] <= Supply
  BY <1>1 DEF SupplyInv, Lost
<1>7. adit[a].total_deposited <= adit_vault[a] + withheld[a]
  BY <1>1, <1>2 DEF BooksCoveredByCustody
<1>8. Supply \in Nat
  BY DEF CustodyAssumption, U64
<1>9. BooksMove(a, adit[a]) /\ adit[a] \in AditRecord
  BY <1>1, <1>2 DEF BooksMove, TypeOK
<1> HIDE DEF d
<1>10. /\ vault \in Nat /\ out \in Nat
       /\ vault + out + withheld[a] <= Supply
       /\ adit[a].total_deposited <= vault + withheld[a]
  BY <1>2, <1>3, <1>4, <1>6, <1>7, <1>8
<1> HIDE DEF vault, out
<1>11. /\ adit_vault' \in [Asset -> U64] /\ outside' \in [Asset -> U64]
       /\ withheld' \in [Asset -> U64] /\ fee_mints' \subseteq FeeMints
       /\ SupplyInv'
  BY <1>1, <1>4, <1>5, <1>10, BalancesKeepTypes
<1>12. /\ DOMAIN adit' \subseteq Asset
       /\ \A b \in DOMAIN adit' : adit'[b] \in AditRecord
       /\ BooksCoveredByCustody'
  BY <1>1, <1>2, <1>4, <1>5, <1>9, <1>10, BooksKeepCover
<1> QED
  BY <1>11, <1>12 DEF CustodyInv, TypeOK

LEMMA NextCustody == CustodyAssumption /\ CustodyInv /\ [Next]_vars => CustodyInv'
<1> SUFFICES ASSUME CustodyAssumption, CustodyInv, [Next]_vars PROVE CustodyInv'
  OBVIOUS
<1>1. CASE UNCHANGED vars
  BY <1>1 DEF vars, CustodyInv, TypeOK, SupplyInv, Lost, BooksCoveredByCustody
<1>2. ASSUME NEW a \in Asset, NEW c \in Conversions, NEW cap \in DepositCaps,
             RegisterAdit(a, c, cap)
      PROVE  CustodyInv'
  BY <1>2, RegisterCustody
<1>3. ASSUME NEW a \in Asset, NEW amount \in 1..Supply,
             \/ TakeDeposit(a, amount) \/ TakeYield(a, amount)
             \/ PayOut(a, amount) \/ SendDirectly(a, amount)
      PROVE  CustodyInv'
  <2>1. amount \in Nat
    BY DEF CustodyAssumption, U64
  <2>2. CASE TakeDeposit(a, amount) \/ TakeYield(a, amount)
    BY <2>1, <2>2, ReceiveCustody DEF TakeDeposit, TakeYield
  <2>3. CASE PayOut(a, amount)
    BY <2>1, <2>3, PayOutCustody
  <2>4. CASE SendDirectly(a, amount)
    BY <2>1, <2>4, SendCustody
  <2> QED BY <1>3, <2>2, <2>3, <2>4
<1> QED
  BY <1>1, <1>2, <1>3 DEF Next

LEMMA CustodyInvariant == CustodyAssumption /\ Spec => []CustodyInv
<1>1. CustodyAssumption /\ Init => CustodyInv
  BY InitCustody
<1>2. CASE CustodyAssumption
  <2>1. CustodyInv /\ [Next]_vars => CustodyInv'
    BY <1>2, NextCustody
  <2> QED BY <1>1, <1>2, <2>1, PTL DEF Spec
<1> QED
  BY <1>2

(***************************************************************************)
(* Every balance and counter of custody keeps its type.                    *)
(***************************************************************************)
THEOREM CustodyTypeCorrect == CustodyAssumption /\ Spec => []TypeOK
BY CustodyInvariant, PTL DEF CustodyInv

(***************************************************************************)
(* The books never claim units that custody does not hold, whatever is     *)
(* sent to it directly and whatever is paid out, save what mints withheld  *)
(* from the transfers that were booked.                                    *)
(***************************************************************************)
THEOREM CustodyCoversBooks == CustodyAssumption /\ Spec => []BooksCoveredByCustody
BY CustodyInvariant, PTL DEF CustodyInv

LEMMA NextRatiosPinned == TypeOK /\ RatiosPinned /\ [Next]_vars => RatiosPinned'
<1> SUFFICES ASSUME TypeOK, RatiosPinned, [Next]_vars PROVE RatiosPinned'
  OBVIOUS
<1> DEFINE Kept == /\ DOMAIN adit' = DOMAIN adit
                   /\ \A b \in DOMAIN adit : adit'[b].conversion = adit[b].conversion
<1>1. \A b \in DOMAIN adit : adit[b] \in AditRecord
  BY DEF TypeOK
<1>2. Kept => RatiosPinned'
  BY DEF RatiosPinned
<1>3. ASSUME NEW a \in Asset, NEW c \in Conversions, NEW cap \in DepositCaps,
             RegisterAdit(a, c, cap)
      PROVE  RatiosPinned'
  BY <1>3 DEF RegisterAdit, RatiosPinned
<1>4. ASSUME NEW a \in Asset, NEW amount \in 1..Supply,
             \/ TakeDeposit(a, amount) \/ TakeYield(a, amount)
             \/ PayOut(a, amount) \/ SendDirectly(a, amount)
      PROVE  Kept
  <2>1. CASE Receive(a, amount)
    <3>1. adit' = [adit EXCEPT
                ![a].total_deposited = @ + amount,
                ![a].total_normalized = @ + Normalized(a, amount)]
      BY <2>1 DEF Receive
    <3> QED BY <1>1, <3>1 DEF AditRecord
  <2>2. CASE PayOut(a, amount)
    <3>1. adit' = [adit EXCEPT ![a] = Debited(@, amount)]
      BY <2>2 DEF PayOut
    <3> QED BY <1>1, <3>1 DEF AditRecord, Debited
  <2>3. CASE SendDirectly(a, amount)
    BY <2>3 DEF SendDirectly
  <2> QED BY <1>4, <2>1, <2>2, <2>3 DEF TakeDeposit, TakeYield
<1>5. CASE UNCHANGED vars
  BY <1>5 DEF vars, RatiosPinned
<1> QED
  BY <1>2, <1>3, <1>4, <1>5 DEF Next

(***************************************************************************)
(* Of a mint that charges no fee, every booked unit arrived.               *)
(***************************************************************************)
THEOREM OnlyFeesAreWithheld == CustodyAssumption /\ Spec => []FeelessWhole
<1>1. Init => FeelessWhole
  BY DEF Init, FeelessWhole
<1>2. CustodyAssumption /\ FeelessWhole /\ [Next]_vars => FeelessWhole'
  <2> SUFFICES ASSUME CustodyAssumption, FeelessWhole, [Next]_vars PROVE FeelessWhole'
    OBVIOUS
  <2>1. UNCHANGED <<fee_mints, withheld>> => FeelessWhole'
    BY DEF FeelessWhole
  <2>2. ASSUME NEW a \in Asset, NEW amount \in 1..Supply, Receive(a, amount)
        PROVE  FeelessWhole'
    <3>1. /\ fee_mints' = fee_mints /\ amount \in Nat
          /\ withheld' = [withheld EXCEPT ![a] = @ + amount - Delivered(a, amount)]
      BY <2>2, MathAssumption DEF Receive, RoomForCredit, TransferIn, CustodyAssumption, U64
    <3>2. a \notin fee_mints => Delivered(a, amount) = amount
      BY DEF Delivered
    <3>3. ASSUME NEW b \in Asset \ fee_mints PROVE withheld'[b] = 0
      <4>1. withheld[b] = 0
        BY DEF FeelessWhole
      <4> QED BY <3>1, <3>2, <4>1
    <3> QED BY <3>1, <3>3 DEF FeelessWhole
  <2>3. ASSUME NEW a \in Asset, NEW amount \in 1..Supply,
               PayOut(a, amount) \/ SendDirectly(a, amount)
        PROVE  FeelessWhole'
    BY <2>1, <2>3 DEF PayOut, SendDirectly, TransferIn
  <2>4. ASSUME NEW a \in Asset, NEW c \in Conversions, NEW cap \in DepositCaps,
               RegisterAdit(a, c, cap)
        PROVE  FeelessWhole'
    BY <2>1, <2>4 DEF RegisterAdit
  <2>5. UNCHANGED vars => FeelessWhole'
    BY <2>1 DEF vars
  <2> QED
    BY <2>2, <2>3, <2>4, <2>5 DEF Next, TakeDeposit, TakeYield
<1>3. CASE CustodyAssumption
  <2>1. FeelessWhole /\ [Next]_vars => FeelessWhole'
    BY <1>2, <1>3
  <2> QED BY <1>1, <2>1, PTL DEF Spec
<1> QED
  BY <1>3
=============================================================================
