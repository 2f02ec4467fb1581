---------------------------- MODULE VaultLedger -----------------------------
(***************************************************************************)
(* What the program promises about value, however many accounts record it: *)
(* value credited for a deposit or a yield backs shares until it is asked  *)
(* for, is then owed to a ticket, and is settled when the ticket is        *)
(* claimed.  It never goes back, never skips a stage and never disappears. *)
(***************************************************************************)
EXTENDS LodzMath

VARIABLES
    credited,   \* all that was ever credited
    backing,    \* behind outstanding shares
    owed,       \* to queued tickets
    settled     \* by claims

vars == <<credited, backing, owed, settled>>

Init == credited = 0 /\ backing = 0 /\ owed = 0 /\ settled = 0

Credit(n) ==
    /\ credited' = credited + n
    /\ backing' = backing + n
    /\ UNCHANGED <<owed, settled>>

Ask(n) ==
    /\ n <= backing
    /\ backing' = backing - n
    /\ owed' = owed + n
    /\ UNCHANGED <<credited, settled>>

Settle(n) ==
    /\ n <= owed
    /\ owed' = owed - n
    /\ settled' = settled + n
    /\ UNCHANGED <<credited, backing>>

Next == \E n \in U64 : Credit(n) \/ Ask(n) \/ Settle(n)

Spec == Init /\ [][Next]_vars

-----------------------------------------------------------------------------
TypeOK == credited \in Nat /\ backing \in Nat /\ owed \in Nat /\ settled \in Nat

(***************************************************************************)
(* Nothing credited is lost track of.                                      *)
(***************************************************************************)
Conserved == credited = backing + owed + settled
=============================================================================
