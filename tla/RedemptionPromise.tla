------------------------- MODULE RedemptionPromise --------------------------
(***************************************************************************)
(* What the redemption queue promises a depositor, without its books: a    *)
(* ticket is a promise of fixed terms, due at a time quoted when it is     *)
(* made, kept once and never before it is due.                             *)
(*                                                                         *)
(* Orecart implements this specification (state/orecart.rs: "Immutable     *)
(* after issue except for its claim fields"; "the wait each depositor was  *)
(* quoted is the wait the chain enforces on them individually").           *)
(***************************************************************************)
EXTENDS Integers

CONSTANTS
    Address,    \* the addresses a ticket can have
    Offers,     \* the terms a ticket can have
    MinWait,    \* shortest and longest wait that may be quoted
    MaxWait

VARIABLES
    clock,
    promised,   \* a function from the addresses in use to [terms, due]
    kept        \* the promises that have been kept

vars == <<clock, promised, kept>>

Init ==
    /\ clock = 0
    /\ promised = <<>>
    /\ kept = {}

Promise(a, terms, due) ==
    /\ a \notin DOMAIN promised
    /\ due \in (clock + MinWait)..(clock + MaxWait)
    /\ promised' = [b \in DOMAIN promised \cup {a} |->
                        IF b = a THEN [terms |-> terms, due |-> due]
                                 ELSE promised[b]]
    /\ UNCHANGED <<clock, kept>>

Keep(a) ==
    /\ a \in DOMAIN promised \ kept
    /\ promised[a].due <= clock
    /\ kept' = kept \cup {a}
    /\ UNCHANGED <<clock, promised>>

Advance ==
    /\ clock' = clock + 1
    /\ UNCHANGED <<promised, kept>>

Next ==
    \/ \E a \in Address, terms \in Offers, wait \in MinWait..MaxWait :
            Promise(a, terms, clock + wait)
    \/ \E a \in Address : Keep(a)
    \/ Advance

Spec == Init /\ [][Next]_vars
=============================================================================
