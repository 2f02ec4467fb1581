----------------------------- MODULE MCOrecart ------------------------------
(***************************************************************************)
(* The queue with two kinds of tickets: a small one, and one large enough  *)
(* to make the tickets behind it wait, on which a fee is charged.  Three   *)
(* large ones are more than a lifetime counter of the queue can add up, so *)
(* that of a stope's tickets the last one may be refused for good.  Two    *)
(* owners with two tickets each in two stopes would be eight tickets; at   *)
(* most MaxTickets are issued, in any of the four positions.               *)
(***************************************************************************)
EXTENDS Orecart

CONSTANT MaxTickets     \* bound on the tickets ever issued

MCTicketTerms ==
    {[normalized_amount |-> 1, fee_normalized |-> 0, payout_amount |-> 1],
     [normalized_amount |-> 6, fee_normalized |-> 1, payout_amount |-> 2]}

(***************************************************************************)
(* Bounds of the requests: so many tickets, and the clock can still reach  *)
(* any quoted time.                                                        *)
(***************************************************************************)
MayRequest ==
    /\ Cardinality(DOMAIN ticket) < MaxTickets
    /\ now + max_redemption_delay_sec <= MaxTime

BoundedNext ==
    \/ \E o \in Owner, s \in Stope, terms \in TicketTerms :
            MayRequest /\ Issue(o, s, terms)
    \/ \E a \in DOMAIN ticket : Settle(a)
    \/ Tick

BoundedFairSpec == Init /\ [][BoundedNext]_vars /\ Fairness
=============================================================================
