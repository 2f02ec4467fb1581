------------------------------ MODULE Orecart -------------------------------
(***************************************************************************)
(* The redemption queue (state/orecart.rs): tickets, the aggregate of each *)
(* stope's queue, and the fields of the Miner and Stope accounts that only *)
(* request_redemption and claim_redemption move.  What a ticket is worth   *)
(* is decided elsewhere and arrives here as its terms.                     *)
(*                                                                         *)
(* The clock is the validators' (Clock::get()); it only moves forward.     *)
(***************************************************************************)
EXTENDS LodzMath, FiniteSets, Functions

CONSTANTS
    Owner,                      \* depositors
    Stope,                      \* stopes that are open
    U32Max,                     \* largest u32, the width of ticket_count
    redemption_delay_sec,       \* VaultConfig, fixed by initialize_vault
    max_redemption_delay_sec,
    queue_drain_per_day,
    TicketTerms,                \* terms tickets are issued with when the
                                \* queue runs on its own
    MaxTime                     \* bound on the clock

ASSUME QueueAssumption ==
    /\ U32Max \in 1..U64Max
    /\ redemption_delay_sec \in Nat
    /\ max_redemption_delay_sec \in Nat
    /\ redemption_delay_sec <= max_redemption_delay_sec
    /\ max_redemption_delay_sec <= I64Max
    /\ queue_drain_per_day \in Nat \ {0}
    /\ \A t \in TicketTerms :
            /\ t.normalized_amount \in U64 /\ t.fee_normalized \in U64
            /\ t.payout_amount \in U64
    /\ MaxTime \in Nat

VARIABLES
    now,
    ticket,     \* a function from the ticket addresses in use to tickets
    queue,      \* [Stope -> OrecartQueue account]
    position,   \* [Stope -> [Owner -> queue fields of the Miner account]]
    reserve     \* [Stope -> queue fields of the Stope account]

vars == <<now, ticket, queue, position, reserve>>

\* Mutant: a seed without the stope, as in the first deployment.
TicketAddressByOwner(o, s, index) == <<o, index>>

TicketAddress(o, s, index) == <<o, s, index>>

Address == {TicketAddress(o, s, i) : o \in Owner, s \in Stope, i \in 0..U32Max}

EmptyQueue ==
    [head |-> 0, tail |-> 0, pending_tickets |-> 0,
     total_pending |-> 0, total_claimed |-> 0, total_fees |-> 0]

Init ==
    /\ now = 0
    /\ ticket = <<>>
    /\ queue = [s \in Stope |-> EmptyQueue]
    /\ position = [s \in Stope |-> [o \in Owner |->
            [ticket_count |-> 0, pending_redemption |-> 0, withdrawn |-> 0]]]
    /\ reserve = [s \in Stope |->
            [pending_redemption |-> 0, total_redeemed |-> 0]]

(***************************************************************************)
(* The wait of a ticket issued behind pendingAhead units of backlog.       *)
(***************************************************************************)
Congestion(pendingAhead) == QueueDelaySec(pendingAhead, queue_drain_per_day)

TotalDelay(pendingAhead) ==
    AtMost(redemption_delay_sec + Congestion(pendingAhead),
           max_redemption_delay_sec)

DelayFits(pendingAhead) ==
    /\ FitsI64(redemption_delay_sec + Congestion(pendingAhead))
    /\ FitsI64(now + TotalDelay(pendingAhead))

\* Mutant: one ticket too many.
RoomForTicketOffByOne(o, s) == position[s][o].ticket_count <= U32Max

RoomForTicket(o, s) == position[s][o].ticket_count + 1 <= U32Max

\* Mutants: the backlog forgotten; the tail taken from what is pending.
EnqueuedWithoutBacklog(q, normalized) ==
    [q EXCEPT !.tail = @ + 1, !.pending_tickets = @ + 1]

EnqueuedAfterPending(q, normalized) ==
    [q EXCEPT !.tail = q.pending_tickets + 1,
              !.pending_tickets = @ + 1,
              !.total_pending = @ + normalized]

Enqueued(q, normalized) ==
    [q EXCEPT !.tail = @ + 1,
              !.pending_tickets = @ + 1,
              !.total_pending = @ + normalized]

\* The three checked additions of a ticket's value to what is pending.
BacklogFits(o, s, normalized) ==
    /\ Fits64(position[s][o].pending_redemption + normalized)
    /\ Fits64(reserve[s].pending_redemption + normalized)
    /\ Fits64(queue[s].total_pending + normalized)

(***************************************************************************)
(* request_redemption, from the wait onwards.  The client must name the    *)
(* next index of the position, and init fails on an address in use.        *)
(***************************************************************************)
Issue(o, s, terms) ==
    LET a          == TicketAddress(o, s, position[s][o].ticket_count)
        normalized == terms.normalized_amount
    IN  /\ a \notin DOMAIN ticket
        /\ DelayFits(queue[s].total_pending)
        /\ BacklogFits(o, s, normalized)
        /\ RoomForTicket(o, s)
        /\ Fits64(queue[s].tail + 1)
        /\ Fits64(queue[s].pending_tickets + 1)
        /\ position' = [position EXCEPT ![s][o].ticket_count = @ + 1,
                                        ![s][o].pending_redemption = @ + normalized]
        /\ reserve' = [reserve EXCEPT ![s].pending_redemption = @ + normalized]
        /\ queue' = [queue EXCEPT ![s] = Enqueued(@, normalized)]
        /\ ticket' = [b \in DOMAIN ticket \cup {a} |->
                IF b # a THEN ticket[b] ELSE
                [owner          |-> o,
                 stope_id       |-> s,
                 terms          |-> terms,
                 status         |-> "Queued",
                 queue_position |-> queue[s].tail,
                 requested_at   |-> now,
                 claimable_at   |-> now + TotalDelay(queue[s].total_pending),
                 claimed_at     |-> 0]]
        /\ UNCHANGED now

\* Mutants: the delay not checked; the comparison the wrong way round.
IsClaimableEarly(t, time) == t.status = "Queued"

IsClaimableUntil(t, time) == t.status = "Queued" /\ time <= t.claimable_at

\* Orecart::is_claimable_at, and claim_redemption's first two guards.
IsClaimableAt(t, time) == t.status = "Queued" /\ time >= t.claimable_at

\* Mutant: the backlog of a paid ticket stays.
DequeuedWithBacklog(q, normalized, fee) ==
    [q EXCEPT !.head = @ + 1,
              !.pending_tickets = SaturatingSub(@, 1),
              !.total_claimed = @ + normalized,
              !.total_fees = @ + fee]

Dequeued(q, normalized, fee) ==
    [q EXCEPT !.head = @ + 1,
              !.pending_tickets = SaturatingSub(@, 1),
              !.total_pending = SaturatingSub(@, normalized),
              !.total_claimed = @ + normalized,
              !.total_fees = @ + fee]

\* The five checked additions of a claim, to counters that never go down.
LifetimeCountersFit(t) ==
    LET normalized == t.terms.normalized_amount
    IN  /\ Fits64(position[t.stope_id][t.owner].withdrawn + normalized)
        /\ Fits64(reserve[t.stope_id].total_redeemed + normalized)
        /\ Fits64(queue[t.stope_id].head + 1)
        /\ Fits64(queue[t.stope_id].total_claimed + normalized)
        /\ Fits64(queue[t.stope_id].total_fees + t.terms.fee_normalized)

(***************************************************************************)
(* claim_redemption, without the transfer.                                 *)
(***************************************************************************)
Settle(a) ==
    LET t          == ticket[a]
        o          == t.owner
        s          == t.stope_id
        normalized == t.terms.normalized_amount
        fee        == t.terms.fee_normalized
    IN  /\ IsClaimableAt(t, now)
        /\ t.terms.payout_amount > 0
        /\ LifetimeCountersFit(t)
        /\ ticket' = [ticket EXCEPT ![a].status = "Claimed",
                                    ![a].claimed_at = now]
        /\ position' = [position EXCEPT
                ![s][o].pending_redemption = SaturatingSub(@, normalized),
                ![s][o].withdrawn = @ + normalized]
        /\ reserve' = [reserve EXCEPT
                ![s].pending_redemption = SaturatingSub(@, normalized),
                ![s].total_redeemed = @ + normalized]
        /\ queue' = [queue EXCEPT ![s] = Dequeued(@, normalized, fee)]
        /\ UNCHANGED now

Tick ==
    /\ now < MaxTime
    /\ now' = now + 1
    /\ UNCHANGED <<ticket, queue, position, reserve>>

(***************************************************************************)
(* The queue on its own.  What the terms of a ticket are is decided by the *)
(* pool, so any terms may be asked for here.                               *)
(***************************************************************************)
Next ==
    \/ \E o \in Owner, s \in Stope, terms \in TicketTerms : Issue(o, s, terms)
    \/ \E a \in DOMAIN ticket : Settle(a)
    \/ Tick

Spec == Init /\ [][Next]_vars

(***************************************************************************)
(* The clock keeps running, and an owner whose ticket can be claimed does  *)
(* claim it in the end.  Nobody has to request a redemption.               *)
(***************************************************************************)
SettleAt(a) == a \in DOMAIN ticket /\ Settle(a)

Fairness == WF_vars(Tick) /\ \A a \in Address : WF_vars(SettleAt(a))

-----------------------------------------------------------------------------
TicketRecord ==
    [owner : Owner, stope_id : Stope, terms : TicketTerms,
     status : {"Queued", "Claimed"}, queue_position : U64,
     requested_at : 0..MaxTime, claimable_at : 0..I64Max,
     claimed_at : 0..MaxTime]

(***************************************************************************)
(* Types of the queue's state.                                             *)
(***************************************************************************)
TypeOK ==
    /\ now \in 0..MaxTime
    /\ DOMAIN ticket \subseteq Address
    /\ \A a \in DOMAIN ticket : ticket[a] \in TicketRecord
    /\ queue \in [Stope ->
            [head : U64, tail : U64, pending_tickets : U64,
             total_pending : U64, total_claimed : U64, total_fees : U64]]
    /\ position \in [Stope -> [Owner ->
            [ticket_count : 0..U32Max, pending_redemption : U64, withdrawn : U64]]]
    /\ reserve \in [Stope -> [pending_redemption : U64, total_redeemed : U64]]

TicketsIn(s)  == {a \in DOMAIN ticket : ticket[a].stope_id = s}
QueuedIn(s)   == {a \in TicketsIn(s) : ticket[a].status = "Queued"}
ClaimedIn(s)  == {a \in TicketsIn(s) : ticket[a].status = "Claimed"}
OwnedBy(o)    == {a \in DOMAIN ticket : ticket[a].owner = o}

Normalized(A) ==
    SumFunctionOnSet([a \in A |-> ticket[a].terms.normalized_amount], A)
Fees(A) ==
    SumFunctionOnSet([a \in A |-> ticket[a].terms.fee_normalized], A)

(***************************************************************************)
(* Five accounts record the same tickets: every running total of the       *)
(* queue, of the stope and of the positions is the sum over the tickets it *)
(* stands for, so no saturating_sub on the claim path ever saturates.      *)
(***************************************************************************)
BooksMatchTickets ==
    \A s \in Stope :
        /\ queue[s].tail = Cardinality(TicketsIn(s))
        /\ queue[s].head = Cardinality(ClaimedIn(s))
        /\ queue[s].pending_tickets = queue[s].tail - queue[s].head
        /\ queue[s].total_pending = Normalized(QueuedIn(s))
        /\ queue[s].total_claimed = Normalized(ClaimedIn(s))
        /\ queue[s].total_fees = Fees(ClaimedIn(s))
        /\ reserve[s].pending_redemption = Normalized(QueuedIn(s))
        /\ reserve[s].total_redeemed = Normalized(ClaimedIn(s))
        /\ \A o \in Owner :
            /\ position[s][o].pending_redemption
                    = Normalized(QueuedIn(s) \cap OwnedBy(o))
            /\ position[s][o].withdrawn
                    = Normalized(ClaimedIn(s) \cap OwnedBy(o))

(***************************************************************************)
(* The address of a position's next ticket is never in use, whatever the   *)
(* owner did in other stopes: the lockup that ORECART_SEED describes.      *)
(***************************************************************************)
NextTicketAddressFree ==
    \A s \in Stope, o \in Owner :
        TicketAddress(o, s, position[s][o].ticket_count) \notin DOMAIN ticket

(***************************************************************************)
(* A ticket waited at least for the backlog in front of it.  Tickets that  *)
(* precede it in its stope and are still queued were all there when it was *)
(* issued; the wait it was quoted covers them, up to the ceiling.          *)
(***************************************************************************)
Ahead(a) ==
    {b \in QueuedIn(ticket[a].stope_id) :
        ticket[b].queue_position < ticket[a].queue_position}

WaitCoversBacklog ==
    \A a \in DOMAIN ticket :
        ticket[a].claimable_at - ticket[a].requested_at
            >= TotalDelay(Normalized(Ahead(a)))

(***************************************************************************)
(* Issue order: a stope numbers its tickets without gap or repetition, and *)
(* later numbers were requested no earlier.                                *)
(***************************************************************************)
PositionsFollowIssueOrder ==
    \A s \in Stope :
        /\ {ticket[a].queue_position : a \in TicketsIn(s)}
               = 0..(queue[s].tail - 1)
        /\ \A a, b \in TicketsIn(s) :
            ticket[a].queue_position < ticket[b].queue_position =>
                ticket[a].requested_at <= ticket[b].requested_at

(***************************************************************************)
(* The queue implements the promise made to depositors.                    *)
(***************************************************************************)
Promised == [a \in DOMAIN ticket |-> [terms |-> ticket[a].terms,
                                      due   |-> ticket[a].claimable_at]]
Kept == {a \in DOMAIN ticket : ticket[a].status = "Claimed"}

Contract == INSTANCE RedemptionPromise WITH
    Offers   <- TicketTerms,
    MinWait  <- redemption_delay_sec,
    MaxWait  <- max_redemption_delay_sec,
    clock    <- now,
    promised <- Promised,
    kept     <- Kept

ImplementsPromise == Contract!Spec

(***************************************************************************)
(* And it keeps its promises in the end.  One thing only can strand a      *)
(* ticket here, and it does so for good: a lifetime counter that its claim *)
(* would take past its width (redemption.rs:462-489).  Counters only grow, *)
(* so nothing that anybody does mends that, and nothing else that an owner *)
(* or the other depositors do leaves a ticket that can never be claimed.   *)
(***************************************************************************)
EveryTicketClaimed ==
    \A a \in Address :
        (a \in DOMAIN ticket)
            ~> (a \in DOMAIN ticket
                    /\ (ticket[a].status = "Queued" => ~ LifetimeCountersFit(ticket[a])))

-----------------------------------------------------------------------------
(***************************************************************************)
(* What request_redemption and claim_redemption do to the tickets.         *)
(***************************************************************************)
QueueRecord ==
    [head : U64, tail : U64, pending_tickets : U64,
     total_pending : U64, total_claimed : U64, total_fees : U64]

IssuedTicket(o, s, terms) ==
    [owner          |-> o,
     stope_id       |-> s,
     terms          |-> terms,
     status         |-> "Queued",
     queue_position |-> queue[s].tail,
     requested_at   |-> now,
     claimable_at   |-> now + TotalDelay(queue[s].total_pending),
     claimed_at     |-> 0]

Issued(o, s, terms) ==
    LET a == TicketAddress(o, s, position[s][o].ticket_count)
    IN  /\ a \notin DOMAIN ticket
        /\ DOMAIN ticket' = DOMAIN ticket \cup {a}
        /\ \A b \in DOMAIN ticket : ticket'[b] = ticket[b]
        /\ ticket'[a] = IssuedTicket(o, s, terms)

Claimed(a) ==
    /\ a \in DOMAIN ticket
    /\ DOMAIN ticket' = DOMAIN ticket
    /\ \A b \in DOMAIN ticket : b # a => ticket'[b] = ticket[b]
    /\ ticket[a].status = "Queued" /\ now >= ticket[a].claimable_at
    /\ ticket'[a] = [ticket[a] EXCEPT !.status = "Claimed", !.claimed_at = now]
=============================================================================
