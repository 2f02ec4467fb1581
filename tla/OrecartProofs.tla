--------------------------- MODULE OrecartProofs ----------------------------
(***************************************************************************)
(* Theorems about Orecart, for any owners and stopes, any schedule of the  *)
(* three delays and any widths.                                            *)
(***************************************************************************)
EXTENDS Orecart, LodzMathProofs

USE MathAssumption, QueueAssumption

PositionRecord ==
    [ticket_count : 0..U32Max, pending_redemption : U64, withdrawn : U64]
ReserveRecord == [pending_redemption : U64, total_redeemed : U64]

LEMMA SmallerIsU64 ==
    ASSUME NEW a \in U64, NEW b \in U64
    PROVE  SaturatingSub(a, b) \in U64
BY DEF SaturatingSub, U64

(***************************************************************************)
(* The wait lies between the base delay and the ceiling.                   *)
(***************************************************************************)
LEMMA WaitBounds ==
    ASSUME NEW pending \in U64
    PROVE  TotalDelay(pending) \in redemption_delay_sec..max_redemption_delay_sec
<1>1. pending * SECONDS_PER_DAY \in Nat
  BY SMT DEF U64
<1>2. Congestion(pending) \in Nat
  BY <1>1, DivBounds DEF Congestion, QueueDelaySec
<1> QED
  BY <1>2 DEF TotalDelay, AtMost

(***************************************************************************)
(* What each step does to the tickets and to the accounts.                 *)
(***************************************************************************)

LEMMA IssueTypes ==
    ASSUME TypeOK, NEW o \in Owner, NEW s \in Stope, NEW terms \in TicketTerms,
           Issue(o, s, terms)
    PROVE  /\ TicketAddress(o, s, position[s][o].ticket_count) \in Address
           /\ IssuedTicket(o, s, terms) \in TicketRecord
<1>1. position[s][o].ticket_count \in 0..U32Max /\ queue[s] \in QueueRecord
  <2>1. position[s][o] \in PositionRecord
    BY DEF TypeOK, PositionRecord
  <2> QED BY <2>1 DEF TypeOK, QueueRecord, PositionRecord
<1>2. queue[s].tail \in U64 /\ queue[s].total_pending \in U64
  BY <1>1 DEF QueueRecord
<1>3. now + TotalDelay(queue[s].total_pending) \in 0..I64Max
  <2> DEFINE d == TotalDelay(queue[s].total_pending)
  <2>1. d \in redemption_delay_sec..max_redemption_delay_sec
    BY <1>2, WaitBounds
  <2>2. now + d <= I64Max
    BY DEF Issue, DelayFits, FitsI64
  <2>3. now \in Nat
    BY DEF TypeOK
  <2> HIDE DEF d
  <2>4. I64Max \in Nat
    BY SMT DEF I64Max
  <2>5. now + d \in 0..I64Max
    BY <2>1, <2>2, <2>3, <2>4
  <2> QED BY <2>5 DEF d
<1>4. now \in 0..MaxTime /\ 0 \in 0..MaxTime
  BY DEF TypeOK
<1>5. TicketAddress(o, s, position[s][o].ticket_count) \in Address
  BY <1>1 DEF Address
<1> QED
  BY <1>2, <1>3, <1>4, <1>5 DEF IssuedTicket, TicketRecord

LEMMA IssueEffect ==
    ASSUME NEW o \in Owner, NEW s \in Stope, NEW terms \in TicketTerms,
           Issue(o, s, terms)
    PROVE  Issued(o, s, terms)
<1> DEFINE a == TicketAddress(o, s, position[s][o].ticket_count)
           t == IssuedTicket(o, s, terms)
<1>1. /\ a \notin DOMAIN ticket
      /\ ticket' = [b \in DOMAIN ticket \cup {a} |->
                        IF b # a THEN ticket[b] ELSE t]
  BY DEF Issue, IssuedTicket
<1> HIDE DEF a, t
<1> QED
  BY <1>1 DEF Issued, a, t

(***************************************************************************)
(* Types.                                                                  *)
(***************************************************************************)
LEMMA InitTypeOK == Init => TypeOK
<1> SUFFICES ASSUME Init PROVE TypeOK
  OBVIOUS
<1>1. 0 \in U64 /\ 0 \in 0..U32Max /\ 0 \in 0..MaxTime
  BY DEF U64
<1>2. DOMAIN ticket = {}
  BY DEF Init
<1>3. queue \in [Stope -> QueueRecord]
  BY <1>1 DEF Init, EmptyQueue, QueueRecord
<1>4. position \in [Stope -> [Owner -> PositionRecord]]
  BY <1>1 DEF Init, PositionRecord
<1>5. reserve \in [Stope -> ReserveRecord]
  BY <1>1 DEF Init, ReserveRecord
<1> QED
  BY <1>1, <1>2, <1>3, <1>4, <1>5
     DEF Init, TypeOK, QueueRecord, PositionRecord, ReserveRecord

LEMMA IssueTypeOK ==
    ASSUME TypeOK, NEW o \in Owner, NEW s \in Stope, NEW terms \in TicketTerms,
           Issue(o, s, terms)
    PROVE  TypeOK'
<1> DEFINE normalized == terms.normalized_amount
<1>1. /\ queue \in [Stope -> QueueRecord] /\ reserve \in [Stope -> ReserveRecord]
      /\ position \in [Stope -> [Owner -> PositionRecord]]
  BY DEF TypeOK, QueueRecord, PositionRecord, ReserveRecord
<1>2. /\ DOMAIN ticket' \subseteq Address
      /\ \A a \in DOMAIN ticket' : ticket'[a] \in TicketRecord
  <2> DEFINE a == TicketAddress(o, s, position[s][o].ticket_count)
  <2>1. /\ DOMAIN ticket' = DOMAIN ticket \cup {a}
        /\ \A b \in DOMAIN ticket : ticket'[b] = ticket[b]
        /\ ticket'[a] = IssuedTicket(o, s, terms)
    BY IssueEffect DEF Issued
  <2>2. a \in Address /\ IssuedTicket(o, s, terms) \in TicketRecord
    BY IssueTypes
  <2>3. /\ DOMAIN ticket \subseteq Address
        /\ \A b \in DOMAIN ticket : ticket[b] \in TicketRecord
    BY DEF TypeOK
  <2> HIDE DEF a
  <2> QED BY <2>1, <2>2, <2>3
<1>3. /\ position[s][o].pending_redemption + normalized \in U64
      /\ position[s][o].ticket_count + 1 <= U32Max
      /\ reserve[s].pending_redemption + normalized \in U64
      /\ queue[s].tail + 1 \in U64
      /\ queue[s].pending_tickets + 1 \in U64
      /\ queue[s].total_pending + normalized \in U64
  BY DEF Issue, BacklogFits, RoomForTicket, Fits64
<1>4. /\ now' = now
      /\ position' = [position EXCEPT ![s][o].ticket_count = @ + 1,
                                ![s][o].pending_redemption = @ + normalized]
      /\ reserve' = [reserve EXCEPT ![s].pending_redemption = @ + normalized]
      /\ queue' = [queue EXCEPT ![s] = Enqueued(@, normalized)]
  BY DEF Issue
<1> HIDE DEF normalized
<1>5. queue' \in [Stope -> QueueRecord]
  <2>1. queue[s] \in QueueRecord
    BY <1>1
  <2>2. Enqueued(queue[s], normalized) \in QueueRecord
    BY <1>3, <2>1 DEF Enqueued, QueueRecord
  <2> QED BY <1>1, <1>4, <2>2
<1>6. reserve' \in [Stope -> ReserveRecord]
  BY <1>1, <1>3, <1>4 DEF ReserveRecord
<1>7. position' \in [Stope -> [Owner -> PositionRecord]]
  <2>1. position[s][o] \in PositionRecord
    BY <1>1
  <2>2. position[s][o].ticket_count + 1 \in 0..U32Max
    BY <1>3, <2>1 DEF PositionRecord
  <2>3. [position[s][o] EXCEPT !.ticket_count = @ + 1,
                !.pending_redemption = @ + normalized] \in PositionRecord
    BY <1>3, <2>1, <2>2 DEF PositionRecord
  <2>4. position' = [position EXCEPT ![s] = [position[s] EXCEPT ![o] =
            [position[s][o] EXCEPT !.ticket_count = @ + 1,
                                   !.pending_redemption = @ + normalized]]]
    BY <1>1, <1>4, ZenonT(60) DEF PositionRecord
  <2> QED BY <1>1, <2>3, <2>4
<1> QED
  BY <1>2, <1>4, <1>5, <1>6, <1>7
     DEF TypeOK, QueueRecord, PositionRecord, ReserveRecord

LEMMA SettleEffect ==
    ASSUME TypeOK, NEW a \in DOMAIN ticket, Settle(a)
    PROVE  Claimed(a)
<1>1. ticket' = [ticket EXCEPT ![a].status = "Claimed", ![a].claimed_at = now]
  BY Zenon DEF Settle
<1>2. ticket[a].status = "Queued" /\ now >= ticket[a].claimable_at
  BY Zenon DEF Settle, IsClaimableAt
<1>3. ticket[a] \in TicketRecord
  BY DEF TypeOK
<1>4. ticket'[a] = [ticket[a] EXCEPT !.status = "Claimed", !.claimed_at = now]
  BY <1>1, <1>3 DEF TicketRecord
<1>5. /\ DOMAIN ticket' = DOMAIN ticket
      /\ \A b \in DOMAIN ticket : b # a => ticket'[b] = ticket[b]
  BY <1>1
<1> QED
  BY <1>2, <1>4, <1>5 DEF Claimed

LEMMA SettleTypeOK ==
    ASSUME TypeOK, NEW a \in DOMAIN ticket, Settle(a)
    PROVE  TypeOK'
<1> DEFINE o == ticket[a].owner
           s == ticket[a].stope_id
           normalized == ticket[a].terms.normalized_amount
           fee == ticket[a].terms.fee_normalized
<1>1. /\ queue \in [Stope -> QueueRecord] /\ reserve \in [Stope -> ReserveRecord]
      /\ position \in [Stope -> [Owner -> PositionRecord]]
  BY DEF TypeOK, QueueRecord, PositionRecord, ReserveRecord
<1>2. /\ o \in Owner /\ s \in Stope /\ normalized \in U64
  <2>1. ticket[a] \in TicketRecord
    BY DEF TypeOK
  <2> QED BY <2>1 DEF TicketRecord
<1>3. /\ position[s][o].withdrawn + normalized \in U64
      /\ reserve[s].total_redeemed + normalized \in U64
      /\ queue[s].head + 1 \in U64
      /\ queue[s].total_claimed + normalized \in U64
      /\ queue[s].total_fees + fee \in U64
  BY Zenon DEF Settle, LifetimeCountersFit, Fits64
<1>4. /\ now' = now
      /\ position' = [position EXCEPT
                ![s][o].pending_redemption = SaturatingSub(@, normalized),
                ![s][o].withdrawn = @ + normalized]
      /\ reserve' = [reserve EXCEPT
                ![s].pending_redemption = SaturatingSub(@, normalized),
                ![s].total_redeemed = @ + normalized]
      /\ queue' = [queue EXCEPT ![s] = Dequeued(@, normalized, fee)]
  BY Zenon DEF Settle
<1>5. /\ DOMAIN ticket' \subseteq Address
      /\ \A b \in DOMAIN ticket' : ticket'[b] \in TicketRecord
  <2>1. Claimed(a)
    BY SettleEffect
  <2>2. ticket[a] \in TicketRecord /\ now \in 0..MaxTime
    BY DEF TypeOK
  <2>3. [ticket[a] EXCEPT !.status = "Claimed", !.claimed_at = now] \in TicketRecord
    BY <2>2 DEF TicketRecord
  <2> QED BY <2>1, <2>3 DEF Claimed, TypeOK
<1> HIDE DEF o, s, normalized, fee
<1>6. queue' \in [Stope -> QueueRecord]
  <2>1. queue[s] \in QueueRecord
    BY <1>1, <1>2
  <2>2. 1 \in U64
    BY DEF U64
  <2>3. /\ SaturatingSub(queue[s].pending_tickets, 1) \in U64
        /\ SaturatingSub(queue[s].total_pending, normalized) \in U64
    BY <1>2, <2>1, <2>2, SmallerIsU64 DEF QueueRecord
  <2>4. Dequeued(queue[s], normalized, fee) \in QueueRecord
    BY <1>3, <2>1, <2>3 DEF Dequeued, QueueRecord
  <2> QED BY <1>1, <1>2, <1>4, <2>4
<1>7. reserve' \in [Stope -> ReserveRecord]
  <2>1. reserve[s] \in ReserveRecord
    BY <1>1, <1>2
  <2>2. SaturatingSub(reserve[s].pending_redemption, normalized) \in U64
    BY <1>2, <2>1, SmallerIsU64 DEF ReserveRecord
  <2> QED BY <1>1, <1>2, <1>3, <1>4, <2>2, ZenonT(60) DEF ReserveRecord
<1>8. position' \in [Stope -> [Owner -> PositionRecord]]
  <2>1. position[s][o] \in PositionRecord
    BY <1>1, <1>2
  <2>2. SaturatingSub(position[s][o].pending_redemption, normalized) \in U64
    BY <1>2, <2>1, SmallerIsU64 DEF PositionRecord
  <2>3. [position[s][o] EXCEPT
                !.pending_redemption = SaturatingSub(@, normalized),
                !.withdrawn = @ + normalized] \in PositionRecord
    BY <1>3, <2>1, <2>2 DEF PositionRecord
  <2>4. position' = [position EXCEPT ![s] = [position[s] EXCEPT ![o] =
            [position[s][o] EXCEPT
                !.pending_redemption = SaturatingSub(@, normalized),
                !.withdrawn = @ + normalized]]]
    BY <1>1, <1>2, <1>4 DEF PositionRecord
  <2> QED BY <1>1, <1>2, <2>3, <2>4
<1> QED
  BY <1>4, <1>5, <1>6, <1>7, <1>8
     DEF TypeOK, QueueRecord, PositionRecord, ReserveRecord

LEMMA NextTypeOK == TypeOK /\ [Next]_vars => TypeOK'
<1> SUFFICES ASSUME TypeOK, [Next]_vars PROVE TypeOK'
  OBVIOUS
<1>1. CASE UNCHANGED vars
  BY <1>1 DEF TypeOK, vars
<1>2. ASSUME NEW o \in Owner, NEW s \in Stope, NEW terms \in TicketTerms,
             Issue(o, s, terms)
      PROVE  TypeOK'
  BY <1>2, IssueTypeOK
<1>3. ASSUME NEW a \in DOMAIN ticket, Settle(a) PROVE TypeOK'
  BY <1>3, SettleTypeOK
<1>4. CASE Tick
  <2>1. now' \in 0..MaxTime
    BY <1>4 DEF Tick, TypeOK
  <2> QED BY <1>4, <2>1 DEF Tick, TypeOK
<1> QED
  BY <1>1, <1>2, <1>3, <1>4 DEF Next

(***************************************************************************)
(* Every field of the tickets and of the accounts keeps its type.          *)
(***************************************************************************)
THEOREM QueueTypeCorrect == Spec => []TypeOK
BY InitTypeOK, NextTypeOK, PTL DEF Spec

-----------------------------------------------------------------------------
(***************************************************************************)
(* The queue implements the promise: issuing a ticket makes one, due       *)
(* within the quoted bounds, and settling a ticket keeps it, once and not  *)
(* early.                                                                  *)
(***************************************************************************)
LEMMA InitPromises == Init => Contract!Init
<1> SUFFICES ASSUME Init PROVE Contract!Init
  OBVIOUS
<1>1. DOMAIN ticket = {} /\ ticket = <<>> /\ now = 0
  BY DEF Init
<1>2. Kept = {}
  BY <1>1 DEF Kept
<1>3. Promised = <<>>
  BY <1>1 DEF Promised
<1> QED
  BY <1>1, <1>2, <1>3 DEF Contract!Init

LEMMA IssuePromises ==
    ASSUME TypeOK, NEW o \in Owner, NEW s \in Stope, NEW terms \in TicketTerms,
           Issue(o, s, terms)
    PROVE  Contract!Next
<1> DEFINE a == TicketAddress(o, s, position[s][o].ticket_count)
           t == IssuedTicket(o, s, terms)
           wait == TotalDelay(queue[s].total_pending)
           new == [terms |-> terms, due |-> now + wait]
<1>1. /\ a \notin DOMAIN ticket
      /\ DOMAIN ticket' = DOMAIN ticket \cup {a}
      /\ \A b \in DOMAIN ticket : ticket'[b] = ticket[b]
      /\ ticket'[a] = t
  BY IssueEffect DEF Issued
<1>2. a \in Address
  BY IssueTypes
<1>3. wait \in redemption_delay_sec..max_redemption_delay_sec
  <2>1. queue[s].total_pending \in U64
    BY DEF TypeOK
  <2> QED BY <2>1, WaitBounds
<1>4. t.terms = terms /\ t.claimable_at = now + wait /\ t.status = "Queued"
  BY DEF IssuedTicket
<1>5. now' = now
  BY DEF Issue
<1>6. now \in Nat
  BY DEF TypeOK
<1> HIDE DEF a, t, wait, new
<1>7. Kept' = Kept
  BY <1>1, <1>4 DEF Kept
<1>8. Promised' = [b \in DOMAIN Promised \cup {a} |->
                        IF b = a THEN new ELSE Promised[b]]
  BY <1>1, <1>4, Zenon DEF Promised, new
<1>9. DOMAIN Promised = DOMAIN ticket
  BY DEF Promised
<1>10. now + wait \in (now + redemption_delay_sec)..(now + max_redemption_delay_sec)
  BY <1>3, <1>6
<1>11. Contract!Promise(a, terms, now + wait)
  BY <1>1, <1>5, <1>7, <1>8, <1>9, <1>10 DEF Contract!Promise, new
<1> QED
  BY <1>2, <1>3, <1>11 DEF Contract!Next

LEMMA SettleKeeps ==
    ASSUME TypeOK, NEW a \in DOMAIN ticket, Settle(a)
    PROVE  Contract!Next
<1>1. Claimed(a)
  BY SettleEffect
<1>2. ticket[a] \in TicketRecord /\ a \in Address
  BY DEF TypeOK
<1>3. /\ ticket'[a].terms = ticket[a].terms
      /\ ticket'[a].claimable_at = ticket[a].claimable_at
      /\ ticket'[a].status = "Claimed"
  BY <1>1, <1>2 DEF Claimed, TicketRecord
<1>4. /\ \A b \in DOMAIN ticket : ticket'[b].terms = ticket[b].terms
                    /\ ticket'[b].claimable_at = ticket[b].claimable_at
      /\ \A b \in DOMAIN ticket : b # a => ticket'[b].status = ticket[b].status
      /\ DOMAIN ticket' = DOMAIN ticket
  BY <1>1, <1>3 DEF Claimed
<1>5. Promised' = Promised
  BY <1>4 DEF Promised
<1>6. Kept' = Kept \cup {a} /\ a \notin Kept
  <2>1. ticket[a].status = "Queued"
    BY <1>1 DEF Claimed
  <2>2. a \notin Kept
    BY <2>1 DEF Kept
  <2>3. \A b \in DOMAIN ticket :
            ticket'[b].status = "Claimed" <=> (b = a \/ ticket[b].status = "Claimed")
    BY <1>3, <1>4
  <2>4. Kept' = Kept \cup {a}
    BY <1>4, <2>3 DEF Kept
  <2> QED BY <2>2, <2>4
<1>7. a \in DOMAIN Promised /\ Promised[a].due = ticket[a].claimable_at
  BY DEF Promised
<1>8. ticket[a].claimable_at <= now
  <2>1. now >= ticket[a].claimable_at
    BY <1>1, Zenon DEF Claimed
  <2>2. now \in Int /\ ticket[a].claimable_at \in Int
    BY <1>2 DEF TicketRecord, TypeOK
  <2> QED BY <2>1, <2>2
<1>9. now' = now
  BY Zenon DEF Settle
<1>10. Contract!Keep(a)
  BY <1>5, <1>6, <1>7, <1>8, <1>9 DEF Contract!Keep
<1> QED
  BY <1>2, <1>10 DEF Contract!Next

LEMMA NextPromises == TypeOK /\ [Next]_vars => [Contract!Next]_(Contract!vars)
<1> SUFFICES ASSUME TypeOK, [Next]_vars PROVE [Contract!Next]_(Contract!vars)
  OBVIOUS
<1>1. CASE UNCHANGED vars
  BY <1>1 DEF vars, Contract!vars, Promised, Kept
<1>2. ASSUME NEW o \in Owner, NEW s \in Stope, NEW terms \in TicketTerms,
             Issue(o, s, terms)
      PROVE  Contract!Next
  BY <1>2, IssuePromises
<1>3. ASSUME NEW a \in DOMAIN ticket, Settle(a) PROVE Contract!Next
  BY <1>3, SettleKeeps
<1>4. CASE Tick
  <2>1. Promised' = Promised /\ Kept' = Kept /\ now' = now + 1
    BY <1>4 DEF Tick, Promised, Kept
  <2> QED BY <2>1 DEF Contract!Next, Contract!Advance
<1> QED
  BY <1>1, <1>2, <1>3, <1>4 DEF Next

(***************************************************************************)
(* The queue keeps what a ticket promises: its terms never change, its     *)
(* quoted wait lies between the base delay and the ceiling, and it is paid *)
(* at most once and never early, whatever the other depositors do.         *)
(***************************************************************************)
THEOREM QueueImplementsPromise == Spec => ImplementsPromise
<1>1. Init => Contract!Init
  BY InitPromises
<1>2. TypeOK /\ [Next]_vars => [Contract!Next]_(Contract!vars)
  BY NextPromises
<1> QED
  BY <1>1, <1>2, QueueTypeCorrect, PTL DEF Spec, ImplementsPromise, Contract!Spec

-----------------------------------------------------------------------------
(***************************************************************************)
(* Numbering.  Two counters name tickets: ticket_count of a position gives *)
(* the address, tail of a stope's queue the place in it.  Neither is ever  *)
(* ahead of or behind the tickets that exist.                              *)
(***************************************************************************)
AddressesNumbered ==
    \A a \in DOMAIN ticket :
        \E i \in Nat :
            /\ a = TicketAddress(ticket[a].owner, ticket[a].stope_id, i)
            /\ i < position[ticket[a].stope_id][ticket[a].owner].ticket_count

RequestedInThePast == \A a \in DOMAIN ticket : ticket[a].requested_at <= now

OrderInv ==
    /\ TypeOK
    /\ AddressesNumbered
    /\ RequestedInThePast
    /\ PositionsFollowIssueOrder

LEMMA CounterTypes ==
    ASSUME TypeOK, NEW s \in Stope, NEW o \in Owner
    PROVE  position[s][o].ticket_count \in Nat /\ queue[s].tail \in Nat
<1>1. position[s][o].ticket_count \in 0..U32Max /\ queue[s].tail \in U64
  BY DEF TypeOK
<1> QED
  BY <1>1 DEF U64

LEMMA InitOrder == Init => OrderInv
<1> SUFFICES ASSUME Init PROVE OrderInv
  OBVIOUS
<1>1. DOMAIN ticket = {} /\ TypeOK
  BY InitTypeOK DEF Init
<1>2. \A s \in Stope : queue[s].tail = 0
  BY DEF Init, EmptyQueue
<1>3. PositionsFollowIssueOrder
  BY <1>1, <1>2 DEF PositionsFollowIssueOrder, TicketsIn
<1> QED
  BY <1>1, <1>3 DEF OrderInv, AddressesNumbered, RequestedInThePast

LEMMA IssueOrder ==
    ASSUME OrderInv, NEW o \in Owner, NEW s \in Stope, NEW terms \in TicketTerms,
           Issue(o, s, terms)
    PROVE  OrderInv'
<1> DEFINE i == position[s][o].ticket_count
           a == TicketAddress(o, s, i)
           t == IssuedTicket(o, s, terms)
<1>1. TypeOK /\ TypeOK'
  BY IssueTypeOK DEF OrderInv
<1>2. /\ a \notin DOMAIN ticket
      /\ DOMAIN ticket' = DOMAIN ticket \cup {a}
      /\ \A b \in DOMAIN ticket : ticket'[b] = ticket[b]
      /\ ticket'[a] = t
  BY IssueEffect DEF Issued
<1>3. /\ t.owner = o /\ t.stope_id = s /\ t.queue_position = queue[s].tail
      /\ t.requested_at = now
  BY DEF IssuedTicket
<1>4. /\ i \in Nat /\ now \in Nat /\ now' = now
      /\ \A r \in Stope : queue[r].tail \in Nat
      /\ \A r \in Stope, p \in Owner : position[r][p].ticket_count \in Nat
  BY <1>1, CounterTypes DEF Issue, BacklogFits, TypeOK
<1>5. /\ queue'[s].tail = queue[s].tail + 1
      /\ \A r \in Stope : r # s => queue'[r].tail = queue[r].tail
  <2>1. queue' = [queue EXCEPT ![s] = Enqueued(@, terms.normalized_amount)]
    BY DEF Issue
  <2>2. queue[s] \in QueueRecord /\ queue \in [Stope -> QueueRecord]
    BY <1>1 DEF TypeOK, QueueRecord
  <2>3. Enqueued(queue[s], terms.normalized_amount).tail = queue[s].tail + 1
    BY <2>2 DEF Enqueued, QueueRecord
  <2> QED BY <2>1, <2>2, <2>3
<1>6. /\ position'[s][o].ticket_count = i + 1
      /\ \A r \in Stope, p \in Owner : ~ (r = s /\ p = o) =>
            position'[r][p].ticket_count = position[r][p].ticket_count
  <2>1. position' = [position EXCEPT ![s][o].ticket_count = @ + 1,
                        ![s][o].pending_redemption = @ + terms.normalized_amount]
    BY DEF Issue
  <2>2. position \in [Stope -> [Owner -> PositionRecord]]
    BY <1>1 DEF TypeOK, PositionRecord
  <2> QED BY <2>1, <2>2 DEF PositionRecord
<1>7. \A b \in DOMAIN ticket : ticket[b].owner \in Owner /\ ticket[b].stope_id \in Stope
                /\ ticket[b].queue_position \in Nat
                /\ ticket[b].requested_at \in Nat
  BY <1>1 DEF TypeOK, TicketRecord, U64
<1>8. AddressesNumbered'
  <2> SUFFICES ASSUME NEW b \in DOMAIN ticket'
               PROVE  \E n \in Nat :
            /\ b = TicketAddress(ticket'[b].owner, ticket'[b].stope_id, n)
            /\ n < position'[ticket'[b].stope_id][ticket'[b].owner].ticket_count
    BY Zenon DEF AddressesNumbered
  <2>1. CASE b = a
    <3>1. /\ a = TicketAddress(ticket'[a].owner, ticket'[a].stope_id, i)
          /\ i < position'[ticket'[a].stope_id][ticket'[a].owner].ticket_count
      <4> HIDE DEF i, t
      <4> QED BY <1>2, <1>3, <1>4, <1>6
    <3> QED BY <1>4, <2>1, <3>1, Zenon
  <2>2. CASE b # a
    <3>1. b \in DOMAIN ticket /\ ticket'[b] = ticket[b]
      BY <1>2, <2>2
    <3>2. PICK n \in Nat :
            /\ b = TicketAddress(ticket[b].owner, ticket[b].stope_id, n)
            /\ n < position[ticket[b].stope_id][ticket[b].owner].ticket_count
      BY <3>1 DEF OrderInv, AddressesNumbered
    <3> DEFINE p == ticket[b].owner
               r == ticket[b].stope_id
    <3>3. p \in Owner /\ r \in Stope
      BY <1>7, <3>1
    <3>4. n < position[r][p].ticket_count
      BY <3>2
    <3> HIDE DEF p, r
    <3>5. n < position'[r][p].ticket_count
      <4> HIDE DEF a, t
      <4>1. CASE r = s /\ p = o
        BY <1>4, <1>6, <3>4, <4>1
      <4>2. CASE ~ (r = s /\ p = o)
        BY <1>6, <3>3, <3>4, <4>2
      <4> QED BY <4>1, <4>2
    <3> QED BY <3>1, <3>2, <3>5 DEF p, r
  <2> QED BY <2>1, <2>2
<1> HIDE DEF a, t
<1>9. RequestedInThePast'
  BY <1>2, <1>3, <1>4 DEF OrderInv, RequestedInThePast
<1>10. TicketsIn(s)' = TicketsIn(s) \cup {a}
       /\ \A r \in Stope : r # s => TicketsIn(r)' = TicketsIn(r)
  BY <1>2, <1>3 DEF TicketsIn
<1>11. PositionsFollowIssueOrder'
  <2> SUFFICES ASSUME NEW r \in Stope
               PROVE  /\ {ticket'[b].queue_position : b \in TicketsIn(r)'}
                            = 0..(queue'[r].tail - 1)
                      /\ \A b, c \in TicketsIn(r)' :
                            ticket'[b].queue_position < ticket'[c].queue_position
                        => ticket'[b].requested_at <= ticket'[c].requested_at
    BY DEF PositionsFollowIssueOrder
  <2>1. /\ {ticket[b].queue_position : b \in TicketsIn(r)} = 0..(queue[r].tail - 1)
        /\ \A b, c \in TicketsIn(r) :
                ticket[b].queue_position < ticket[c].queue_position
                    => ticket[b].requested_at <= ticket[c].requested_at
    BY DEF OrderInv, PositionsFollowIssueOrder
  <2>2. \A b \in TicketsIn(r) : b \in DOMAIN ticket /\ ticket'[b] = ticket[b]
    BY <1>2 DEF TicketsIn
  <2>3. CASE r # s
    <3>1. TicketsIn(r)' = TicketsIn(r) /\ queue'[r].tail = queue[r].tail
      BY <1>5, <1>10, <2>3
    <3> QED BY <2>1, <2>2, <3>1
  <2>4. CASE r = s
    <3>1. /\ TicketsIn(r)' = TicketsIn(r) \cup {a} /\ a \notin TicketsIn(r)
          /\ queue'[r].tail = queue[r].tail + 1
          /\ ticket'[a].queue_position = queue[r].tail
          /\ ticket'[a].requested_at = now
      BY <1>2, <1>3, <1>5, <1>10, <2>2, <2>4
    <3>2. {ticket'[b].queue_position : b \in TicketsIn(r)'}
            = 0..(queue[r].tail - 1) \cup {queue[r].tail}
      <4>1. {ticket'[b].queue_position : b \in TicketsIn(r)}
                = {ticket[b].queue_position : b \in TicketsIn(r)}
        BY <2>2
      <4>2. {ticket'[b].queue_position : b \in TicketsIn(r) \cup {a}}
                = {ticket'[b].queue_position : b \in TicketsIn(r)}
                        \cup {ticket'[a].queue_position}
        OBVIOUS
      <4> QED BY <2>1, <3>1, <4>1, <4>2
    <3>3. queue[r].tail \in Nat
      BY <1>4
    <3>4. {ticket'[b].queue_position : b \in TicketsIn(r)'} = 0..(queue'[r].tail - 1)
      <4>1. 0..(queue[r].tail - 1) \cup {queue[r].tail} = 0..((queue[r].tail + 1) - 1)
        BY <3>3
      <4> QED BY <3>1, <3>2, <4>1
    <3>5. ASSUME NEW b \in TicketsIn(r)
          PROVE  /\ ticket'[b].queue_position < queue[r].tail
                 /\ ticket'[b].queue_position \in Nat
                 /\ ticket'[b].requested_at <= now
      <4>1. ticket[b].queue_position \in 0..(queue[r].tail - 1)
        BY <2>1
      <4>2. ticket[b].requested_at <= now
        BY <2>2 DEF OrderInv, RequestedInThePast
      <4> QED BY <2>2, <3>3, <4>1, <4>2
    <3>6. ASSUME NEW b \in TicketsIn(r)', NEW c \in TicketsIn(r)',
                 ticket'[b].queue_position < ticket'[c].queue_position
          PROVE  ticket'[b].requested_at <= ticket'[c].requested_at
      <4>1. CASE b = a
        <5>1. c # a => ticket'[c].queue_position < queue[r].tail
                        /\ ticket'[c].queue_position \in Nat
          BY <3>1, <3>5
        <5> QED BY <3>1, <3>3, <3>6, <4>1, <5>1
      <4>2. CASE b # a /\ c = a
        BY <3>1, <3>5, <4>2
      <4>3. CASE b # a /\ c # a
        <5>1. b \in TicketsIn(r) /\ c \in TicketsIn(r)
          BY <3>1, <4>3
        <5> QED BY <2>1, <2>2, <3>6, <5>1
      <4> QED BY <4>1, <4>2, <4>3
    <3> QED BY <3>4, <3>6
  <2> QED BY <2>3, <2>4
<1> QED
  BY <1>1, <1>8, <1>9, <1>11 DEF OrderInv

(***************************************************************************)
(* A claim and the clock leave every number and request time alone.        *)
(***************************************************************************)
NumbersKept ==
    /\ DOMAIN ticket' = DOMAIN ticket
    /\ \A a \in DOMAIN ticket :
            /\ ticket'[a].owner = ticket[a].owner
            /\ ticket'[a].stope_id = ticket[a].stope_id
            /\ ticket'[a].queue_position = ticket[a].queue_position
            /\ ticket'[a].requested_at = ticket[a].requested_at
    /\ \A s \in Stope : queue'[s].tail = queue[s].tail
    /\ \A s \in Stope, o \in Owner :
            position'[s][o].ticket_count = position[s][o].ticket_count

LEMMA KeptNumbersKeepOrder ==
    ASSUME OrderInv, TypeOK', NumbersKept, now' \in Nat, now <= now'
    PROVE  OrderInv'
<1>1. TypeOK
  BY DEF OrderInv
<1>2. \A a \in DOMAIN ticket : ticket[a].owner \in Owner /\ ticket[a].stope_id \in Stope
                /\ ticket[a].requested_at \in Nat
  BY <1>1 DEF TypeOK, TicketRecord
<1>3. AddressesNumbered'
  <2> SUFFICES ASSUME NEW b \in DOMAIN ticket
               PROVE  \E n \in Nat :
            /\ b = TicketAddress(ticket'[b].owner, ticket'[b].stope_id, n)
            /\ n < position'[ticket'[b].stope_id][ticket'[b].owner].ticket_count
    BY DEF AddressesNumbered, NumbersKept
  <2>1. PICK n \in Nat :
            /\ b = TicketAddress(ticket[b].owner, ticket[b].stope_id, n)
            /\ n < position[ticket[b].stope_id][ticket[b].owner].ticket_count
    BY DEF OrderInv, AddressesNumbered
  <2> QED BY <1>2, <2>1, SMTT(30) DEF NumbersKept
<1>4. RequestedInThePast'
  <2>1. now \in Nat
    BY <1>1 DEF TypeOK
  <2> QED BY <1>2, <2>1 DEF OrderInv, RequestedInThePast, NumbersKept
<1>5. \A s \in Stope : TicketsIn(s)' = TicketsIn(s)
  BY DEF TicketsIn, NumbersKept
<1>6. PositionsFollowIssueOrder'
  <2> SUFFICES ASSUME NEW r \in Stope
               PROVE  /\ {ticket'[b].queue_position : b \in TicketsIn(r)'}
                            = 0..(queue'[r].tail - 1)
                      /\ \A b, c \in TicketsIn(r)' :
                            ticket'[b].queue_position < ticket'[c].queue_position
                        => ticket'[b].requested_at <= ticket'[c].requested_at
    BY DEF PositionsFollowIssueOrder
  <2>1. /\ {ticket[b].queue_position : b \in TicketsIn(r)} = 0..(queue[r].tail - 1)
        /\ \A b, c \in TicketsIn(r) :
                ticket[b].queue_position < ticket[c].queue_position
                    => ticket[b].requested_at <= ticket[c].requested_at
    BY DEF OrderInv, PositionsFollowIssueOrder
  <2>2. \A b \in TicketsIn(r) :
            /\ ticket'[b].queue_position = ticket[b].queue_position
            /\ ticket'[b].requested_at = ticket[b].requested_at
    BY DEF TicketsIn, NumbersKept
  <2>3. queue'[r].tail = queue[r].tail
    BY DEF NumbersKept
  <2> QED BY <1>5, <2>1, <2>2, <2>3
<1> QED
  BY <1>3, <1>4, <1>6 DEF OrderInv

LEMMA SettleKeepsNumbers ==
    ASSUME TypeOK, NEW a \in DOMAIN ticket, Settle(a)
    PROVE  NumbersKept
<1> DEFINE o == ticket[a].owner
           s == ticket[a].stope_id
           normalized == ticket[a].terms.normalized_amount
           fee == ticket[a].terms.fee_normalized
<1>1. Claimed(a)
  BY SettleEffect
<1>2. ticket[a] \in TicketRecord /\ o \in Owner /\ s \in Stope
  BY DEF TypeOK, TicketRecord
<1>3. /\ ticket'[a].owner = ticket[a].owner
      /\ ticket'[a].stope_id = ticket[a].stope_id
      /\ ticket'[a].queue_position = ticket[a].queue_position
      /\ ticket'[a].requested_at = ticket[a].requested_at
  BY <1>1, <1>2 DEF Claimed, TicketRecord
<1>4. \A r \in Stope : queue'[r].tail = queue[r].tail
  <2>1. queue' = [queue EXCEPT ![s] = Dequeued(@, normalized, fee)]
    BY Zenon DEF Settle
  <2>2. queue \in [Stope -> QueueRecord]
    BY DEF TypeOK, QueueRecord
  <2>3. queue[s] \in QueueRecord
    BY <1>2, <2>2
  <2>4. Dequeued(queue[s], normalized, fee).tail = queue[s].tail
    BY SMTT(30), <2>3 DEF Dequeued, QueueRecord
  <2> QED BY <1>2, <2>1, <2>2, <2>4
<1>5. \A r \in Stope, p \in Owner :
            position'[r][p].ticket_count = position[r][p].ticket_count
  <2>1. position' = [position EXCEPT
                ![s][o].pending_redemption = SaturatingSub(@, normalized),
                ![s][o].withdrawn = @ + normalized]
    BY Zenon DEF Settle
  <2>2. position \in [Stope -> [Owner -> PositionRecord]]
    BY DEF TypeOK, PositionRecord
  <2> QED BY <1>2, <2>1, <2>2, SMTT(60) DEF PositionRecord
<1> QED
  BY <1>1, <1>3, <1>4, <1>5, Zenon DEF NumbersKept, Claimed

LEMMA NextOrder == OrderInv /\ [Next]_vars => OrderInv'
<1> SUFFICES ASSUME OrderInv, [Next]_vars PROVE OrderInv'
  OBVIOUS
<1>1. TypeOK /\ TypeOK' /\ now \in Nat
  BY NextTypeOK DEF OrderInv, TypeOK
<1>2. CASE UNCHANGED vars
  <2>1. NumbersKept /\ now' = now
    BY <1>2 DEF vars, NumbersKept
  <2> QED BY <1>1, <2>1, KeptNumbersKeepOrder
<1>3. ASSUME NEW o \in Owner, NEW s \in Stope, NEW terms \in TicketTerms,
             Issue(o, s, terms)
      PROVE  OrderInv'
  BY <1>3, IssueOrder
<1>4. ASSUME NEW a \in DOMAIN ticket, Settle(a) PROVE OrderInv'
  <2>1. NumbersKept /\ now' = now
    BY <1>1, <1>4, SettleKeepsNumbers, Zenon DEF Settle
  <2>2. now' \in Nat /\ now <= now'
    BY <1>1, <2>1
  <2> QED BY <1>1, <2>1, <2>2, KeptNumbersKeepOrder, Zenon
<1>5. CASE Tick
  <2>1. NumbersKept /\ now' = now + 1
    BY <1>5 DEF Tick, NumbersKept
  <2> QED BY <1>1, <2>1, KeptNumbersKeepOrder
<1> QED
  BY <1>2, <1>3, <1>4, <1>5 DEF Next

LEMMA OrderInvariant == Spec => []OrderInv
BY InitOrder, NextOrder, PTL DEF Spec

(***************************************************************************)
(* The address that request_redemption creates is never in use: no owner   *)
(* is ever locked out of redeeming by an earlier ticket, of this or of     *)
(* another stope.                                                          *)
(***************************************************************************)
THEOREM NoTicketIsLockedOut == Spec => []NextTicketAddressFree
<1>1. ASSUME OrderInv PROVE NextTicketAddressFree
  <2> SUFFICES ASSUME NEW s \in Stope, NEW o \in Owner,
                      TicketAddress(o, s, position[s][o].ticket_count) \in DOMAIN ticket
               PROVE  FALSE
    BY DEF NextTicketAddressFree
  <2> DEFINE c == position[s][o].ticket_count
             a == TicketAddress(o, s, c)
  <2>1. PICK n \in Nat :
            /\ a = TicketAddress(ticket[a].owner, ticket[a].stope_id, n)
            /\ n < position[ticket[a].stope_id][ticket[a].owner].ticket_count
    BY <1>1 DEF OrderInv, AddressesNumbered
  <2>2. c \in Nat
    BY <1>1, CounterTypes DEF OrderInv
  <2>3. ticket[a].owner = o /\ ticket[a].stope_id = s /\ n = c
    <3> DEFINE p == ticket[a].owner
               r == ticket[a].stope_id
    <3>1. <<o, s, c>> = <<p, r, n>>
      BY <2>1 DEF TicketAddress
    <3> HIDE DEF p, r, c
    <3>2. o = p /\ s = r /\ c = n
      BY <3>1
    <3> QED BY <3>2 DEF p, r
  <2>4. n < c
    BY <2>1, <2>3
  <2> HIDE DEF c
  <2> QED BY <2>2, <2>3, <2>4
<1> QED
  BY <1>1, OrderInvariant, PTL

(***************************************************************************)
(* A stope numbers its tickets 0, 1, 2, ... in the order of the requests,  *)
(* without a gap.                                                          *)
(***************************************************************************)
THEOREM TicketsKeepIssueOrder == Spec => []PositionsFollowIssueOrder
BY OrderInvariant, PTL DEF OrderInv

-----------------------------------------------------------------------------
(***************************************************************************)
(* The books.  Amounts and fees of a set of tickets, with the tickets a    *)
(* parameter so that a state and its successor can be compared.            *)
(***************************************************************************)
AmountsOf(t, A) ==
    SumFunctionOnSet([b \in A |-> t[b].terms.normalized_amount], A)
FeesOf(t, A) ==
    SumFunctionOnSet([b \in A |-> t[b].terms.fee_normalized], A)

LEMMA SumsPlusOne ==
    ASSUME NEW A, IsFiniteSet(A), NEW a, a \notin A, NEW t,
           \A b \in A \cup {a} : /\ t[b].terms.normalized_amount \in Nat
                                 /\ t[b].terms.fee_normalized \in Nat
    PROVE  /\ AmountsOf(t, A) \in Nat /\ FeesOf(t, A) \in Nat
           /\ AmountsOf(t, A \cup {a}) = AmountsOf(t, A) + t[a].terms.normalized_amount
           /\ FeesOf(t, A \cup {a}) = FeesOf(t, A) + t[a].terms.fee_normalized
<1> DEFINE f == [b \in A |-> t[b].terms.normalized_amount]
           g == [b \in A \cup {a} |-> t[b].terms.normalized_amount]
           h == [b \in A |-> t[b].terms.fee_normalized]
           k == [b \in A \cup {a} |-> t[b].terms.fee_normalized]
<1>1. f \in [A -> Nat] /\ g \in [A \cup {a} -> Nat] /\ \A b \in A : f[b] = g[b]
  OBVIOUS
<1>2. h \in [A -> Nat] /\ k \in [A \cup {a} -> Nat] /\ \A b \in A : h[b] = k[b]
  OBVIOUS
<1>3. g[a] = t[a].terms.normalized_amount /\ k[a] = t[a].terms.fee_normalized
  OBVIOUS
<1> HIDE DEF f, g, h, k
<1>4. /\ SumFunctionOnSet(f, A) \in Nat
      /\ SumFunctionOnSet(g, A \cup {a}) = SumFunctionOnSet(f, A) + g[a]
  BY <1>1, SumType, SumPlusOne
<1>5. /\ SumFunctionOnSet(h, A) \in Nat
      /\ SumFunctionOnSet(k, A \cup {a}) = SumFunctionOnSet(h, A) + k[a]
  BY <1>2, SumType, SumPlusOne
<1> QED
  BY <1>3, <1>4, <1>5, Zenon DEF AmountsOf, FeesOf, f, g, h, k

LEMMA SumsKept ==
    ASSUME NEW A, IsFiniteSet(A), NEW t, NEW u,
           \A b \in A : u[b].terms = t[b].terms
    PROVE  AmountsOf(u, A) = AmountsOf(t, A) /\ FeesOf(u, A) = FeesOf(t, A)
<1>1. AmountsOf(u, A) = AmountsOf(t, A)
  <2> DEFINE f == [b \in A |-> u[b].terms.normalized_amount]
             g == [b \in A |-> t[b].terms.normalized_amount]
  <2>1. f = g
    BY Zenon
  <2> QED BY <2>1, Zenon DEF AmountsOf
<1>2. FeesOf(u, A) = FeesOf(t, A)
  <2> DEFINE f == [b \in A |-> u[b].terms.fee_normalized]
             g == [b \in A |-> t[b].terms.fee_normalized]
  <2>1. f = g
    BY Zenon
  <2> QED BY <2>1, Zenon DEF FeesOf
<1> QED BY <1>1, <1>2

(***************************************************************************)
(* One stope's books, and one position's.                                  *)
(***************************************************************************)
StopeBook(s) ==
    /\ queue[s].tail = Cardinality(TicketsIn(s))
    /\ queue[s].head = Cardinality(ClaimedIn(s))
    /\ queue[s].pending_tickets = queue[s].tail - queue[s].head
    /\ queue[s].total_pending = AmountsOf(ticket, QueuedIn(s))
    /\ queue[s].total_claimed = AmountsOf(ticket, ClaimedIn(s))
    /\ queue[s].total_fees = FeesOf(ticket, ClaimedIn(s))
    /\ reserve[s].pending_redemption = AmountsOf(ticket, QueuedIn(s))
    /\ reserve[s].total_redeemed = AmountsOf(ticket, ClaimedIn(s))

PositionBook(s, o) ==
    /\ position[s][o].pending_redemption
            = AmountsOf(ticket, QueuedIn(s) \cap OwnedBy(o))
    /\ position[s][o].withdrawn
            = AmountsOf(ticket, ClaimedIn(s) \cap OwnedBy(o))

BooksInv ==
    /\ OrderInv
    /\ IsFiniteSet(DOMAIN ticket)
    /\ \A s \in Stope : StopeBook(s) /\ \A o \in Owner : PositionBook(s, o)

LEMMA BooksAreBooks ==
    ASSUME \A s \in Stope : StopeBook(s) /\ \A o \in Owner : PositionBook(s, o)
    PROVE  BooksMatchTickets
BY Zenon DEF BooksMatchTickets, StopeBook, PositionBook, Normalized, Fees, AmountsOf, FeesOf

LEMMA TicketSetsFinite ==
    ASSUME IsFiniteSet(DOMAIN ticket), NEW s, NEW o
    PROVE  /\ IsFiniteSet(TicketsIn(s)) /\ IsFiniteSet(QueuedIn(s))
           /\ IsFiniteSet(ClaimedIn(s))
           /\ IsFiniteSet(QueuedIn(s) \cap OwnedBy(o))
           /\ IsFiniteSet(ClaimedIn(s) \cap OwnedBy(o))
<1>1. /\ TicketsIn(s) \in SUBSET DOMAIN ticket /\ QueuedIn(s) \in SUBSET DOMAIN ticket
      /\ ClaimedIn(s) \in SUBSET DOMAIN ticket
      /\ QueuedIn(s) \cap OwnedBy(o) \in SUBSET DOMAIN ticket
      /\ ClaimedIn(s) \cap OwnedBy(o) \in SUBSET DOMAIN ticket
  BY DEF TicketsIn, QueuedIn, ClaimedIn
<1> QED BY <1>1, FS_Subset

(***************************************************************************)
(* The books cover every queued ticket, so its claim subtracts exactly.    *)
(***************************************************************************)
LEMMA PendingCoversTicket ==
    ASSUME BooksInv, NEW a \in DOMAIN ticket, ticket[a].status = "Queued"
    PROVE  ticket[a].terms.normalized_amount <= queue[ticket[a].stope_id].total_pending
<1> DEFINE s == ticket[a].stope_id
           Q == QueuedIn(s) \ {a}
<1>1. TypeOK /\ IsFiniteSet(DOMAIN ticket)
  BY DEF BooksInv, OrderInv
<1>2. /\ s \in Stope
      /\ \A b \in DOMAIN ticket : /\ ticket[b].terms.normalized_amount \in Nat
                                  /\ ticket[b].terms.fee_normalized \in Nat
  BY <1>1 DEF TypeOK, TicketRecord, U64
<1>3. a \in QueuedIn(s) /\ QueuedIn(s) = Q \cup {a} /\ a \notin Q
  BY DEF QueuedIn, TicketsIn
<1>4. IsFiniteSet(Q) /\ \A b \in Q \cup {a} : b \in DOMAIN ticket
  <2>1. IsFiniteSet(QueuedIn(s))
    BY <1>1, TicketSetsFinite
  <2> QED BY <2>1, FS_RemoveElement DEF QueuedIn, TicketsIn
<1>5. queue[s].total_pending = AmountsOf(ticket, QueuedIn(s))
  BY <1>2 DEF BooksInv, StopeBook
<1> HIDE DEF Q, s
<1>6. /\ AmountsOf(ticket, Q) \in Nat
      /\ AmountsOf(ticket, Q \cup {a})
            = AmountsOf(ticket, Q) + ticket[a].terms.normalized_amount
  BY <1>2, <1>3, <1>4, SumsPlusOne
<1>7. ticket[a].terms.normalized_amount <= queue[s].total_pending
  BY <1>2, <1>3, <1>5, <1>6
<1> QED
  BY <1>7 DEF s

(***************************************************************************)
(* What the lifetime counters of a claim reach: with a queued ticket left, *)
(* each is behind the tail or at most what the stope has claimed.          *)
(***************************************************************************)
LEMMA AmountsBounded ==
    ASSUME NEW A, IsFiniteSet(A), NEW B \in SUBSET A, NEW t,
           \A b \in A : /\ t[b].terms.normalized_amount \in Nat
                        /\ t[b].terms.fee_normalized \in Nat
                        /\ t[b].terms.fee_normalized <= t[b].terms.normalized_amount
    PROVE  /\ AmountsOf(t, B) <= AmountsOf(t, A)
           /\ FeesOf(t, A) <= AmountsOf(t, A)
<1> DEFINE f == [b \in A |-> t[b].terms.normalized_amount]
           g == [b \in B |-> t[b].terms.normalized_amount]
           h == [b \in A |-> t[b].terms.fee_normalized]
<1>1. f \in [A -> Nat] /\ g \in [B -> Nat] /\ h \in [A -> Nat] /\ A \in SUBSET A
  OBVIOUS
<1>2. (\A b \in B : g[b] <= f[b]) /\ \A b \in A : h[b] <= f[b]
  OBVIOUS
<1> HIDE DEF f, g, h
<1>3. /\ SumFunctionOnSet(g, B) <= SumFunctionOnSet(f, A)
      /\ SumFunctionOnSet(h, A) <= SumFunctionOnSet(f, A)
  BY <1>1, <1>2, SumBounded
<1> QED
  BY <1>3, Zenon DEF AmountsOf, FeesOf, f, g, h

LEMMA CountersWithinClaims ==
    ASSUME BooksInv, NEW a \in DOMAIN ticket, ticket[a].status = "Queued",
           \A b \in DOMAIN ticket :
                ticket[b].terms.fee_normalized <= ticket[b].terms.normalized_amount
    PROVE  LET s == ticket[a].stope_id
           IN  /\ queue[s].head + 1 <= queue[s].tail
               /\ reserve[s].total_redeemed = queue[s].total_claimed
               /\ queue[s].total_fees <= queue[s].total_claimed
               /\ position[s][ticket[a].owner].withdrawn <= queue[s].total_claimed
<1> DEFINE s == ticket[a].stope_id
           o == ticket[a].owner
<1>1. TypeOK /\ IsFiniteSet(DOMAIN ticket)
  BY DEF BooksInv, OrderInv
<1>2. /\ s \in Stope /\ o \in Owner
      /\ \A b \in DOMAIN ticket : /\ ticket[b].terms.normalized_amount \in Nat
                                  /\ ticket[b].terms.fee_normalized \in Nat
  BY <1>1 DEF TypeOK, TicketRecord, U64
<1>3. StopeBook(s) /\ PositionBook(s, o)
  BY <1>2 DEF BooksInv
<1>4. a \in TicketsIn(s) /\ a \notin ClaimedIn(s)
  BY DEF TicketsIn, ClaimedIn
<1> HIDE DEF s, o
<1>5. queue[s].head + 1 <= queue[s].tail
  <2> DEFINE T == TicketsIn(s)
             C == ClaimedIn(s)
  <2>1. C \in SUBSET T /\ C # T /\ IsFiniteSet(T) /\ IsFiniteSet(C)
    BY <1>1, <1>4, TicketSetsFinite DEF ClaimedIn
  <2> HIDE DEF T, C
  <2>2. /\ Cardinality(C) <= Cardinality(T) /\ Cardinality(C) # Cardinality(T)
        /\ Cardinality(C) \in Nat /\ Cardinality(T) \in Nat
    BY <2>1, FS_Subset, FS_CardinalityType
  <2>3. queue[s].tail = Cardinality(T) /\ queue[s].head = Cardinality(C)
    BY <1>3 DEF StopeBook, T, C
  <2> QED BY <2>2, <2>3
<1>6. /\ AmountsOf(ticket, ClaimedIn(s) \cap OwnedBy(o)) <= AmountsOf(ticket, ClaimedIn(s))
      /\ FeesOf(ticket, ClaimedIn(s)) <= AmountsOf(ticket, ClaimedIn(s))
  <2> DEFINE C == ClaimedIn(s)
             B == C \cap OwnedBy(o)
  <2>1. IsFiniteSet(C) /\ B \in SUBSET C /\ \A b \in C : b \in DOMAIN ticket
    BY <1>1, TicketSetsFinite DEF ClaimedIn, TicketsIn
  <2> HIDE DEF C, B
  <2>2. AmountsOf(ticket, B) <= AmountsOf(ticket, C) /\ FeesOf(ticket, C) <= AmountsOf(ticket, C)
    BY <1>2, <2>1, AmountsBounded
  <2> QED BY <2>2 DEF C, B
<1> QED
  BY <1>3, <1>5, <1>6 DEF StopeBook, PositionBook, s, o

LEMMA InitBooks == Init => BooksInv
<1> SUFFICES ASSUME Init PROVE BooksInv
  OBVIOUS
<1>1. DOMAIN ticket = {}
  BY DEF Init
<1>2. IsFiniteSet({}) /\ Cardinality({}) = 0
  BY FS_EmptySet
<1>3. AmountsOf(ticket, {}) = 0 /\ FeesOf(ticket, {}) = 0
  BY SumOfNone, Zenon DEF AmountsOf, FeesOf
<1>4. ASSUME NEW s \in Stope, NEW o \in Owner PROVE StopeBook(s) /\ PositionBook(s, o)
  <2>1. /\ TicketsIn(s) = {} /\ QueuedIn(s) = {} /\ ClaimedIn(s) = {}
        /\ QueuedIn(s) \cap OwnedBy(o) = {} /\ ClaimedIn(s) \cap OwnedBy(o) = {}
    BY <1>1 DEF TicketsIn, QueuedIn, ClaimedIn
  <2>2. queue[s] = EmptyQueue /\ reserve[s] = [pending_redemption |-> 0, total_redeemed |-> 0]
    BY DEF Init
  <2>3. position[s][o] = [ticket_count |-> 0, pending_redemption |-> 0, withdrawn |-> 0]
    BY DEF Init
  <2>4. StopeBook(s)
    BY <1>2, <1>3, <2>1, <2>2 DEF StopeBook, EmptyQueue
  <2>5. PositionBook(s, o)
    BY <1>3, <2>1, <2>3 DEF PositionBook
  <2> QED BY <2>4, <2>5
<1>5. ASSUME NEW s \in Stope PROVE StopeBook(s)
  <2>1. TicketsIn(s) = {} /\ QueuedIn(s) = {} /\ ClaimedIn(s) = {}
    BY <1>1 DEF TicketsIn, QueuedIn, ClaimedIn
  <2>2. queue[s] = EmptyQueue /\ reserve[s] = [pending_redemption |-> 0, total_redeemed |-> 0]
    BY DEF Init
  <2> QED BY <1>2, <1>3, <2>1, <2>2 DEF StopeBook, EmptyQueue
<1> QED
  BY <1>1, <1>2, <1>4, <1>5, InitOrder DEF BooksInv

(***************************************************************************)
(* Books whose tickets and accounts a step leaves alone.                   *)
(***************************************************************************)
LEMMA StopeBookKept ==
    ASSUME NEW s \in Stope, StopeBook(s), IsFiniteSet(DOMAIN ticket),
           TicketsIn(s)' = TicketsIn(s), QueuedIn(s)' = QueuedIn(s),
           ClaimedIn(s)' = ClaimedIn(s),
           \A b \in DOMAIN ticket : ticket'[b].terms = ticket[b].terms,
           queue'[s] = queue[s], reserve'[s] = reserve[s]
    PROVE  StopeBook(s)'
<1>1. IsFiniteSet(QueuedIn(s)) /\ IsFiniteSet(ClaimedIn(s))
  BY TicketSetsFinite
<1>2. /\ \A b \in QueuedIn(s) : ticket'[b].terms = ticket[b].terms
      /\ \A b \in ClaimedIn(s) : ticket'[b].terms = ticket[b].terms
  BY DEF QueuedIn, ClaimedIn, TicketsIn
<1>3. /\ AmountsOf(ticket', QueuedIn(s)) = AmountsOf(ticket, QueuedIn(s))
      /\ AmountsOf(ticket', ClaimedIn(s)) = AmountsOf(ticket, ClaimedIn(s))
      /\ FeesOf(ticket', ClaimedIn(s)) = FeesOf(ticket, ClaimedIn(s))
  BY <1>1, <1>2, SumsKept
<1> QED
  BY <1>3, Zenon DEF StopeBook

LEMMA PositionBookKept ==
    ASSUME NEW s \in Stope, NEW o \in Owner, PositionBook(s, o),
           IsFiniteSet(DOMAIN ticket),
           (QueuedIn(s) \cap OwnedBy(o))' = QueuedIn(s) \cap OwnedBy(o),
           (ClaimedIn(s) \cap OwnedBy(o))' = ClaimedIn(s) \cap OwnedBy(o),
           \A b \in DOMAIN ticket : ticket'[b].terms = ticket[b].terms,
           position'[s][o].pending_redemption = position[s][o].pending_redemption,
           position'[s][o].withdrawn = position[s][o].withdrawn
    PROVE  PositionBook(s, o)'
<1> DEFINE Q == QueuedIn(s) \cap OwnedBy(o)
           C == ClaimedIn(s) \cap OwnedBy(o)
<1>1. IsFiniteSet(Q) /\ IsFiniteSet(C)
  BY TicketSetsFinite
<1>2. /\ \A b \in Q : ticket'[b].terms = ticket[b].terms
      /\ \A b \in C : ticket'[b].terms = ticket[b].terms
  BY DEF QueuedIn, ClaimedIn, TicketsIn
<1>3. /\ AmountsOf(ticket', Q) = AmountsOf(ticket, Q)
      /\ AmountsOf(ticket', C) = AmountsOf(ticket, C)
  <2> HIDE DEF Q, C
  <2> QED BY <1>1, <1>2, SumsKept
<1> QED
  BY <1>3, Zenon DEF PositionBook

LEMMA IssueBooks ==
    ASSUME BooksInv, NEW o \in Owner, NEW s \in Stope, NEW terms \in TicketTerms,
           Issue(o, s, terms)
    PROVE  BooksInv'
<1> DEFINE a == TicketAddress(o, s, position[s][o].ticket_count)
           t == IssuedTicket(o, s, terms)
           n == terms.normalized_amount
<1>1. TypeOK /\ OrderInv'
  BY IssueOrder DEF BooksInv, OrderInv
<1>2. /\ a \notin DOMAIN ticket
      /\ DOMAIN ticket' = DOMAIN ticket \cup {a}
      /\ \A b \in DOMAIN ticket : ticket'[b] = ticket[b]
      /\ ticket'[a] = t
  BY IssueEffect DEF Issued
<1>3. /\ t.owner = o /\ t.stope_id = s /\ t.terms = terms /\ t.status = "Queued"
      /\ n \in Nat /\ terms.fee_normalized \in Nat
  BY DEF IssuedTicket, U64
<1>4. IsFiniteSet(DOMAIN ticket) /\ IsFiniteSet(DOMAIN ticket')
  BY <1>2, FS_AddElement DEF BooksInv
<1>5. \A b \in DOMAIN ticket : /\ ticket'[b].terms = ticket[b].terms
                               /\ ticket[b].terms \in TicketTerms
  BY <1>1, <1>2 DEF TypeOK, TicketRecord
<1>6. \A r, p : /\ a \notin TicketsIn(r) /\ a \notin QueuedIn(r)
                /\ a \notin ClaimedIn(r) /\ a \notin OwnedBy(p)
  BY <1>2 DEF TicketsIn, QueuedIn, ClaimedIn, OwnedBy
<1>7. /\ \A r : TicketsIn(r)' = IF r = s THEN TicketsIn(r) \cup {a} ELSE TicketsIn(r)
      /\ \A r : QueuedIn(r)' = IF r = s THEN QueuedIn(r) \cup {a} ELSE QueuedIn(r)
      /\ \A r : ClaimedIn(r)' = ClaimedIn(r)
      /\ \A p : OwnedBy(p)' = IF p = o THEN OwnedBy(p) \cup {a} ELSE OwnedBy(p)
  <2> HIDE DEF a, t
  <2>1. \A r : TicketsIn(r)' = IF r = s THEN TicketsIn(r) \cup {a} ELSE TicketsIn(r)
    BY <1>2, <1>3 DEF TicketsIn
  <2>2. \A r : QueuedIn(r)' = IF r = s THEN QueuedIn(r) \cup {a} ELSE QueuedIn(r)
    BY <1>2, <1>3, <2>1 DEF QueuedIn, TicketsIn
  <2>3. \A r : ClaimedIn(r)' = ClaimedIn(r)
    BY <1>2, <1>3, <2>1 DEF ClaimedIn, TicketsIn
  <2>4. \A p : OwnedBy(p)' = IF p = o THEN OwnedBy(p) \cup {a} ELSE OwnedBy(p)
    BY <1>2, <1>3 DEF OwnedBy
  <2> QED BY <2>1, <2>2, <2>3, <2>4
<1>8. /\ queue'[s] = Enqueued(queue[s], n)
      /\ \A r \in Stope : r # s => queue'[r] = queue[r]
      /\ reserve'[s] = [reserve[s] EXCEPT !.pending_redemption = @ + n]
      /\ \A r \in Stope : r # s => reserve'[r] = reserve[r]
  <2>1. /\ queue' = [queue EXCEPT ![s] = Enqueued(@, n)]
        /\ reserve' = [reserve EXCEPT ![s].pending_redemption = @ + n]
    BY DEF Issue
  <2>2. queue \in [Stope -> QueueRecord] /\ reserve \in [Stope -> ReserveRecord]
    BY <1>1 DEF TypeOK, QueueRecord, ReserveRecord
  <2> QED BY <2>1, <2>2
<1>9. /\ position'[s][o].pending_redemption = position[s][o].pending_redemption + n
      /\ position'[s][o].withdrawn = position[s][o].withdrawn
      /\ \A r \in Stope, p \in Owner : ~ (r = s /\ p = o) =>
            position'[r][p] = position[r][p]
  <2>1. position' = [position EXCEPT ![s][o].ticket_count = @ + 1,
                                     ![s][o].pending_redemption = @ + n]
    BY DEF Issue
  <2>2. position \in [Stope -> [Owner -> PositionRecord]]
    BY <1>1 DEF TypeOK, PositionRecord
  <2> QED BY <2>1, <2>2 DEF PositionRecord
<1> HIDE DEF a, t, n
<1>10. ASSUME NEW A, IsFiniteSet(A), A \subseteq DOMAIN ticket
       PROVE  /\ AmountsOf(ticket', A) = AmountsOf(ticket, A)
              /\ FeesOf(ticket', A) = FeesOf(ticket, A)
              /\ AmountsOf(ticket', A \cup {a}) = AmountsOf(ticket, A) + n
  <2>1. /\ AmountsOf(ticket', A) = AmountsOf(ticket, A)
        /\ FeesOf(ticket', A) = FeesOf(ticket, A)
    BY <1>5, <1>10, SumsKept
  <2>2. \A b \in A \cup {a} : /\ ticket'[b].terms.normalized_amount \in Nat
                              /\ ticket'[b].terms.fee_normalized \in Nat
    <3>1. \A b \in A : ticket'[b].terms \in TicketTerms
      BY <1>5, <1>10
    <3>2. ticket'[a].terms \in TicketTerms
      BY <1>2, <1>3
    <3> QED BY <3>1, <3>2 DEF U64
  <2>3. a \notin A
    BY <1>2, <1>10
  <2>4. AmountsOf(ticket', A \cup {a})
            = AmountsOf(ticket', A) + ticket'[a].terms.normalized_amount
    BY <1>10, <2>2, <2>3, SumsPlusOne
  <2>5. ticket'[a].terms.normalized_amount = n
    BY <1>2, <1>3 DEF n
  <2> QED BY <2>1, <2>4, <2>5
<1>11. StopeBook(s)'
  <2>1. StopeBook(s)
    BY DEF BooksInv
  <2>2. /\ IsFiniteSet(TicketsIn(s)) /\ IsFiniteSet(QueuedIn(s))
        /\ IsFiniteSet(ClaimedIn(s))
    BY <1>4, TicketSetsFinite
  <2>3. Cardinality(TicketsIn(s) \cup {a}) = Cardinality(TicketsIn(s)) + 1
    BY <1>6, <2>2, FS_AddElement
  <2>4. QueuedIn(s) \subseteq DOMAIN ticket /\ ClaimedIn(s) \subseteq DOMAIN ticket
    BY DEF QueuedIn, ClaimedIn, TicketsIn
  <2>5. /\ AmountsOf(ticket', QueuedIn(s) \cup {a}) = AmountsOf(ticket, QueuedIn(s)) + n
        /\ AmountsOf(ticket', ClaimedIn(s)) = AmountsOf(ticket, ClaimedIn(s))
        /\ FeesOf(ticket', ClaimedIn(s)) = FeesOf(ticket, ClaimedIn(s))
    BY <1>10, <2>2, <2>4
  <2>6. queue[s] \in QueueRecord /\ reserve[s] \in ReserveRecord
    BY <1>1 DEF TypeOK, QueueRecord, ReserveRecord
  <2>7. /\ queue'[s].tail = queue[s].tail + 1
        /\ queue'[s].head = queue[s].head
        /\ queue'[s].pending_tickets = queue[s].pending_tickets + 1
        /\ queue'[s].total_pending = queue[s].total_pending + n
        /\ queue'[s].total_claimed = queue[s].total_claimed
        /\ queue'[s].total_fees = queue[s].total_fees
    BY <1>8, <2>6 DEF Enqueued, QueueRecord
  <2>8. /\ reserve'[s].pending_redemption = reserve[s].pending_redemption + n
        /\ reserve'[s].total_redeemed = reserve[s].total_redeemed
    BY <1>8, <2>6 DEF ReserveRecord
  <2>9. queue[s].tail \in Nat /\ queue[s].head \in Nat /\ queue[s].pending_tickets \in Nat
    BY <2>6 DEF QueueRecord, U64
  <2>10. queue'[s].pending_tickets = queue'[s].tail - queue'[s].head
    BY <2>1, <2>7, <2>9 DEF StopeBook
  <2>11. /\ TicketsIn(s)' = TicketsIn(s) \cup {a} /\ QueuedIn(s)' = QueuedIn(s) \cup {a}
         /\ ClaimedIn(s)' = ClaimedIn(s)
    BY <1>7
  <2> QED
    BY <2>1, <2>3, <2>5, <2>7, <2>8, <2>10, <2>11, Zenon DEF StopeBook
<1>12. PositionBook(s, o)'
  <2> DEFINE Q == QueuedIn(s) \cap OwnedBy(o)
             C == ClaimedIn(s) \cap OwnedBy(o)
  <2>1. PositionBook(s, o)
    BY DEF BooksInv
  <2>2. IsFiniteSet(Q) /\ IsFiniteSet(C)
    BY <1>4, TicketSetsFinite
  <2>3. Q \subseteq DOMAIN ticket /\ C \subseteq DOMAIN ticket
    BY DEF QueuedIn, ClaimedIn, TicketsIn
  <2>4. /\ AmountsOf(ticket', Q \cup {a}) = AmountsOf(ticket, Q) + n
        /\ AmountsOf(ticket', C) = AmountsOf(ticket, C)
    <3> HIDE DEF Q, C
    <3> QED BY <1>10, <2>2, <2>3
  <2>5. (QueuedIn(s) \cap OwnedBy(o))' = Q \cup {a}
    BY <1>7
  <2>6. (ClaimedIn(s) \cap OwnedBy(o))' = C
    BY <1>6, <1>7
  <2> QED
    BY <1>9, <2>1, <2>4, <2>5, <2>6, Zenon DEF PositionBook
<1>13. ASSUME NEW r \in Stope, r # s PROVE StopeBook(r)'
  BY <1>4, <1>5, <1>7, <1>8, <1>13, StopeBookKept DEF BooksInv
<1>14. ASSUME NEW r \in Stope, NEW p \in Owner, ~ (r = s /\ p = o)
       PROVE  PositionBook(r, p)'
  <2>1. (QueuedIn(r) \cap OwnedBy(p))' = QueuedIn(r) \cap OwnedBy(p)
    BY <1>6, <1>7, <1>14
  <2>2. (ClaimedIn(r) \cap OwnedBy(p))' = ClaimedIn(r) \cap OwnedBy(p)
    BY <1>6, <1>7
  <2>3. position'[r][p] = position[r][p]
    BY <1>9, <1>14
  <2> QED BY <1>4, <1>5, <2>1, <2>2, <2>3, PositionBookKept DEF BooksInv
<1> QED
  BY <1>1, <1>4, <1>11, <1>12, <1>13, <1>14 DEF BooksInv

LEMMA SettleBooks ==
    ASSUME BooksInv, NEW a \in DOMAIN ticket, Settle(a),
           NEW o, o = ticket[a].owner, NEW s, s = ticket[a].stope_id,
           NEW n, n = ticket[a].terms.normalized_amount,
           NEW fee, fee = ticket[a].terms.fee_normalized
    PROVE  /\ \A r \in Stope : StopeBook(r)'
           /\ \A r \in Stope, p \in Owner : PositionBook(r, p)'
<1>1. TypeOK /\ IsFiniteSet(DOMAIN ticket)
  BY DEF BooksInv, OrderInv
<1>2. Claimed(a)
  BY <1>1, SettleEffect
<1>3. /\ ticket[a] \in TicketRecord /\ o \in Owner /\ s \in Stope
      /\ n \in Nat /\ fee \in Nat
  BY <1>1 DEF TypeOK, TicketRecord, U64
<1>4. /\ ticket'[a].owner = o /\ ticket'[a].stope_id = s
      /\ ticket'[a].terms = ticket[a].terms /\ ticket'[a].status = "Claimed"
  BY <1>2, <1>3 DEF Claimed, TicketRecord
<1>5. /\ DOMAIN ticket' = DOMAIN ticket
      /\ \A b \in DOMAIN ticket : b # a => ticket'[b] = ticket[b]
      /\ ticket[a].status = "Queued"
  BY <1>2 DEF Claimed
<1>6. \A b \in DOMAIN ticket : /\ ticket'[b].terms = ticket[b].terms
                               /\ ticket[b].terms \in TicketTerms
  BY <1>1, <1>4, <1>5 DEF TypeOK, TicketRecord
<1>7. /\ a \in QueuedIn(s) /\ a \in TicketsIn(s) /\ a \in OwnedBy(o)
      /\ \A r : a \notin ClaimedIn(r)
      /\ \A r : r # s => a \notin QueuedIn(r)
      /\ \A p : p # o => a \notin OwnedBy(p)
  BY <1>5 DEF QueuedIn, ClaimedIn, TicketsIn, OwnedBy
<1>8. /\ \A r : TicketsIn(r)' = TicketsIn(r)
      /\ \A r : QueuedIn(r)' = QueuedIn(r) \ {a}
      /\ \A r : ClaimedIn(r)' = IF r = s THEN ClaimedIn(r) \cup {a} ELSE ClaimedIn(r)
      /\ \A p : OwnedBy(p)' = OwnedBy(p)
  <2>1. \A r : TicketsIn(r)' = TicketsIn(r)
    BY <1>4, <1>5 DEF TicketsIn
  <2>2. \A r : QueuedIn(r)' = QueuedIn(r) \ {a}
    BY <1>4, <1>5, <2>1 DEF QueuedIn, TicketsIn
  <2>3. \A r : ClaimedIn(r)' = IF r = s THEN ClaimedIn(r) \cup {a} ELSE ClaimedIn(r)
    BY <1>4, <1>5, <2>1 DEF ClaimedIn, TicketsIn
  <2>4. \A p : OwnedBy(p)' = OwnedBy(p)
    BY <1>4, <1>5 DEF OwnedBy
  <2> QED BY <2>1, <2>2, <2>3, <2>4
<1>9. /\ queue'[s] = Dequeued(queue[s], n, fee)
      /\ \A r \in Stope : r # s => queue'[r] = queue[r]
  <2>1. queue' = [queue EXCEPT ![s] = Dequeued(@, n, fee)]
    BY Zenon DEF Settle
  <2>2. queue \in [Stope -> QueueRecord]
    BY <1>1 DEF TypeOK, QueueRecord
  <2> QED BY <1>3, <2>1, <2>2
<1>10. /\ reserve'[s].pending_redemption = SaturatingSub(reserve[s].pending_redemption, n)
       /\ reserve'[s].total_redeemed = reserve[s].total_redeemed + n
       /\ \A r \in Stope : r # s => reserve'[r] = reserve[r]
  <2>1. reserve' = [reserve EXCEPT
                ![s].pending_redemption = SaturatingSub(@, n),
                ![s].total_redeemed = @ + n]
    BY Zenon DEF Settle
  <2>2. reserve \in [Stope -> ReserveRecord]
    BY <1>1 DEF TypeOK, ReserveRecord
  <2> QED BY <1>3, <2>1, <2>2, SMTT(30) DEF ReserveRecord
<1>11. /\ position'[s][o].pending_redemption
                = SaturatingSub(position[s][o].pending_redemption, n)
       /\ position'[s][o].withdrawn = position[s][o].withdrawn + n
       /\ \A r \in Stope, p \in Owner : ~ (r = s /\ p = o) =>
            position'[r][p] = position[r][p]
  <2>1. position' = [position EXCEPT
                ![s][o].pending_redemption = SaturatingSub(@, n),
                ![s][o].withdrawn = @ + n]
    BY Zenon DEF Settle
  <2>2. position \in [Stope -> [Owner -> PositionRecord]]
    BY <1>1 DEF TypeOK, PositionRecord
  <2>3. position[s] \in [Owner -> PositionRecord] /\ position[s][o] \in PositionRecord
    BY <1>3, <2>2
  <2>4. position' = [position EXCEPT ![s] = [position[s] EXCEPT ![o] =
                [position[s][o] EXCEPT
                    !.pending_redemption = SaturatingSub(@, n),
                    !.withdrawn = @ + n]]]
    BY <1>3, <2>1, <2>2, <2>3, ZenonT(60) DEF PositionRecord
  <2>5. position'[s][o] = [position[s][o] EXCEPT
                    !.pending_redemption = SaturatingSub(@, n),
                    !.withdrawn = @ + n]
    BY <1>3, <2>2, <2>3, <2>4
  <2>6. \A r \in Stope, p \in Owner : ~ (r = s /\ p = o) =>
            position'[r][p] = position[r][p]
    BY <1>3, <2>2, <2>3, <2>4
  <2> QED BY <2>3, <2>5, <2>6 DEF PositionRecord
<1>12. ASSUME NEW A, IsFiniteSet(A), A \subseteq DOMAIN ticket, a \in A
       PROVE  /\ AmountsOf(ticket', A \ {a}) \in Nat
              /\ AmountsOf(ticket, A) = AmountsOf(ticket', A \ {a}) + n
  <2> DEFINE B == A \ {a}
  <2>1. IsFiniteSet(B) /\ a \notin B /\ B \cup {a} = A /\ B \subseteq DOMAIN ticket
    BY <1>12, FS_RemoveElement
  <2>2. \A b \in A : /\ ticket[b].terms.normalized_amount \in Nat
                     /\ ticket[b].terms.fee_normalized \in Nat
    <3>1. \A b \in A : ticket[b].terms \in TicketTerms
      BY <1>6, <1>12
    <3> QED BY <3>1 DEF U64
  <2> HIDE DEF B
  <2>3. /\ AmountsOf(ticket, B \cup {a}) = AmountsOf(ticket, B) + n
        /\ AmountsOf(ticket, B) \in Nat
    BY <2>1, <2>2, SumsPlusOne
  <2>4. AmountsOf(ticket', B) = AmountsOf(ticket, B)
    BY <1>6, <2>1, SumsKept
  <2> QED BY <2>1, <2>3, <2>4 DEF B
<1>13. ASSUME NEW A, IsFiniteSet(A), A \subseteq DOMAIN ticket, a \notin A
       PROVE  /\ AmountsOf(ticket', A \cup {a}) = AmountsOf(ticket, A) + n
              /\ FeesOf(ticket', A \cup {a}) = FeesOf(ticket, A) + fee
  <2>1. \A b \in A \cup {a} : /\ ticket[b].terms.normalized_amount \in Nat
                              /\ ticket[b].terms.fee_normalized \in Nat
    <3>1. \A b \in A \cup {a} : ticket[b].terms \in TicketTerms
      BY <1>6, <1>13
    <3> QED BY <3>1 DEF U64
  <2>2. /\ AmountsOf(ticket, A \cup {a}) = AmountsOf(ticket, A) + n
        /\ FeesOf(ticket, A \cup {a}) = FeesOf(ticket, A) + fee
    BY <1>13, <2>1, SumsPlusOne
  <2> DEFINE B == A \cup {a}
  <2>3. IsFiniteSet(B) /\ \A b \in B : ticket'[b].terms = ticket[b].terms
    BY <1>6, <1>13, FS_AddElement
  <2> HIDE DEF B
  <2>4. AmountsOf(ticket', B) = AmountsOf(ticket, B) /\ FeesOf(ticket', B) = FeesOf(ticket, B)
    BY <2>3, SumsKept
  <2> QED BY <2>2, <2>4 DEF B
<1>14. StopeBook(s)'
  <2> DEFINE Q == QueuedIn(s)
             C == ClaimedIn(s)
             T == TicketsIn(s)
  <2>1. StopeBook(s)
    BY <1>3 DEF BooksInv
  <2>2. IsFiniteSet(T) /\ IsFiniteSet(Q) /\ IsFiniteSet(C)
    BY <1>1, TicketSetsFinite
  <2>3. /\ Q \subseteq DOMAIN ticket /\ C \subseteq DOMAIN ticket
        /\ C \cup {a} \subseteq T /\ a \in Q /\ a \notin C
    BY <1>7 DEF QueuedIn, ClaimedIn, TicketsIn
  <2>4. queue[s] \in QueueRecord /\ reserve[s] \in ReserveRecord
    BY <1>1, <1>3 DEF TypeOK, QueueRecord, ReserveRecord
  <2>5. /\ TicketsIn(s)' = T /\ QueuedIn(s)' = Q \ {a} /\ ClaimedIn(s)' = C \cup {a}
    BY <1>8
  <2>6. /\ queue[s].tail = Cardinality(T) /\ queue[s].head = Cardinality(C)
        /\ queue[s].pending_tickets = queue[s].tail - queue[s].head
        /\ queue[s].total_pending = AmountsOf(ticket, Q)
        /\ queue[s].total_claimed = AmountsOf(ticket, C)
        /\ queue[s].total_fees = FeesOf(ticket, C)
        /\ reserve[s].pending_redemption = AmountsOf(ticket, Q)
        /\ reserve[s].total_redeemed = AmountsOf(ticket, C)
    BY <2>1, Zenon DEF StopeBook
  <2>7. /\ queue'[s].tail = queue[s].tail
        /\ queue'[s].head = queue[s].head + 1
        /\ queue'[s].pending_tickets = SaturatingSub(queue[s].pending_tickets, 1)
        /\ queue'[s].total_pending = SaturatingSub(queue[s].total_pending, n)
        /\ queue'[s].total_claimed = queue[s].total_claimed + n
        /\ queue'[s].total_fees = queue[s].total_fees + fee
    BY <1>9, <2>4 DEF Dequeued, QueueRecord
  <2>8. queue[s].tail \in Nat /\ queue[s].head \in Nat /\ queue[s].pending_tickets \in Nat
    BY <2>4 DEF QueueRecord, U64
  <2> HIDE DEF Q, C, T
  <2>9. /\ Cardinality(C \cup {a}) = Cardinality(C) + 1
        /\ Cardinality(C \cup {a}) <= Cardinality(T)
    <3>1. IsFiniteSet(C \cup {a}) /\ Cardinality(C \cup {a}) = Cardinality(C) + 1
      BY <2>2, <2>3, FS_AddElement
    <3> QED BY <2>2, <2>3, <3>1, FS_Subset
  <2>10. /\ AmountsOf(ticket', Q \ {a}) \in Nat
         /\ AmountsOf(ticket, Q) = AmountsOf(ticket', Q \ {a}) + n
    BY <1>12, <2>2, <2>3
  <2>11. /\ AmountsOf(ticket', C \cup {a}) = AmountsOf(ticket, C) + n
         /\ FeesOf(ticket', C \cup {a}) = FeesOf(ticket, C) + fee
    BY <1>13, <2>2, <2>3
  <2>12. queue'[s].pending_tickets = queue'[s].tail - queue'[s].head
    BY <2>6, <2>7, <2>8, <2>9 DEF SaturatingSub
  <2>13. /\ SaturatingSub(queue[s].total_pending, n) = AmountsOf(ticket', Q \ {a})
         /\ SaturatingSub(reserve[s].pending_redemption, n) = AmountsOf(ticket', Q \ {a})
    <3> DEFINE x == AmountsOf(ticket', Q \ {a})
               y == AmountsOf(ticket, Q)
    <3>1. x \in Nat /\ y = x + n
      BY <2>10
    <3> HIDE DEF x, y
    <3>2. SaturatingSub(y, n) = x
      BY <1>3, <3>1 DEF SaturatingSub
    <3> QED BY <2>6, <3>2, Zenon DEF x, y
  <2> QED
    BY <1>10, <2>5, <2>6, <2>7, <2>9, <2>11, <2>12, <2>13, Zenon DEF StopeBook
<1>15. PositionBook(s, o)'
  <2> DEFINE Q == QueuedIn(s) \cap OwnedBy(o)
             C == ClaimedIn(s) \cap OwnedBy(o)
  <2>1. /\ position[s][o].pending_redemption = AmountsOf(ticket, Q)
        /\ position[s][o].withdrawn = AmountsOf(ticket, C)
    BY <1>3, Zenon DEF BooksInv, PositionBook
  <2>2. IsFiniteSet(Q) /\ IsFiniteSet(C)
    BY <1>1, TicketSetsFinite
  <2>3. /\ Q \subseteq DOMAIN ticket /\ C \subseteq DOMAIN ticket
        /\ a \in Q /\ a \notin C
    BY <1>7 DEF QueuedIn, ClaimedIn, TicketsIn
  <2>4. /\ (QueuedIn(s) \cap OwnedBy(o))' = Q \ {a}
        /\ (ClaimedIn(s) \cap OwnedBy(o))' = C \cup {a}
    BY <1>7, <1>8
  <2> HIDE DEF Q, C
  <2>5. /\ AmountsOf(ticket', Q \ {a}) \in Nat
        /\ AmountsOf(ticket, Q) = AmountsOf(ticket', Q \ {a}) + n
    BY <1>12, <2>2, <2>3
  <2>6. AmountsOf(ticket', C \cup {a}) = AmountsOf(ticket, C) + n
    BY <1>13, <2>2, <2>3
  <2>7. SaturatingSub(AmountsOf(ticket, Q), n) = AmountsOf(ticket', Q \ {a})
    <3> DEFINE x == AmountsOf(ticket', Q \ {a})
               y == AmountsOf(ticket, Q)
    <3>1. x \in Nat /\ y = x + n
      BY <2>5
    <3> HIDE DEF x, y
    <3>2. SaturatingSub(y, n) = x
      BY <1>3, <3>1 DEF SaturatingSub
    <3> QED BY <3>2, Zenon DEF x, y
  <2> QED
    BY <1>11, <2>1, <2>4, <2>6, <2>7, Zenon DEF PositionBook
<1>16. ASSUME NEW r \in Stope, r # s PROVE StopeBook(r)'
  <2>1. QueuedIn(r)' = QueuedIn(r)
    BY <1>7, <1>8, <1>16
  <2>2. TicketsIn(r)' = TicketsIn(r) /\ ClaimedIn(r)' = ClaimedIn(r)
    BY <1>8, <1>16
  <2>3. queue'[r] = queue[r] /\ reserve'[r] = reserve[r]
    BY <1>9, <1>10, <1>16
  <2> QED BY <1>1, <1>6, <2>1, <2>2, <2>3, StopeBookKept DEF BooksInv
<1>17. ASSUME NEW r \in Stope, NEW p \in Owner, ~ (r = s /\ p = o)
       PROVE  PositionBook(r, p)'
  <2>1. (QueuedIn(r) \cap OwnedBy(p))' = QueuedIn(r) \cap OwnedBy(p)
    BY <1>7, <1>8, <1>17
  <2>2. (ClaimedIn(r) \cap OwnedBy(p))' = ClaimedIn(r) \cap OwnedBy(p)
    BY <1>7, <1>8, <1>17
  <2>3. position'[r][p] = position[r][p]
    BY <1>11, <1>17
  <2> QED BY <1>1, <1>6, <2>1, <2>2, <2>3, PositionBookKept DEF BooksInv
<1> QED
  BY <1>14, <1>15, <1>16, <1>17

LEMMA NextBooks == BooksInv /\ [Next]_vars => BooksInv'
<1> SUFFICES ASSUME BooksInv, [Next]_vars PROVE BooksInv'
  OBVIOUS
<1>1. OrderInv'
  BY NextOrder DEF BooksInv
<1>2. TypeOK
  BY DEF BooksInv, OrderInv
<1>3. ASSUME UNCHANGED <<ticket, queue, position, reserve>> PROVE BooksInv'
  <2>1. \A s, o : /\ TicketsIn(s)' = TicketsIn(s) /\ QueuedIn(s)' = QueuedIn(s)
                  /\ ClaimedIn(s)' = ClaimedIn(s) /\ OwnedBy(o)' = OwnedBy(o)
    BY <1>3 DEF TicketsIn, QueuedIn, ClaimedIn, OwnedBy
  <2>2. \A s \in Stope, o \in Owner : PositionBook(s, o) <=> PositionBook(s, o)'
    BY <1>3, <2>1, Zenon DEF PositionBook
  <2>3. \A s \in Stope : StopeBook(s) <=> StopeBook(s)'
    BY <1>3, <2>1, Zenon DEF StopeBook
  <2> QED BY <1>1, <1>3, <2>2, <2>3 DEF BooksInv
<1>4. CASE UNCHANGED vars
  BY <1>3, <1>4 DEF vars
<1>5. CASE Tick
  BY <1>3, <1>5 DEF Tick
<1>6. ASSUME NEW o \in Owner, NEW s \in Stope, NEW terms \in TicketTerms,
             Issue(o, s, terms)
      PROVE  BooksInv'
  BY <1>6, IssueBooks
<1>7. ASSUME NEW a \in DOMAIN ticket, Settle(a) PROVE BooksInv'
  <2>1. DOMAIN ticket' = DOMAIN ticket
    BY <1>2, <1>7, SettleEffect DEF Claimed
  <2> QED BY <1>1, <1>7, <2>1, SettleBooks DEF BooksInv
<1> QED
  BY <1>4, <1>5, <1>6, <1>7 DEF Next

LEMMA BooksInvariant == Spec => []BooksInv
BY InitBooks, NextBooks, PTL DEF Spec

(***************************************************************************)
(* Every running total that request_redemption and claim_redemption keep,  *)
(* in the queue, in the stope and in each position, is the sum over the    *)
(* tickets it stands for: what one handler adds the other takes off again, *)
(* and no saturating_sub on the claim path ever saturates.                 *)
(***************************************************************************)
THEOREM BooksAlwaysMatch == Spec => []BooksMatchTickets
<1>1. BooksInv => BooksMatchTickets
  BY BooksAreBooks DEF BooksInv
<1> QED
  BY <1>1, BooksInvariant, PTL

-----------------------------------------------------------------------------
(***************************************************************************)
(* The wait.  A shorter backlog never makes a longer wait.                 *)
(***************************************************************************)
LEMMA DelayMonotone ==
    ASSUME NEW x \in Nat, NEW y \in Nat, x <= y
    PROVE  TotalDelay(x) <= TotalDelay(y)
<1>1. /\ x * SECONDS_PER_DAY \in Nat /\ y * SECONDS_PER_DAY \in Nat
      /\ x * SECONDS_PER_DAY <= y * SECONDS_PER_DAY
  BY SMT
<1>2. /\ Congestion(x) \in Nat /\ Congestion(y) \in Nat
      /\ Congestion(x) <= Congestion(y)
  BY <1>1, QuotientMonotone, DivBounds DEF Congestion, QueueDelaySec
<1> QED
  BY <1>2 DEF TotalDelay, AtMost

WaitInv == BooksInv /\ WaitCoversBacklog

(***************************************************************************)
(* It is enough that no ticket's backlog grows once it was issued.         *)
(***************************************************************************)
LEMMA ShorterQueueKeepsWait ==
    ASSUME NEW c \in DOMAIN ticket, TypeOK, WaitCoversBacklog,
           AmountsOf(ticket', Ahead(c)') \in Nat, AmountsOf(ticket, Ahead(c)) \in Nat,
           AmountsOf(ticket', Ahead(c)') <= AmountsOf(ticket, Ahead(c)),
           ticket'[c].claimable_at = ticket[c].claimable_at,
           ticket'[c].requested_at = ticket[c].requested_at
    PROVE  ticket'[c].claimable_at - ticket'[c].requested_at
                >= TotalDelay(AmountsOf(ticket', Ahead(c)'))
<1> DEFINE x == AmountsOf(ticket', Ahead(c)')
           y == AmountsOf(ticket, Ahead(c))
<1>1. x \in Nat /\ y \in Nat /\ x <= y
  OBVIOUS
<1>2. ticket[c].claimable_at - ticket[c].requested_at >= TotalDelay(y)
  BY Zenon DEF WaitCoversBacklog, Normalized, AmountsOf
<1>3. ticket[c].claimable_at \in Int /\ ticket[c].requested_at \in Int
  BY DEF TypeOK, TicketRecord
<1> HIDE DEF x, y
<1>4. TotalDelay(x) <= TotalDelay(y)
  BY <1>1, DelayMonotone
<1>5. TotalDelay(x) \in Int /\ TotalDelay(y) \in Int
  <2>1. x * SECONDS_PER_DAY \in Nat /\ y * SECONDS_PER_DAY \in Nat
    BY <1>1, SMT
  <2> QED BY <2>1, DivBounds DEF TotalDelay, AtMost, Congestion, QueueDelaySec
<1>6. ticket'[c].claimable_at - ticket'[c].requested_at >= TotalDelay(x)
  BY <1>2, <1>3, <1>4, <1>5
<1> QED BY <1>6 DEF x

LEMMA AheadFinite ==
    ASSUME BooksInv, NEW c \in DOMAIN ticket
    PROVE  /\ Ahead(c) \subseteq DOMAIN ticket /\ IsFiniteSet(Ahead(c))
           /\ \A b \in DOMAIN ticket : /\ ticket[b].terms \in TicketTerms
                                       /\ ticket[b].queue_position \in Nat
                                       /\ ticket[b].stope_id \in Stope
           /\ \A A \in SUBSET DOMAIN ticket : AmountsOf(ticket, A) \in Nat
<1>1. Ahead(c) \subseteq DOMAIN ticket
  BY DEF Ahead, QueuedIn, TicketsIn
<1>2. IsFiniteSet(DOMAIN ticket) /\ TypeOK
  BY DEF BooksInv, OrderInv
<1>3. IsFiniteSet(Ahead(c))
  BY <1>1, <1>2, FS_Subset
<1>4. \A b \in DOMAIN ticket : /\ ticket[b].terms \in TicketTerms
                               /\ ticket[b].queue_position \in Nat
                               /\ ticket[b].stope_id \in Stope
  BY <1>2 DEF TypeOK, TicketRecord, U64
<1>5. ASSUME NEW A \in SUBSET DOMAIN ticket PROVE AmountsOf(ticket, A) \in Nat
  <2> DEFINE f == [b \in A |-> ticket[b].terms.normalized_amount]
  <2>1. f \in [A -> Nat]
    BY <1>4 DEF U64
  <2>2. IsFiniteSet(A)
    BY <1>2, FS_Subset
  <2> HIDE DEF f
  <2>3. SumFunctionOnSet(f, A) \in Nat
    BY <2>1, <2>2, SumType
  <2> QED BY <2>3 DEF AmountsOf, f
<1> QED BY <1>1, <1>3, <1>4, <1>5

LEMMA IssueWait ==
    ASSUME WaitInv, NEW o \in Owner, NEW s \in Stope, NEW terms \in TicketTerms,
           Issue(o, s, terms)
    PROVE  WaitCoversBacklog'
<1> SUFFICES ASSUME NEW c \in DOMAIN ticket'
             PROVE  ticket'[c].claimable_at - ticket'[c].requested_at
                        >= TotalDelay(AmountsOf(ticket', Ahead(c)'))
  BY Zenon DEF WaitCoversBacklog, Normalized, AmountsOf
<1> DEFINE a == TicketAddress(o, s, position[s][o].ticket_count)
           t == IssuedTicket(o, s, terms)
           tail == queue[s].tail
<1>1. /\ a \notin DOMAIN ticket
      /\ DOMAIN ticket' = DOMAIN ticket \cup {a}
      /\ \A b \in DOMAIN ticket : ticket'[b] = ticket[b]
      /\ ticket'[a] = t
  BY IssueEffect DEF Issued
<1>2. /\ t.stope_id = s /\ t.status = "Queued" /\ t.queue_position = tail
      /\ t.requested_at = now
      /\ t.claimable_at = now + TotalDelay(queue[s].total_pending)
  BY DEF IssuedTicket
<1>3. /\ TypeOK /\ now \in Nat /\ tail \in Nat /\ queue[s].total_pending \in U64
      /\ BooksInv /\ WaitCoversBacklog
  <2>1. TypeOK /\ BooksInv /\ WaitCoversBacklog
    BY DEF WaitInv, BooksInv, OrderInv
  <2> QED BY <2>1, CounterTypes DEF TypeOK
<1>4. \A b \in TicketsIn(s) : ticket[b].queue_position \in 0..(tail - 1)
  BY <1>3 DEF BooksInv, OrderInv, PositionsFollowIssueOrder
<1> HIDE DEF a, t, tail
<1>5. CASE c = a
  <2>1. Ahead(c)' = QueuedIn(s)
    <3>1. \A b \in QueuedIn(s) : ticket[b].queue_position < tail
      BY <1>3, <1>4 DEF QueuedIn
    <3>2. Ahead(c)' = {b \in QueuedIn(s)' : ticket'[b].queue_position < tail}
      BY <1>1, <1>2, <1>5 DEF Ahead
    <3>3. QueuedIn(s)' = QueuedIn(s) \cup {a}
      BY <1>1, <1>2 DEF QueuedIn, TicketsIn
    <3>4. ~ (tail < tail)
      BY <1>3
    <3>5. \A b \in QueuedIn(s) : ticket'[b].queue_position = ticket[b].queue_position
      BY <1>1 DEF QueuedIn, TicketsIn
    <3> QED BY <1>1, <1>2, <3>1, <3>2, <3>3, <3>4, <3>5
  <2>2. AmountsOf(ticket', QueuedIn(s)) = AmountsOf(ticket, QueuedIn(s))
    <3>1. IsFiniteSet(QueuedIn(s))
      BY <1>3, TicketSetsFinite DEF BooksInv
    <3>2. \A b \in QueuedIn(s) : ticket'[b].terms = ticket[b].terms
      BY <1>1 DEF QueuedIn, TicketsIn
    <3> QED BY <3>1, <3>2, SumsKept
  <2>3. AmountsOf(ticket, QueuedIn(s)) = queue[s].total_pending
    BY <1>3 DEF BooksInv, StopeBook
  <2>4. TotalDelay(queue[s].total_pending) \in Nat
    BY <1>3, WaitBounds
  <2>5. t.claimable_at - t.requested_at >= TotalDelay(queue[s].total_pending)
    BY <1>2, <1>3, <2>4
  <2> QED BY <1>1, <1>5, <2>1, <2>2, <2>3, <2>5
<1>6. CASE c # a
  <2>1. c \in DOMAIN ticket /\ ticket'[c] = ticket[c]
    BY <1>1, <1>6
  <2>2. Ahead(c)' = Ahead(c)
    <3> DEFINE r == ticket[c].stope_id
               place == ticket[c].queue_position
    <3>1. place \in Nat /\ r \in Stope
      BY <1>3, <2>1, AheadFinite
    <3>2. r = s => place < tail
      <4>1. c \in TicketsIn(r)
        BY <2>1 DEF TicketsIn
      <4> QED BY <1>3, <1>4, <4>1
    <3>3. \A b : b \in Ahead(c) <=>
            /\ b \in DOMAIN ticket /\ ticket[b].stope_id = r
            /\ ticket[b].status = "Queued" /\ ticket[b].queue_position < place
      BY DEF Ahead, QueuedIn, TicketsIn
    <3>4. \A b : b \in Ahead(c)' <=>
            /\ b \in DOMAIN ticket' /\ ticket'[b].stope_id = ticket'[c].stope_id
            /\ ticket'[b].status = "Queued"
            /\ ticket'[b].queue_position < ticket'[c].queue_position
      BY DEF Ahead, QueuedIn, TicketsIn
    <3> HIDE DEF r, place
    <3>5. ticket'[c].stope_id = r /\ ticket'[c].queue_position = place
      BY <2>1 DEF r, place
    <3>6. a \notin Ahead(c)'
      <4>1. SUFFICES ASSUME a \in Ahead(c)' PROVE FALSE
        OBVIOUS
      <4>2. s = r /\ tail < place
        BY <1>1, <1>2, <3>4, <3>5, <4>1
      <4> QED BY <1>3, <3>1, <3>2, <4>2
    <3>7. \A b : b \in Ahead(c)' <=> b \in Ahead(c)
      <4> SUFFICES ASSUME NEW b PROVE b \in Ahead(c)' <=> b \in Ahead(c)
        OBVIOUS
      <4>1. CASE b = a
        BY <1>1, <3>3, <3>6, <4>1
      <4>2. CASE b # a
        BY <1>1, <3>3, <3>4, <3>5, <4>2
      <4> QED BY <4>1, <4>2
    <3>8. /\ \A b \in Ahead(c)' : b \in Ahead(c)
          /\ \A b \in Ahead(c) : b \in Ahead(c)'
      BY <3>7
    <3> QED BY <3>8
  <2>3. Ahead(c) \subseteq DOMAIN ticket /\ IsFiniteSet(Ahead(c))
    BY <1>3, <2>1, AheadFinite
  <2>4. \A b \in Ahead(c) : ticket'[b].terms = ticket[b].terms
    BY <1>1, <2>3
  <2>5. AmountsOf(ticket', Ahead(c)') = AmountsOf(ticket, Ahead(c))
    BY <2>2, <2>3, <2>4, SumsKept
  <2>6. AmountsOf(ticket, Ahead(c)) \in Nat
    BY <1>3, <2>1, <2>3, AheadFinite
  <2>7. AmountsOf(ticket', Ahead(c)') <= AmountsOf(ticket, Ahead(c))
    BY <2>5, <2>6
  <2> QED BY <1>3, <2>1, <2>5, <2>6, <2>7, ShorterQueueKeepsWait
<1> QED BY <1>5, <1>6

LEMMA SettleWait ==
    ASSUME WaitInv, NEW a \in DOMAIN ticket, Settle(a)
    PROVE  WaitCoversBacklog'
<1> SUFFICES ASSUME NEW c \in DOMAIN ticket'
             PROVE  ticket'[c].claimable_at - ticket'[c].requested_at
                        >= TotalDelay(AmountsOf(ticket', Ahead(c)'))
  BY Zenon DEF WaitCoversBacklog, Normalized, AmountsOf
<1>1. TypeOK /\ BooksInv /\ WaitCoversBacklog
  BY DEF WaitInv, BooksInv, OrderInv
<1>2. Claimed(a)
  BY <1>1, SettleEffect
<1>3. ticket[a] \in TicketRecord
  BY <1>1 DEF TypeOK
<1>4. /\ DOMAIN ticket' = DOMAIN ticket /\ ticket[a].status = "Queued"
      /\ \A b \in DOMAIN ticket : b # a => ticket'[b] = ticket[b]
      /\ ticket'[a].status = "Claimed"
      /\ \A b \in DOMAIN ticket :
            /\ ticket'[b].stope_id = ticket[b].stope_id
            /\ ticket'[b].queue_position = ticket[b].queue_position
            /\ ticket'[b].terms = ticket[b].terms
            /\ ticket'[b].claimable_at = ticket[b].claimable_at
            /\ ticket'[b].requested_at = ticket[b].requested_at
  <2>1. /\ ticket'[a].status = "Claimed"
        /\ ticket'[a].stope_id = ticket[a].stope_id
        /\ ticket'[a].queue_position = ticket[a].queue_position
        /\ ticket'[a].terms = ticket[a].terms
        /\ ticket'[a].claimable_at = ticket[a].claimable_at
        /\ ticket'[a].requested_at = ticket[a].requested_at
    BY <1>2, <1>3 DEF Claimed, TicketRecord
  <2> QED BY <1>2, <2>1 DEF Claimed
<1>5. c \in DOMAIN ticket
  BY <1>4
<1>6. Ahead(c)' = Ahead(c) \ {a}
  BY <1>4, <1>5 DEF Ahead, QueuedIn, TicketsIn
<1>7. Ahead(c) \subseteq DOMAIN ticket /\ IsFiniteSet(Ahead(c))
  BY <1>1, <1>5, AheadFinite
<1> DEFINE A == Ahead(c)
           B == Ahead(c) \ {a}
<1>8. IsFiniteSet(B) /\ B \subseteq DOMAIN ticket /\ a \notin B
  BY <1>7, FS_RemoveElement
<1>9. A = B \/ A = B \cup {a}
  OBVIOUS
<1>10. A \subseteq DOMAIN ticket
  BY <1>7
<1>11. Ahead(c)' = B
  BY <1>6
<1> HIDE DEF A, B
<1>12. AmountsOf(ticket, A) \in Nat /\ AmountsOf(ticket, B) \in Nat
  BY <1>1, <1>5, <1>8, <1>10, AheadFinite
<1>13. AmountsOf(ticket', B) = AmountsOf(ticket, B)
  BY <1>4, <1>8, SumsKept
<1>14. AmountsOf(ticket, B) <= AmountsOf(ticket, A)
  <2>1. CASE A = B
    BY <1>12, <2>1
  <2>2. CASE A = B \cup {a}
    <3>1. \A b \in B \cup {a} : /\ ticket[b].terms.normalized_amount \in Nat
                                /\ ticket[b].terms.fee_normalized \in Nat
      <4>1. \A b \in B \cup {a} : ticket[b].terms \in TicketTerms
        BY <1>1, <1>5, <1>8, AheadFinite
      <4> QED BY <4>1 DEF U64
    <3>2. AmountsOf(ticket, B \cup {a})
            = AmountsOf(ticket, B) + ticket[a].terms.normalized_amount
      BY <1>8, <3>1, SumsPlusOne
    <3> QED BY <1>12, <2>2, <3>1, <3>2
  <2> QED BY <1>9, <2>1, <2>2
<1> QED
  BY <1>1, <1>4, <1>5, <1>11, <1>12, <1>13, <1>14, ShorterQueueKeepsWait DEF A

(***************************************************************************)
(* Nobody waits less than the backlog in front of him asks for, up to the  *)
(* ceiling: requests never put a ticket ahead of an older one of the same  *)
(* stope, and claims of other tickets only shorten what is ahead.          *)
(***************************************************************************)
THEOREM WaitAlwaysCoversBacklog == Spec => []WaitCoversBacklog
<1>1. Init => WaitInv
  <2>1. Init => WaitCoversBacklog
    BY DEF Init, WaitCoversBacklog
  <2> QED BY <2>1, InitBooks DEF WaitInv
<1>2. WaitInv /\ [Next]_vars => WaitInv'
  <2> SUFFICES ASSUME WaitInv, [Next]_vars PROVE WaitInv'
    OBVIOUS
  <2>1. BooksInv'
    BY NextBooks DEF WaitInv
  <2>2. ASSUME ticket' = ticket PROVE WaitCoversBacklog'
    <3>1. \A c : Ahead(c)' = Ahead(c)
      BY <2>2 DEF Ahead, QueuedIn, TicketsIn
    <3> QED BY <2>2, <3>1, Zenon DEF WaitInv, WaitCoversBacklog, Normalized
  <2>3. CASE UNCHANGED vars
    BY <2>1, <2>2, <2>3 DEF WaitInv, vars
  <2>4. CASE Tick
    BY <2>1, <2>2, <2>4 DEF WaitInv, Tick
  <2>5. ASSUME NEW o \in Owner, NEW s \in Stope, NEW terms \in TicketTerms,
               Issue(o, s, terms)
        PROVE  WaitInv'
    BY <2>1, <2>5, IssueWait DEF WaitInv
  <2>6. ASSUME NEW a \in DOMAIN ticket, Settle(a) PROVE WaitInv'
    BY <2>1, <2>6, SettleWait DEF WaitInv
  <2> QED BY <2>3, <2>4, <2>5, <2>6 DEF Next
<1>3. WaitInv => WaitCoversBacklog
  BY DEF WaitInv
<1> QED
  BY <1>1, <1>2, <1>3, PTL DEF Spec
=============================================================================
