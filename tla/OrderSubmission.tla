---------------------------- MODULE OrderSubmission ----------------------------
(***************************************************************************)
(* submit_order of a broker_live session (gateway/order_submitter.py): an  *)
(* order is split into legs by the positions the broker reports, and each  *)
(* leg is placed under a client order id of its own; and the maps between  *)
(* client ids and broker ids (live/_runner.py), which the submitting       *)
(* thread writes after a placement and the draining threads write with     *)
(* every order event, also with late ones.                                 *)
(* Quantities are whole numbers.  A request brings its client order id;    *)
(* without one a fresh id is made, which no other request has.             *)
(***************************************************************************)
EXTENDS Naturals, FiniteSets

CONSTANTS
    ClientIds,      \* client order ids of requests
    Capabilities,   \* what brokers declare
    Answers,        \* what query_positions may say of the position to reduce
    Quantities,     \* quantities of requests
    MaxOrders       \* bound: orders at the venue

\* known: there is such a position, and the query did not raise; tells: the
\* broker tells how much of it is available, and from which day.
ASSUME AnswersType ==
    Answers \subseteq [known : BOOLEAN, held : Nat, tells : BOOLEAN,
                       available : Nat, today : Nat, yesterday : Nat]
ASSUME CapabilitiesType ==
    Capabilities \subseteq [details : BOOLEAN, splits : BOOLEAN, opens : BOOLEAN,
                            autoReverse : BOOLEAN]
ASSUME SubmissionBounds == Quantities \subseteq Nat /\ MaxOrders \in Nat

VARIABLES
    can,            \* BrokerCapability: what the broker declares
    call,           \* the submission in progress
    venue,          \* orders of the venue: leg id, and whether still working
    acked,          \* orders whose id place_order has returned
    toBroker,       \* _client_to_broker_order_ids; 0: no entry
    closed,         \* _closed_broker_order_ids
    reports,        \* order events queued: order, and whether final
    stale           \* leg ids an old order's event came for after a new one

submissionVars == <<can, call, venue, acked, toBroker, closed, reports, stale>>

-----------------------------------------------------------------------------
(* The legs: how much of the quantity has each position effect.  asked is    *)
(* the effect of the request, auto, open or close; a leg of nothing is none. *)

Min2(a, b) == IF a <= b THEN a ELSE b

NoLegs == [asked |-> 0, today |-> 0, yesterday |-> 0, close |-> 0, open |-> 0]
Total(legs) == legs.asked + legs.today + legs.yesterday + legs.close + legs.open

Single(q) == [NoLegs EXCEPT !.asked = q]

\* A variant for checking: what no leg covers is left out.
CloseLegsCovered(c, answer, q) ==
    LET t == Min2(q, answer.today)
        y == Min2(q - t, answer.yesterday) IN
    IF ~c.details \/ ~c.splits \/ ~answer.known
    THEN [NoLegs EXCEPT !.close = q]
    ELSE [NoLegs EXCEPT !.today = t, !.yesterday = y]

\* _split_close_legs: today's part, yesterday's part, and what neither covers.
CloseLegs(c, answer, q) ==
    IF ~c.details \/ ~c.splits \/ ~answer.known
    THEN [NoLegs EXCEPT !.close = q]
    ELSE LET covered == Min2(q, answer.today + answer.yesterday)
             t == Min2(covered, answer.today)
             y == Min2(covered - t, answer.yesterday) IN
         [NoLegs EXCEPT !.today = t, !.yesterday = y, !.close = q - covered]

\* How much of a position an order may close.
Closable(p) ==
    IF ~p.tells THEN p.held
    ELSE IF p.today + p.yesterday > 0 THEN p.today + p.yesterday ELSE p.available

\* resolve_live_order_legs: a closing order is split; an auto order beyond the
\* position closes it and opens the rest.  The positions are asked once for
\* the reversal and once more for the split: two answers.
OrderLegs(c, effect, reduceOnly, q, first, second) ==
    IF reduceOnly \/ effect = "open" THEN Single(q)
    ELSE IF effect = "close" THEN CloseLegs(c, second, q)
    ELSE IF c.autoReverse \/ ~c.opens \/ ~first.known THEN Single(q)
    ELSE IF Closable(first) = 0 \/ q <= Closable(first) THEN Single(q)
    ELSE [CloseLegs(c, second, Closable(first)) EXCEPT
             !.open = q - Closable(first)]

\* The order in which the legs are placed.
LegOrder == <<"asked", "today", "yesterday", "close", "open">>
LegNames == {"asked", "today", "yesterday", "close", "open"}

\* The legs of the call, as places in LegOrder, and those still to be placed.
CallLegs == {i \in DOMAIN LegOrder : call.legs[LegOrder[i]] > 0}
LegsLeft == {i \in CallLegs : i >= call.next}
NextLeg == CHOOSE i \in LegsLeft : \A j \in LegsLeft : i <= j

\* The client order id of a leg: the first has that of the request, a later
\* one also its effect and number.
LegId(i) ==
    LET n == Cardinality({j \in CallLegs : j <= i}) IN
    IF n = 1 THEN <<call.id, "first", 1>> ELSE <<call.id, LegOrder[i], n>>
LegIds == ClientIds \X (LegNames \cup {"first"}) \X (1..4)

-----------------------------------------------------------------------------
NoCall == [at |-> "idle", id |-> 0, quantity |-> 0, legs |-> NoLegs, next |-> 1,
           acked |-> {}]

SubmissionInit ==
    /\ can \in Capabilities
    /\ call = NoCall
    /\ venue = [o \in {} |-> 0] /\ acked = {}
    /\ toBroker = [l \in LegIds |-> 0]
    /\ closed = {} /\ reports = {} /\ stale = {}

OrderIds == DOMAIN venue
Working == {o \in OrderIds : venue[o].working}

bookVars == <<venue, acked, reports>>
mapVars == <<toBroker, closed, stale>>

\* The order has passed the checks (readiness, price tick, risk limits); one
\* that does not, or of quantity zero, changes nothing.
Resolve(id, effect, reduceOnly, q, first, second) ==
    /\ call.at = "idle" /\ q > 0 /\ Cardinality(OrderIds) < MaxOrders
    /\ call' = [NoCall EXCEPT !.at = "validate", !.id = id, !.quantity = q,
                   !.legs = OrderLegs(can, effect, reduceOnly, q, first, second)]
    /\ UNCHANGED <<can, bookVars, mapVars>>

\* A variant for checking: a mapped id is taken for working.
CanSubmitUnmapped(l) == toBroker[l] = 0

\* can_submit_client_order: of an order that is not closed, no final status
\* was seen either.
CanSubmit(l) == toBroker[l] = 0 \/ toBroker[l] \in closed

CallLegIds == {LegId(i) : i \in CallLegs}

\* validate_live_order_client_ids raises before anything is placed.
Validate ==
    /\ call.at = "validate"
    /\ call' = IF \A l \in CallLegIds : CanSubmit(l)
               THEN [call EXCEPT !.at = "place"] ELSE NoCall
    /\ UNCHANGED <<can, bookVars, mapVars>>

\* The order a placement makes at the venue.
Placed == [leg |-> LegId(NextLeg), working |-> TRUE]
NewOrder == Cardinality(OrderIds) + 1
AtVenue == [o \in OrderIds \cup {NewOrder} |->
               IF o = NewOrder THEN Placed ELSE venue[o]]

\* place_order returns an id.
PlaceOrder ==
    /\ call.at = "place" /\ LegsLeft # {} /\ NewOrder <= MaxOrders
    /\ venue' = AtVenue /\ acked' = acked \cup {NewOrder}
    /\ call' = [call EXCEPT !.at = "map", !.acked = @ \cup {LegOrder[NextLeg]}]
    /\ UNCHANGED <<can, reports, mapVars>>

\* A variant for checking: the loop goes on with the next leg.
PlaceFailsOn ==
    /\ call.at = "place" /\ LegsLeft # {}
    /\ venue' \in {venue, AtVenue} /\ Cardinality(DOMAIN venue') <= MaxOrders
    /\ call' = [call EXCEPT !.next = NextLeg + 1]
    /\ UNCHANGED <<can, acked, reports, mapVars>>

\* place_order raises, and the venue may have the order all the same: no
\* further leg, no rollback of the legs placed.
PlaceFails ==
    /\ call.at = "place" /\ LegsLeft # {}
    /\ venue' \in {venue, AtVenue} /\ Cardinality(DOMAIN venue') <= MaxOrders
    /\ call' = NoCall
    /\ UNCHANGED <<can, acked, reports, mapVars>>

\* A variant for checking: the order of the last leg alone is mapped.
MapLastOrder ==
    /\ call.at = "map"
    /\ toBroker' = IF LegsLeft = {NextLeg}
                   THEN [toBroker EXCEPT ![LegId(NextLeg)] = Cardinality(OrderIds)]
                   ELSE toBroker
    /\ call' = IF LegsLeft = {NextLeg} THEN NoCall
               ELSE [call EXCEPT !.at = "place", !.next = NextLeg + 1]
    /\ UNCHANGED <<can, bookVars, closed, stale>>

\* _sync_order_id_mapping and the other maps, after the placement; then the
\* next leg, or the receipt.
MapOrder ==
    /\ call.at = "map"
    /\ toBroker' = [toBroker EXCEPT ![LegId(NextLeg)] = Cardinality(OrderIds)]
    /\ call' = IF LegsLeft = {NextLeg} THEN NoCall
               ELSE [call EXCEPT !.at = "place", !.next = NextLeg + 1]
    /\ UNCHANGED <<can, bookVars, closed, stale>>

-----------------------------------------------------------------------------
(* Order events *)

\* The venue reports an order, pushed or in a reply to sync_open_orders.
ReportOpen(o) ==
    /\ o \in Working
    /\ reports' = reports \cup {[order |-> o, final |-> FALSE]}
    /\ UNCHANGED <<can, call, venue, acked, mapVars>>

ReportFinal(o) ==
    /\ o \in Working
    /\ venue' = [venue EXCEPT ![o].working = FALSE]
    /\ reports' = reports \cup {[order |-> o, final |-> TRUE]}
    /\ UNCHANGED <<can, call, acked, mapVars>>

\* _update_broker_state of a queued event, in any order: the client id is
\* mapped to the order, and unmapped if the event is final.
UpdateBrokerState(e) ==
    LET l == venue[e.order].leg IN
    /\ e \in reports /\ reports' = reports \ {e}
    /\ toBroker' = [toBroker EXCEPT ![l] = IF e.final THEN 0 ELSE e.order]
    /\ closed' = IF e.final THEN closed \cup {e.order} ELSE closed
    /\ stale' = IF \E o \in OrderIds : o > e.order /\ venue[o].leg = l
                THEN stale \cup {l} ELSE stale
    /\ UNCHANGED <<can, call, venue, acked>>

SubmissionNext ==
    \/ \E id \in ClientIds, effect \in {"auto", "open", "close"},
          reduceOnly \in BOOLEAN, q \in Quantities,
          first \in Answers, second \in Answers :
            Resolve(id, effect, reduceOnly, q, first, second)
    \/ Validate \/ PlaceOrder \/ PlaceFails \/ MapOrder
    \/ \E o \in OrderIds : ReportOpen(o) \/ ReportFinal(o)
    \/ \E e \in reports : UpdateBrokerState(e)

SubmissionSpec == SubmissionInit /\ [][SubmissionNext]_submissionVars

-----------------------------------------------------------------------------
(* Properties *)

\* The legs of an order make up its quantity, whatever two answers the broker
\* gives while they are computed (order_submitter.py, resolve_live_order_legs).
LegsMakeUpOrder == call.at # "idle" => Total(call.legs) = call.quantity

\* Of two acknowledged working orders no two have one client order id, unless
\* an event of an older order under that id came after the newer one
\* (order_submitter.py, validate_live_order_client_ids).
OneOrderPerClientId ==
    \A o, p \in acked \cap Working :
        (venue[o].leg = venue[p].leg /\ venue[o].leg \notin stale) => o = p

\* A client order id whose orders have all ended, and been reported so, may be
\* used again, whichever of the two threads wrote its mapping last
\* (live/_runner.py, can_submit_client_order).
EndedIdReusable ==
    \A l \in LegIds :
        (/\ \A o \in OrderIds : venue[o].leg = l => o \in acked \ Working
         /\ \A e \in reports : venue[e.order].leg # l) => CanSubmit(l)

\* The opening leg of a reversal is placed only after every closing leg was
\* acknowledged: a failed close is never followed by its open
\* (order_submitter.py, the loop of submit_order).
OpenAfterCloses ==
    "open" \in call.acked =>
        \A n \in {"today", "yesterday", "close"} :
            call.legs[n] > 0 => n \in call.acked
=============================================================================
