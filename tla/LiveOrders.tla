------------------------------ MODULE LiveOrders ------------------------------
(***************************************************************************)
(* Bracket orders of a broker_live session.  place_bracket submits an      *)
(* entry; when its first trade is drained, a stop is put into the local    *)
(* stop book and a take-profit is submitted, and the two are linked, one   *)
(* cancels the other.  The market thread checks the book on every bar and  *)
(* submits what is triggered; two threads drain the broker's events; any   *)
(* callback may cancel an order.                                           *)
(*   strategy.py, place_bracket to _remove_oco_group;                      *)
(*   gateway/local_stop_book.py, broker_execution.py                       *)
(* A bracket has both exit prices; which stop a price triggers is left     *)
(* open.  Cancelling a bracket's take-profit is left to its peer.          *)
(***************************************************************************)
EXTENDS Naturals, FiniteSets

CONSTANTS
    Brackets,       \* brackets, each with an entry, a stop and a take-profit
    EntryFills,     \* trades an entry order may be filled by
    MaxAttempts,    \* MAX_STOP_SUBMIT_ATTEMPTS
    Handlers,       \* threads in drain_events
    Nobody          \* holder of a free lock

ASSUME OrderBounds == EntryFills \in Nat \ {0} /\ MaxAttempts \in Nat \ {0}
ASSUME NobodyHandles == Nobody \notin Handlers

VARIABLES
    market,         \* the market thread: where it is, and the stops it submits
    called,         \* brackets place_bracket was called for
    returned,       \* brackets it returned an id of
    pending,        \* _pending_brackets
    book,           \* LocalStopBook._orders: brackets whose stop is in it
    attempts,       \* submit_attempts of each stop
    remapped,       \* stops whose venue order is mapped to the local id
    groups,         \* _oco_groups: brackets whose exits are linked
    linked,         \* brackets whose exits were ever linked
    lock,           \* holder of _order_group_lock
    handlers,       \* what each draining thread is doing
    sent,           \* how often the venue received each order
    filled,         \* trades of each order
    gone,           \* orders the venue has cancelled
    events,         \* trades queued, not yet drained
    processed,      \* trades process_order_groups is done with
    registered,     \* how often each bracket's stop was created
    cancelled,      \* stops a cancel took out of the book
    gaveUp          \* stops given up, on_error told

calledVars == <<called, returned>>
venueVars == <<sent, filled, gone, events>>
groupVars == <<pending, groups, linked, lock, handlers, processed>>
stopVars == <<book, attempts, remapped, registered, cancelled, gaveUp>>
orderVars == <<market, calledVars, venueVars, groupVars, stopVars>>

Kinds == {"entry", "stop", "take"}
VenueOrders == Brackets \X Kinds
Fills(o) == IF o[2] = "entry" THEN EntryFills ELSE 1

NoTrade == [order |-> Nobody, n |-> 0, matched |-> FALSE]
Resting == [at |-> "idle", trade |-> NoTrade]

OrdersInit ==
    /\ market = [at |-> "idle", batch |-> {}, on |-> {}]
    /\ called = {} /\ returned = {} /\ pending = {} /\ book = {}
    /\ attempts = [b \in Brackets |-> 0] /\ remapped = {}
    /\ groups = {} /\ linked = {} /\ lock = Nobody
    /\ handlers = [d \in Handlers |-> Resting]
    /\ sent = [o \in VenueOrders |-> 0] /\ filled = [o \in VenueOrders |-> 0]
    /\ gone = {} /\ events = {} /\ processed = {}
    /\ registered = [b \in Brackets |-> 0] /\ cancelled = {} /\ gaveUp = {}

Sent(o) == sent' = [sent EXCEPT ![o] = @ + 1]
MaybeSent(o) == Sent(o) \/ UNCHANGED sent

-----------------------------------------------------------------------------
(* place_bracket, on the market thread *)

\* buy() comes back with the id of the entry order, before the lock is taken.
PlaceEntry(b) ==
    /\ market.at = "idle" /\ b \notin called
    /\ called' = called \cup {b} /\ Sent(<<b, "entry">>)
    /\ market' = [market EXCEPT !.at = "register", !.on = {b}]
    /\ UNCHANGED <<returned, filled, gone, events, groupVars, stopVars>>

\* buy() comes back empty, refused or unknown: place_bracket raises.
PlaceEntryFails(b) ==
    /\ market.at = "idle" /\ b \notin called
    /\ called' = called \cup {b} /\ MaybeSent(<<b, "entry">>)
    /\ UNCHANGED <<market, returned, filled, gone, events, groupVars, stopVars>>

RegisterBracket ==
    /\ market.at = "register" /\ lock = Nobody
    /\ pending' = pending \cup market.on /\ returned' = returned \cup market.on
    /\ market' = [market EXCEPT !.at = "idle", !.on = {}]
    /\ UNCHANGED <<called, venueVars, groups, linked, lock, handlers, processed,
                   stopVars>>

-----------------------------------------------------------------------------
(* check_stop_triggers, on the market thread *)

\* The market thread after it is done with b.
Done(b) ==
    LET rest == market.batch \ {b} IN
    market' = [at |-> IF rest = {} THEN "idle" ELSE "submit", batch |-> rest,
               on |-> {}]

\* A variant for checking: the stops leave the book once they are submitted.
CheckKeeping ==
    /\ market.at = "idle"
    /\ \E hit \in SUBSET book \ {{}} :
        market' = [at |-> "submit", batch |-> hit, on |-> {}]
    /\ UNCHANGED <<calledVars, venueVars, groupVars, stopVars>>

\* LocalStopBook.check takes the stops the price triggers out of the book.
Check ==
    /\ market.at = "idle"
    /\ \E hit \in SUBSET book \ {{}} :
        /\ book' = book \ hit
        /\ market' = [at |-> "submit", batch |-> hit, on |-> {}]
    /\ UNCHANGED <<calledVars, venueVars, groupVars, attempts, remapped,
                   registered, cancelled, gaveUp>>

\* submit_order returns an id ...
StopAccepted(b) ==
    /\ market.at = "submit" /\ b \in market.batch
    /\ Sent(<<b, "stop">>)
    /\ market' = [market EXCEPT !.at = "remap", !.on = {b}]
    /\ UNCHANGED <<calledVars, filled, gone, events, groupVars, stopVars>>

\* ... which record_stop_remap maps to the stop's own id.
RecordStopRemap ==
    /\ market.at = "remap"
    /\ remapped' = remapped \cup market.on
    /\ \E b \in market.on : Done(b)
    /\ UNCHANGED <<calledVars, venueVars, groupVars, book, attempts, registered,
                   cancelled, gaveUp>>

\* A variant for checking: a refused stop is dropped from the loop.
DropRejected(b) ==
    /\ market.at = "submit" /\ b \in market.batch /\ Done(b)
    /\ UNCHANGED <<calledVars, venueVars, groupVars, stopVars>>

\* The order surely does not exist, refused or not sent: the stop goes back
\* into the book, until it has been tried often enough.
StopRejected(b) ==
    /\ market.at = "submit" /\ b \in market.batch /\ Done(b)
    /\ attempts' = [attempts EXCEPT ![b] = @ + 1]
    /\ IF attempts[b] + 1 < MaxAttempts
       THEN book' = book \cup {b} /\ UNCHANGED gaveUp
       ELSE gaveUp' = gaveUp \cup {b} /\ UNCHANGED book
    /\ UNCHANGED <<calledVars, venueVars, groupVars, remapped, registered,
                   cancelled>>

\* A variant for checking: an unknown submission is tried again.
RetryUnknown(b) ==
    /\ market.at = "submit" /\ b \in market.batch /\ Done(b)
    /\ MaybeSent(<<b, "stop">>)
    /\ attempts' = [attempts EXCEPT ![b] = @ + 1]
    /\ IF attempts[b] + 1 < MaxAttempts
       THEN book' = book \cup {b} /\ UNCHANGED gaveUp
       ELSE gaveUp' = gaveUp \cup {b} /\ UNCHANGED book
    /\ UNCHANGED <<calledVars, filled, gone, events, groupVars, remapped,
                   registered, cancelled>>

\* The order may have reached the venue: the stop is given up.
StopUnknown(b) ==
    /\ market.at = "submit" /\ b \in market.batch /\ Done(b)
    /\ MaybeSent(<<b, "stop">>)
    /\ attempts' = [attempts EXCEPT ![b] = @ + 1]
    /\ gaveUp' = gaveUp \cup {b}
    /\ UNCHANGED <<calledVars, filled, gone, events, groupVars, book, remapped,
                   registered, cancelled>>

\* cancel_order of a stop that is in the book.  Of one that is not, the local
\* id goes to the venue, which knows no such order: on_error, no change.
CancelStop(b) ==
    /\ b \in book
    /\ book' = book \ {b} /\ cancelled' = cancelled \cup {b}
    /\ UNCHANGED <<market, calledVars, venueVars, groupVars, attempts, remapped,
                   registered, gaveUp>>

-----------------------------------------------------------------------------
(* The venue *)

\* An order the venue has received is filled, and its trade is queued.
Fill(o) ==
    /\ sent[o] > 0 /\ o \notin gone /\ filled[o] < Fills(o)
    /\ filled' = [filled EXCEPT ![o] = @ + 1]
    /\ events' = events \cup {[order |-> o, n |-> filled[o] + 1]}
    /\ UNCHANGED <<market, calledVars, sent, gone, groupVars, stopVars>>

-----------------------------------------------------------------------------
(* process_order_groups, on the draining threads *)

Advance(d, at) == handlers' = [handlers EXCEPT ![d] = [@ EXCEPT !.at = at]]

\* drain_events adapts a trade: a stop's trade carries the stop's own id if
\* the id was mapped by now, and an id no group knows if it was not.
DrainTrade(d) ==
    /\ handlers[d].at = "idle"
    /\ \E e \in events :
        /\ events' = events \ {e}
        /\ handlers' = [handlers EXCEPT ![d] =
               [at |-> "enter",
                trade |-> [order |-> e.order, n |-> e.n,
                           matched |-> e.order[2] = "stop" =>
                                           e.order[1] \in remapped]]]
    /\ UNCHANGED <<market, calledVars, sent, filled, gone, pending, groups,
                   linked, lock, processed, stopVars>>

EnterLock(d) ==
    /\ handlers[d].at = "enter" /\ lock = Nobody
    /\ lock' = d /\ Advance(d, "bracket")
    /\ UNCHANGED <<market, calledVars, venueVars, pending, groups, linked,
                   processed, stopVars>>

IsEntryOf(trade, b) == trade.order = <<b, "entry">>

\* No bracket waits for this trade's order.
NotABracket(d) ==
    /\ handlers[d].at = "bracket"
    /\ \A b \in pending : ~IsEntryOf(handlers[d].trade, b)
    /\ Advance(d, "oco")
    /\ UNCHANGED <<market, calledVars, venueVars, pending, groups, linked, lock,
                   processed, stopVars>>

\* The entry's first trade: the bracket is no longer pending, the stop is put
\* into the book.
StartStop(d, b, waiting) ==
    /\ handlers[d].at = "bracket" /\ b \in pending
    /\ IsEntryOf(handlers[d].trade, b)
    /\ pending' = waiting
    /\ book' = book \cup {b} /\ registered' = [registered EXCEPT ![b] = @ + 1]
    /\ Advance(d, "take")
    /\ UNCHANGED <<market, calledVars, venueVars, groups, linked, lock,
                   processed, attempts, remapped, cancelled, gaveUp>>

\* A variant for checking: the bracket is read, and stays.
PlaceStopAgain(d, b) == StartStop(d, b, pending)

PlaceStop(d, b) == StartStop(d, b, pending \ {b})

\* A variant for checking: the lock is given back before the link.
PlaceTakeUnlocked(d) ==
    /\ handlers[d].at = "take"
    /\ Sent(<<handlers[d].trade.order[1], "take">>) /\ Advance(d, "link")
    /\ lock' = Nobody
    /\ UNCHANGED <<market, calledVars, filled, gone, events, pending, groups,
                   linked, processed, stopVars>>

\* The take-profit is submitted: accepted ...
PlaceTake(d) ==
    /\ handlers[d].at = "take"
    /\ Sent(<<handlers[d].trade.order[1], "take">>) /\ Advance(d, "link")
    /\ UNCHANGED <<market, calledVars, filled, gone, events, pending, groups,
                   linked, lock, processed, stopVars>>

\* ... or comes back empty: no link ...
TakeEmpty(d) ==
    /\ handlers[d].at = "take"
    /\ MaybeSent(<<handlers[d].trade.order[1], "take">>) /\ Advance(d, "oco")
    /\ UNCHANGED <<market, calledVars, filled, gone, events, pending, groups,
                   linked, lock, processed, stopVars>>

\* ... or sell() raises: process_order_groups is left, and the lock.
TakeRaises(d) ==
    /\ handlers[d].at = "take"
    /\ lock' = Nobody /\ handlers' = [handlers EXCEPT ![d] = Resting]
    /\ processed' = processed \cup {[order |-> handlers[d].trade.order,
                                     n |-> handlers[d].trade.n]}
    /\ UNCHANGED <<market, calledVars, venueVars, pending, groups, linked,
                   stopVars>>

\* place_oco of the two exits, still under the lock.
PlaceOco(d) ==
    LET b == handlers[d].trade.order[1] IN
    /\ handlers[d].at = "link"
    /\ groups' = groups \cup {b} /\ linked' = linked \cup {b}
    /\ Advance(d, "oco")
    /\ UNCHANGED <<market, calledVars, venueVars, pending, lock, processed,
                   stopVars>>

\* cancel_order of the linked order: a stop leaves the book, if it is there; a
\* take-profit is cancelled at the venue, unless that fails or it is filled.
CancelPeer(o) ==
    IF o[2] = "take"
    THEN /\ book' = book \ {o[1]}
         /\ cancelled' = cancelled \cup (book \cap {o[1]})
         /\ UNCHANGED gone
    ELSE /\ gone' \in {gone, gone \cup {<<o[1], "take">>}}
         /\ UNCHANGED <<book, cancelled>>

\* _process_oco_trade: a trade of a linked order cancels the other one and
\* removes the group; the lock is released.
ProcessOco(d) ==
    LET t == handlers[d].trade
        b == t.order[1] IN
    /\ handlers[d].at = "oco"
    /\ IF t.order[2] # "entry" /\ t.matched /\ b \in groups
       THEN CancelPeer(t.order) /\ groups' = groups \ {b}
       ELSE UNCHANGED <<groups, book, cancelled, gone>>
    /\ processed' = processed \cup {[order |-> t.order, n |-> t.n]}
    /\ lock' = Nobody /\ handlers' = [handlers EXCEPT ![d] = Resting]
    /\ UNCHANGED <<market, calledVars, sent, filled, events, pending, linked,
                   attempts, remapped, registered, gaveUp>>

GroupStep(d) ==
    \/ DrainTrade(d) \/ EnterLock(d) \/ NotABracket(d)
    \/ (\E b \in Brackets : PlaceStop(d, b))
    \/ PlaceTake(d) \/ TakeEmpty(d) \/ TakeRaises(d)
    \/ PlaceOco(d) \/ ProcessOco(d)

MarketStep ==
    \/ \E b \in Brackets : PlaceEntry(b) \/ PlaceEntryFails(b)
    \/ RegisterBracket \/ Check
    \/ \E b \in Brackets : StopAccepted(b) \/ StopRejected(b) \/ StopUnknown(b)
    \/ RecordStopRemap

OrdersNext ==
    \/ MarketStep
    \/ \E b \in Brackets : CancelStop(b)
    \/ \E o \in VenueOrders : Fill(o)
    \/ \E d \in Handlers : GroupStep(d)

OrdersSpec == OrdersInit /\ [][OrdersNext]_orderVars

-----------------------------------------------------------------------------
(* Properties *)

\* A stop reaches the venue at most once, however often it is triggered,
\* refused, put back and cancelled, and also when a submission is left unknown
\* (broker_execution.py, _handle_stop_submit_failure).
StopSentOnce == \A b \in Brackets : sent[<<b, "stop">>] <= 1

\* A stop whose cancellation took it out of the book was not sent and never
\* will be, whatever the market thread is checking or submitting meanwhile
\* (local_stop_book.py, check and cancel).
CancelledNeverSent == \A b \in cancelled : sent[<<b, "stop">>] = 0

\* The exits of a bracket are created once, when two threads drain two partial
\* trades of its entry at once (strategy.py, _process_pending_bracket).
ExitsPlacedOnce ==
    \A b \in Brackets : registered[b] <= 1 /\ sent[<<b, "take">>] <= 1

\* Once the trade of a take-profit was processed, its stop no longer waits in
\* the book, unless it had been triggered before: no trade of it is processed
\* between its submission and its link (strategy.py, _order_group_lock).
PeerStopWithdrawn ==
    \A e \in processed :
        (e.order[2] = "take" /\ e.order[1] \in linked
         /\ attempts[e.order[1]] = 0) => e.order[1] \notin book

\* A stop that was created waits in the book, is being submitted, was sent,
\* was cancelled, or was given up with an error: none is lost when a
\* submission fails (broker_execution.py, check_stop_triggers).
StopAccountedFor ==
    \A b \in Brackets :
        registered[b] > 0 =>
            \/ b \in book \cup market.batch \cup cancelled \cup gaveUp
            \/ sent[<<b, "stop">>] > 0

\* When the entry of a bracket has traded and place_bracket has returned, its
\* exits have been placed ("after the entry trades, the stop and the
\* take-profit are placed automatically": strategy.py, place_bracket).
FilledEntryProtected ==
    \A e \in processed :
        (e.order[2] = "entry" /\ e.order[1] \in returned) =>
            registered[e.order[1]] > 0
=============================================================================
