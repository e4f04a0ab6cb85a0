------------------------------- MODULE TradeFeed -------------------------------
(***************************************************************************)
(* What a live session promises about trades: a trade executed at the      *)
(* broker is handed to the strategy's on_trade at most once, whatever is   *)
(* pushed, replayed or drained by which thread.  LiveEvents implements it. *)
(***************************************************************************)
EXTENDS Naturals

CONSTANT Trades

VARIABLES
    executed,     \* trades the broker has executed
    told          \* how often on_trade was called for each trade

FeedInit == executed = {} /\ told = [t \in Trades |-> 0]

ExecuteTrade(t) ==
    /\ t \notin executed /\ executed' = executed \cup {t}
    /\ UNCHANGED told

TellTrade(t) ==
    /\ t \in executed /\ told[t] = 0
    /\ told' = [told EXCEPT ![t] = 1]
    /\ UNCHANGED executed

FeedNext == \E t \in Trades : ExecuteTrade(t) \/ TellTrade(t)

FeedSpec == FeedInit /\ [][FeedNext]_<<executed, told>>
=============================================================================
