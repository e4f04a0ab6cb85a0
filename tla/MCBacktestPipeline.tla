-------------------------- MODULE MCBacktestPipeline --------------------------
(***************************************************************************)
(* TLC instances of BacktestPipeline: two symbols, a few timestamps, a few *)
(* orders, and the moves each run asks about.                              *)
(***************************************************************************)
EXTENDS BacktestPipeline

Template(sym, side, offset, qty) ==
    [sym |-> sym, side |-> side, effect |-> "Auto", offset |-> offset, tif |-> "GTC",
     cond |-> FALSE, resize |-> FALSE, qty |-> qty, created |-> 0, parent |-> 0, twin |-> 0]

Limit(template) == [template EXCEPT !.cond = TRUE]
Resizable(template) == [template EXCEPT !.resize = TRUE]
Until(template, tif) == [template EXCEPT !.tif = tif]

Move(orders) == [orders |-> orders, oco |-> FALSE, exits |-> {}]
Oco(first, second) == [Move(<<first, second>>) EXCEPT !.oco = TRUE]
Bracket(entry, exits) == [Move(<<entry>>) EXCEPT !.exits = exits]

MCTwoOrders == 1 .. 2
MCThreeOrders == 1 .. 3
MCGroupIds == {"oco", "bracket"} \X OrderIds
MCDateOf == [t \in Times |-> t]

\* A rotation: buy symbol 1 with the proceeds of symbol 2.
Rotation(offset) == Move(<<Template(1, "Buy", offset, 2), Template(2, "Sell", offset, 1)>>)

MCRotations ==
    {Move(<<>>), Rotation(0), Rotation(1),
     Move(<<Limit(Resizable(Template(1, "Buy", 1, 2)))>>),
     Move(<<Until(Limit(Template(2, "Sell", 0, 1)), "IOC")>>)}

\* Linked orders: a pair on one symbol, a pair across symbols, brackets.
MCLinks ==
    {Move(<<>>),
     Oco(Limit(Template(1, "Sell", 1, 1)), Limit(Template(1, "Sell", 1, 1))),
     Oco(Limit(Template(1, "Buy", 0, 1)), Template(2, "Buy", 0, 1)),
     Bracket(Template(1, "Buy", 0, 1), Exits),
     Bracket(Template(1, "Buy", 1, 1), Exits),
     Bracket(Template(2, "Buy", 1, 1), {"StopLoss"})}

\* Two timestamps of one date, then one of the next date.
MCTwoDates == [t \in Times |-> IF t <= 2 THEN 1 ELSE t - 1]

\* Day orders, alone and in a rotation.
MCDayOrders ==
    {Move(<<>>),
     Move(<<Until(Limit(Template(1, "Buy", 0, 1)), "Day")>>),
     Move(<<Until(Limit(Template(1, "Buy", 1, 1)), "Day")>>),
     Move(<<Until(Template(1, "Buy", 0, 1), "Day"), Until(Template(2, "Sell", 0, 1), "Day")>>),
     Move(<<Until(Template(1, "Buy", 1, 1), "Day"), Until(Template(2, "Sell", 1, 1), "Day")>>)}

\* A pair whose legs ask for different quantities.
MCUnevenPair == {Move(<<>>), Oco(Template(1, "Sell", 1, 1), Template(1, "Sell", 1, 2))}
=============================================================================
