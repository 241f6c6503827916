--------------------------- MODULE MCOrderReplay ---------------------------
(* Every order type over every series of three samples at prices 9, 10, 11, *)
(* minutes with and without their high and low, with and without a price    *)
(* limit at 9 and 11, too poor, just rich enough for the lowest price, rich. *)
EXTENDS OrderReplay

MCFee == 1

MCOrder(dir, trig, slot, qty) ==
    [dir |-> dir, trig |-> trig, qty |-> qty, day |-> 1, slot |-> slot]

MCTriggers ==
    {Trigger("px", op, 10) : op \in {"le", "ge"}} \cup
    {[Trigger("pct", op, v) EXCEPT !.notLimit = nl] :
        op \in {"le", "ge"}, v \in {-10, 10}, nl \in BOOLEAN} \cup
    {Trigger("market", "none", 0), Trigger("time", "none", 2)}
MCSellTriggers == MCTriggers \cup
    {Trigger("cost", "le", -10), Trigger("cost", "ge", 5), Trigger("trail", "none", 10),
     Trigger("board", "none", 0)}

MCOrders == {MCOrder("buy", t, s, 1) : t \in MCTriggers, s \in 0..NSamples} \cup
            {MCOrder("sell", t, s, q) : t \in MCSellTriggers, s \in 0..NSamples, q \in 1..2}

Bar(lo, hi, px) == [lo |-> lo, hi |-> hi, px |-> px, full |-> TRUE]
Point(p) == Bar(p, p, p)
CloseOnly(p) == [Point(p) EXCEPT !.full = FALSE]
MCBars == {Point(9), Point(10), Point(11),
           Bar(9, 10, 10), Bar(9, 11, 9), Bar(10, 11, 10)}
MCFeed(kind, bars) == [kind |-> kind, bars |-> bars, close |-> 10, prev |-> 10]
MCFeeds ==
    {MCFeed("l0", [i \in 1..NSamples |-> Point(s[i])]) : s \in [1..NSamples -> 9..11]} \cup
    {MCFeed("l1", b) : b \in [1..NSamples -> MCBars \cup {CloseOnly(9), CloseOnly(11)}]} \cup
    {MCFeed("l2", [i \in {NSamples} |-> b]) : b \in MCBars}

\* The cost basis is that of the shares that may be sold.
MCFunds == {[cash |-> 0, sellable |-> 0, cost |-> [w |-> 0, t |-> 0]],
            [cash |-> 10, sellable |-> 0, cost |-> [w |-> 0, t |-> 0]],
            [cash |-> 99, sellable |-> 1, cost |-> [w |-> 10, t |-> 1]]}
MCLimits == {NoLimit, [up |-> 11, down |-> 9]}

\* An open-board order under L1 or L2 is invalid before the replay starts, and a
\* seller's cash plays no part.
MCCases ==
    {c \in [order : MCOrders, feed : MCFeeds, day : {1}, lim : MCLimits,
            cost : {w.cost : w \in MCFunds}, cash : {w.cash : w \in MCFunds},
            sellable : {w.sellable : w \in MCFunds}] :
        /\ [cash |-> c.cash, sellable |-> c.sellable, cost |-> c.cost] \in MCFunds
        /\ c.order.trig.mode = "board" => c.feed.kind = "l0"
        /\ c.order.dir = "sell" => c.cash # 10
        /\ c.order.trig.notLimit => HasLimit(c.lim)}

=============================================================================
