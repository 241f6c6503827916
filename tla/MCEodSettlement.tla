-------------------------- MODULE MCEodSettlement --------------------------
(* Two symbols, two samples a day, prices 2 and 3.  The account can pay for *)
(* one or two buys, so that its orders compete for cash, and the fee of 4   *)
(* is more than a sale brings, so that selling can leave it in debt.        *)
EXTENDS EodSettlement

Spec0(sym, dir, qty, trig, validity) ==
    [sym |-> sym, dir |-> dir, trig |-> trig, qty |-> qty, validity |-> validity]
Market == Trigger("market", "none", 0)
Below == Trigger("px", "le", 2)
Above == Trigger("px", "ge", 3)

MCOrderSpecs ==
    {Spec0(1, "buy", 2, Market, "today"), Spec0(2, "buy", 1, Below, "long"),
     Spec0(1, "sell", 1, Above, "long")}

MCLotId == <<2, 1, 3>>

Bar(lo, hi, px) == [lo |-> lo, hi |-> hi, px |-> px, full |-> TRUE]
Point(p) == Bar(p, p, p)
Day(kind, bars, close) == [kind |-> kind, bars |-> bars, close |-> close, prev |-> 2]
MCFeeds ==
    {Day("l0", <<Point(3), Point(2)>>, 2),
     Day("l1", <<Bar(2, 3, 2), Point(3)>>, 3),
     Day("l2", [i \in {2} |-> Bar(2, 3, 3)], 3),
     Day("susp", <<>>, 2)}
\* Symbol 2 has two of the feeds, the other way round in time.
MCMarkets == {m \in [Symbols -> MCFeeds] : m[2].kind \in {"l0", "l1"}}

=============================================================================
