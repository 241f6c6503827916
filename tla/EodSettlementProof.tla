------------------------ MODULE EodSettlementProof ------------------------
(***************************************************************************)
(* What EodSettlement.tla guarantees for every set of symbols, order       *)
(* specifications and feeds and for every bound on days and orders.  The   *)
(* arguments of the first half are structural: they follow one order from  *)
(* its creation through the open transaction into the trades.  The second  *)
(* half is about money and shares: the sums over lots and trades, the lots *)
(* a sale takes first in, first out, and one invariant of an account that  *)
(* a buy and a sale both preserve.                                         *)
(***************************************************************************)
EXTENDS EodSettlement, SumTheorems, SequenceTheorems, FiniteSetTheorems, TLAPS

\* A new trade of the open transaction belongs to an order that was active when
\* the transaction opened, is filled in its working copy, and was eligible.
TxFields == {"date", "feeds", "cash", "lots", "hold", "avg", "new", "exits", "st", "ins", "todo"}
TxShape ==
    /\ tx = [f \in TxFields |-> tx[f]]
    /\ tx.date \in 1..MaxDay
    /\ tx.hold \in [Symbols -> Int]
    /\ tx.st \in [ActiveIds -> {"active", "filled", "invalid"}]
    /\ tx.ins \in [ActiveIds -> Nat]
    /\ tx.todo \subseteq {k \in ActiveIds : tx.st[k] = "active"}
    /\ \A k \in ActiveIds : tx.feeds[orders[k].sym] \in Feeds
TxTrades ==
    /\ \A t \in tx.new : /\ t.oid \in ActiveIds /\ tx.st[t.oid] = "filled"
                         /\ t.date = tx.date
                         /\ Eligible(orders[t.oid], t.date, t.at)
    /\ \A t, u \in tx.new : t.oid = u.oid => t = u
    /\ \A k \in ActiveIds : tx.st[k] = "filled" => \E t \in tx.new : t.oid = k
TxInv == tx.date \notin settled /\ TxShape /\ TxTrades

\* The same for the committed trades.
LedgerInv ==
    /\ \A t \in trades : /\ t.oid \in DOMAIN orders /\ orders[t.oid].status = "filled"
                         /\ Eligible(orders[t.oid], t.date, t.at)
    /\ \A t, u \in trades : t.oid = u.oid => t = u
    /\ \A k \in DOMAIN orders : orders[k].status = "filled" => \E t \in trades : t.oid = k

\* The plan of run_day names a day of the calendar and known symbols, and plans a
\* feed for every symbol it found ordered.
PlanInv == plan # NoPlan => /\ plan.date \in 1..MaxDay
                            /\ plan.needs \subseteq Symbols
                            /\ plan.ordered \subseteq plan.needs

IInv == /\ ControlOK /\ OrdersOK /\ hold \in [Symbols -> Int]
        /\ FrozenHasNoBuys /\ LedgerInv /\ PlanInv
        /\ tx # NoTx => TxInv

-----------------------------------------------------------------------------
\* An attempt is made at a sample the feed has and the order may use.
LEMMA AttemptsEligible ==
    ASSUME NEW o, NEW f, NEW d, NEW cost, NEW lim, NEW i \in Attempts(o, f, d, cost, lim)
    PROVE  i \in DOMAIN f.bars /\ Eligible(o, d, i)
  <1> DEFINE open == {j \in DOMAIN f.bars : Eligible(o, d, j)}
  <1>1. i \in open
    <2> HIDE DEF open
    <2>1. CASE o.trig.mode = "time"
      <3> DEFINE due == {j \in open : f.kind = "l2" \/ j >= o.trig.val}
      <3>1. Attempts(o, f, d, cost, lim) = {j \in due : \A k \in due : j <= k}
        BY <2>1 DEF Attempts, open
      <3> QED BY <3>1
    <2>2. CASE o.trig.mode = "board"
      <3>1. Attempts(o, f, d, cost, lim) \subseteq open
        BY <2>2 DEF Attempts, open
      <3> QED BY <3>1
    <2>3. CASE o.trig.mode \notin {"time", "board"}
      <3>1. Attempts(o, f, d, cost, lim) \subseteq open
        BY <2>3 DEF Attempts, open
      <3> QED BY <3>1
    <2> QED BY <2>1, <2>2, <2>3
  <1> QED BY <1>1

\* The attempts at one order of the open transaction are finitely many samples.
LEMMA TriesFinite ==
    ASSUME TxShape, NEW k \in ActiveIds
    PROVE  /\ IsFiniteSet(Tries(k))
           /\ \A i \in Tries(k) : Eligible(orders[k], tx.date, i)
  <1>1. DOMAIN tx.feeds[orders[k].sym].bars \subseteq 1..NSamples
    BY FeedsAssumption DEF TxShape
  <1>2. \A i \in Tries(k) : /\ i \in DOMAIN tx.feeds[orders[k].sym].bars
                            /\ Eligible(orders[k], tx.date, i)
    BY AttemptsEligible DEF Tries
  <1>3. Tries(k) \subseteq 1..NSamples
    BY <1>1, <1>2
  <1>4. IsFiniteSet(1..NSamples)
    BY FS_Interval, NSamplesAssumption
  <1> QED BY <1>2, <1>3, <1>4, FS_Subset

\* A fill changes the working copy of the books and adds one trade, that of the
\* order; it leaves the order table and the plan of the day alone.
LEMMA FillEffect ==
    ASSUME TxShape, OrdersOK, NEW k \in ActiveIds, NEW i
    PROVE  /\ Fill(k, i) = [f \in TxFields |-> Fill(k, i)[f]]
           /\ Fill(k, i).new = tx.new \cup {TradeOf(k, i)}
           /\ Fill(k, i).hold \in [Symbols -> Int]
           /\ \A f \in {"date", "feeds", "st", "ins", "todo"} : Fill(k, i)[f] = tx[f]
  <1>1. orders[k].sym \in Symbols /\ orders[k].qty \in Int
    <2>1. orders[k] \in OrderType
      BY ElementOfSeq, LenProperties DEF OrdersOK, ActiveIds
    <2> QED BY <2>1 DEF OrderType
  <1>2. /\ DOMAIN tx = TxFields
        /\ tx.hold \in [Symbols -> Int]
    BY DEF TxShape
  <1>3. CASE orders[k].dir = "buy"
    <2>1. Fill(k, i) = Buy(k, i)
      BY <1>3 DEF Fill
    <2>2. Buy(k, i) = [f \in TxFields |-> Buy(k, i)[f]]
      BY <1>2 DEF Buy, TxFields
    <2>3. Buy(k, i).new = tx.new \cup {TradeOf(k, i)}
      BY <1>2 DEF Buy, TxFields
    <2>4. Buy(k, i).hold \in [Symbols -> Int]
      BY <1>1, <1>2 DEF Buy, TxFields
    <2>5. \A f \in {"date", "feeds", "st", "ins", "todo"} : Buy(k, i)[f] = tx[f]
      BY <1>2 DEF Buy, TxFields
    <2> QED BY <2>1, <2>2, <2>3, <2>4, <2>5
  <1>4. CASE orders[k].dir # "buy"
    <2>1. Fill(k, i) = Sell(k, i)
      BY <1>4 DEF Fill
    <2>2. Sell(k, i) = [f \in TxFields |-> Sell(k, i)[f]]
      BY <1>2, ZenonT(40) DEF Sell, TxFields
    <2>3. Sell(k, i).new = tx.new \cup {TradeOf(k, i)}
      BY <1>2 DEF Sell, TxFields
    <2>4. Sell(k, i).hold \in [Symbols -> Int]
      BY <1>1, <1>2 DEF Sell, TxFields
    <2>5. \A f \in {"date", "feeds", "st", "ins", "todo"} : Sell(k, i)[f] = tx[f]
      BY <1>2 DEF Sell, TxFields
    <2> QED BY <2>1, <2>2, <2>3, <2>4, <2>5
  <1> QED BY <1>3, <1>4

-----------------------------------------------------------------------------
LEMMA InitInv == Init => IInv
  <1> SUFFICES ASSUME Init PROVE IInv
    OBVIOUS
  <1>1. ControlOK
    BY NSamplesAssumption, BoundsAssumption DEF Init, ControlOK
  <1>2. OrdersOK
    BY BoundsAssumption DEF Init, OrdersOK
  <1>3. LedgerInv /\ FrozenHasNoBuys
    BY DEF Init, LedgerInv, FrozenHasNoBuys, ActiveIds
  <1>4. PlanInv
    BY DEF Init, PlanInv
  <1> QED BY <1>1, <1>2, <1>3, <1>4 DEF Init, IInv

\* A step that touches neither the orders nor the books nor the transaction.
LEMMA QuietStep ==
    ASSUME IInv, ControlOK', UNCHANGED <<orders, hold, trades, settled, tx>>,
           frozen' \subseteq frozen, PlanInv'
    PROVE  IInv'
  <1>1. LedgerInv'
    BY DEF IInv, LedgerInv, Eligible
  <1>2. FrozenHasNoBuys'
    BY DEF IInv, FrozenHasNoBuys, ActiveIds
  <1>3. (tx # NoTx => TxInv)'
    BY DEF IInv, TxInv, TxShape, TxTrades, ActiveIds, NoTx, Eligible
  <1> QED BY <1>1, <1>2, <1>3 DEF IInv, OrdersOK

\* A new active order joins the table; no transaction is open.
LEMMA AppendStep ==
    ASSUME IInv, NEW row \in OrderType, row.status = "active",
           row.dir = "buy" => row.sym \notin frozen, tx = NoTx,
           Len(orders) < MaxOrders, orders' = Append(orders, row),
           UNCHANGED <<clock, control, book, plan, tx>>
    PROVE  IInv'
  <1>1. orders \in Seq(OrderType) /\ Len(orders) \in Nat /\ DOMAIN orders = 1..Len(orders)
    BY LenProperties DEF IInv, OrdersOK
  <1>2. /\ orders' \in Seq(OrderType) /\ Len(orders') = Len(orders) + 1
        /\ DOMAIN orders' = 1..Len(orders) + 1
        /\ \A k \in DOMAIN orders : orders'[k] = orders[k]
        /\ orders'[Len(orders) + 1] = row
    BY <1>1, AppendProperties, LenProperties
  <1>3. OrdersOK'
    BY <1>1, <1>2, BoundsAssumption DEF OrdersOK
  <1>4. ControlOK'
    BY DEF IInv, ControlOK, clock, control
  <1>5. FrozenHasNoBuys'
    BY <1>1, <1>2 DEF IInv, FrozenHasNoBuys, ActiveIds, control
  <1>6. LedgerInv'
    <2>1. \A t \in trades : /\ t.oid \in DOMAIN orders' /\ orders'[t.oid].status = "filled"
                            /\ Eligible(orders'[t.oid], t.date, t.at)
      BY <1>1, <1>2 DEF IInv, LedgerInv
    <2>2. \A k \in DOMAIN orders' : orders'[k].status = "filled" => \E t \in trades : t.oid = k
      BY <1>1, <1>2 DEF IInv, LedgerInv
    <2> QED BY <2>1, <2>2 DEF IInv, LedgerInv, Eligible, book
  <1>7. PlanInv'
    BY DEF IInv, PlanInv
  <1> QED BY <1>3, <1>4, <1>5, <1>6, <1>7 DEF IInv, book

LEMMA PlaceOrderStep ==
    ASSUME IInv, NEW spec \in OrderSpecs, PlaceOrder(spec)
    PROVE  IInv'
  <1> DEFINE row == Placed(spec, "replay_l0")
  <1>1. spec \in [sym : Symbols, dir : {"buy", "sell"}, qty : Nat \ {0},
                 trig : TriggerType, validity : Validities]
    BY OrderSpecsAssumption
  <1>2. row \in OrderType
    BY <1>1, BoundsAssumption DEF Placed, OrderType, IInv, ControlOK
  <1>3. /\ row.status = "active"
        /\ row.dir = "buy" => row.sym \notin frozen
    BY DEF PlaceOrder, MayPlace, Placed
  <1> HIDE DEF row
  <1> QED BY <1>2, <1>3, AppendStep DEF PlaceOrder, row

LEMMA EmergencySellStep ==
    ASSUME IInv, NEW s \in Symbols, EmergencySell(s)
    PROVE  IInv'
  <1> DEFINE sp == [sym |-> s, dir |-> "sell", qty |-> hold[s],
                    trig |-> Trigger("board", "none", 0), validity |-> "today"]
             row == Placed(sp, "intraday")
  <1>1. hold[s] \in Nat \ {0}
    BY DEF EmergencySell, IInv
  <1>2. row \in OrderType
    BY <1>1, BoundsAssumption DEF Placed, OrderType, IInv, ControlOK, Validities, Trigger, TriggerType
  <1>3. row.status = "active" /\ row.dir = "sell"
    BY DEF Placed
  <1> HIDE DEF row
  <1> QED BY <1>2, <1>3, AppendStep DEF EmergencySell, row

\* Rewriting rows in place keeps the order table an order table.
LEMMA RewriteOrders ==
    ASSUME OrdersOK, NEW new, DOMAIN new = DOMAIN orders, new = [k \in DOMAIN new |-> new[k]],
           \A k \in DOMAIN orders : new[k] \in OrderType
    PROVE  new \in Seq(OrderType) /\ Len(new) = Len(orders)
  <1>1. Len(orders) \in Nat /\ DOMAIN orders = 1..Len(orders)
    BY LenProperties DEF OrdersOK
  <1>2. new \in [1..Len(orders) -> OrderType]
    BY <1>1
  <1>3. new \in Seq(OrderType)
    BY <1>1, <1>2, SeqDef
  <1> QED BY <1>1, <1>2, <1>3, LenProperties

\* A cancelled order stays in the table, and no trade was ever made for it.
LEMMA FreezeSecurityStep ==
    ASSUME IInv, NEW s \in Symbols, FreezeSecurity(s)
    PROVE  IInv'
  <1>1. /\ tx = NoTx /\ UNCHANGED <<clock, status, book, plan, tx>>
        /\ frozen' = frozen \cup {s}
    BY DEF FreezeSecurity, FreezeAndCancel
  <1>2. /\ DOMAIN orders' = DOMAIN orders
        /\ orders' = [k \in DOMAIN orders' |-> orders'[k]]
        /\ \A k \in DOMAIN orders :
              orders'[k] = IF k \in RestingBuys(s) THEN [orders[k] EXCEPT !.status = "cancelled"]
                           ELSE orders[k]
    BY DEF FreezeSecurity, FreezeAndCancel
  <1>3. \A k \in DOMAIN orders : orders[k] \in OrderType
    BY ElementOfSeq, LenProperties DEF IInv, OrdersOK
  <1>4. \A k \in DOMAIN orders :
          /\ orders'[k] \in OrderType
          /\ orders'[k].day = orders[k].day /\ orders'[k].slot = orders[k].slot
          /\ orders'[k].sym = orders[k].sym /\ orders'[k].dir = orders[k].dir
          /\ orders'[k].status = "filled" <=> orders[k].status = "filled"
          /\ orders'[k].status = "active" => orders[k].status = "active" /\ k \notin RestingBuys(s)
    BY <1>2, <1>3 DEF OrderType, Terminal, RestingBuys, ActiveIds
  <1>5. OrdersOK'
    BY <1>2, <1>4, RewriteOrders DEF IInv, OrdersOK
  <1>6. ControlOK'
    BY <1>1 DEF IInv, ControlOK, clock
  <1>7. FrozenHasNoBuys'
    BY <1>1, <1>2, <1>4 DEF IInv, FrozenHasNoBuys, ActiveIds, RestingBuys
  <1>8. LedgerInv'
    BY <1>1, <1>2, <1>4 DEF IInv, LedgerInv, Eligible, book
  <1>9. PlanInv'
    BY <1>1 DEF IInv, PlanInv
  <1> QED BY <1>1, <1>5, <1>6, <1>7, <1>8, <1>9 DEF IInv, book

\* run_day plans a feed for every symbol it finds ordered or held.
LEMMA PlanDayStep ==
    ASSUME IInv, NEW d \in 1..today, PlanDay(d)
    PROVE  IInv'
  <1>1. d \in 1..MaxDay
    BY BoundsAssumption DEF IInv, ControlOK
  <1>2. \A k \in ActiveIds : orders[k] \in OrderType
    BY ElementOfSeq, LenProperties DEF IInv, OrdersOK, ActiveIds
  <1>3. Ordered(d) \subseteq Symbols
    BY <1>2 DEF Ordered, OrdersFor, OrderType
  <1>4. PlanInv'
    BY <1>1, <1>3 DEF PlanDay, PlanInv, Held
  <1> QED BY <1>4, QuietStep DEF PlanDay, IInv, ControlOK, clock, control, book

\* A transaction opens on a day that is not settled, with a working copy of the
\* active orders and a feed for each of them.
LEMMA SettleAccountStep ==
    ASSUME IInv, NEW market \in Markets, SettleAccount(market)
    PROVE  IInv'
  <1>1. /\ plan.date \in 1..MaxDay /\ plan.needs \subseteq Symbols
        /\ plan.ordered \subseteq plan.needs
    BY DEF SettleAccount, IInv, PlanInv
  <1>2. \A k \in ActiveIds : orders[k].sym \in plan.needs
    BY <1>1 DEF SettleAccount, Accepted, Known
  <1>3. \A k \in ActiveIds : orders[k] \in OrderType
    BY ElementOfSeq, LenProperties DEF IInv, OrdersOK, ActiveIds
  <1>4. market \in [Symbols -> Feeds]
    BY MarketsAssumption
  <1>5. ActiveIds' = ActiveIds
    BY DEF SettleAccount, ActiveIds
  <1>6. /\ tx' = [f \in TxFields |-> tx'[f]]
        /\ tx'.date = plan.date /\ tx'.hold = hold /\ tx'.new = {}
    BY DEF SettleAccount, TxFields
  <1>7. tx'.feeds = [s \in plan.needs |-> market[s]]
    BY DEF SettleAccount
  <1>8. /\ tx'.st = [k \in ActiveIds |-> FirstStatus(k, market)]
        /\ tx'.ins = [k \in ActiveIds |-> orders[k].ins]
        /\ tx'.todo = {k \in ActiveIds : /\ FirstStatus(k, market) = "active"
                                         /\ market[orders[k].sym].kind # "susp"}
    BY DEF SettleAccount
  <1>9. UNCHANGED <<clock, control, orders, book>> /\ plan.date \notin settled
    BY DEF SettleAccount, AlreadySettled
  <1>10. TxShape'
    <2>1. \A k \in ActiveIds : tx'.feeds[orders[k].sym] \in Feeds
      BY <1>1, <1>2, <1>4, <1>7
    <2>2. tx'.st \in [ActiveIds -> {"active", "filled", "invalid"}]
      BY <1>8 DEF FirstStatus
    <2>3. tx'.ins \in [ActiveIds -> Nat]
      BY <1>3, <1>8 DEF OrderType
    <2>4. tx'.todo \subseteq {k \in ActiveIds : tx'.st[k] = "active"}
      BY <1>8
    <2> QED BY <1>1, <1>5, <1>6, <1>9, <2>1, <2>2, <2>3, <2>4 DEF TxShape, IInv
  <1>11. TxTrades'
    BY <1>5, <1>6, <1>8 DEF TxTrades, FirstStatus
  <1>12. TxInv'
    BY <1>6, <1>9, <1>10, <1>11 DEF TxInv, book
  <1>13. ControlOK' /\ OrdersOK' /\ hold' = hold /\ FrozenHasNoBuys'
    BY <1>5, <1>9 DEF IInv, ControlOK, OrdersOK, FrozenHasNoBuys, clock, control, book
  <1>14. LedgerInv'
    BY <1>9 DEF IInv, LedgerInv, Eligible, book
  <1>15. PlanInv'
    BY DEF SettleAccount, PlanInv, NoPlan
  <1> QED BY <1>12, <1>13, <1>14, <1>15 DEF IInv

\* What a step that only works on the copy must establish.
LEMMA WorkStep ==
    ASSUME IInv, UNCHANGED <<clock, control, orders, book, plan>>, TxInv'
    PROVE  IInv'
  <1>1. ControlOK' /\ OrdersOK' /\ hold' = hold /\ FrozenHasNoBuys'
    BY DEF IInv, ControlOK, OrdersOK, FrozenHasNoBuys, ActiveIds, clock, control, book
  <1>2. LedgerInv'
    BY DEF IInv, LedgerInv, Eligible, book
  <1>3. PlanInv'
    BY DEF IInv, PlanInv
  <1> QED BY <1>1, <1>2, <1>3 DEF IInv

\* An order is judged once, leaves the plan of the day, and is filled exactly if
\* its trade joins the new trades.
LEMMA JudgeOrderStep ==
    ASSUME IInv, NEW k \in DOMAIN orders, JudgeOrder(k)
    PROVE  IInv'
  <1>1. TxInv /\ tx # NoTx /\ k \in tx.todo
    BY DEF IInv, JudgeOrder, IsNext
  <1>2. k \in ActiveIds /\ tx.st[k] = "active"
    BY <1>1 DEF TxInv, TxShape
  <1>3. UNCHANGED <<clock, control, orders, book, plan>> /\ ActiveIds' = ActiveIds
    BY DEF JudgeOrder, ActiveIds
  <1>4. IsFiniteSet(Tries(k)) /\ \A i \in Tries(k) : Eligible(orders[k], tx.date, i)
    BY <1>1, <1>2, TriesFinite DEF TxInv
  <1>5. DOMAIN tx = TxFields
    BY <1>1 DEF TxInv, TxShape
  <1> DEFINE paid == {i \in Tries(k) : Payable(k, i)}
  <1>6. CASE tx' = [tx EXCEPT !.todo = @ \ {k}, !.ins[k] = @ + Cardinality(Tries(k))]
    <2>1. Cardinality(Tries(k)) \in Nat
      BY <1>4, FS_CardinalityType
    <2>2. /\ tx' = [f \in TxFields |-> tx'[f]]
          /\ tx'.todo = tx.todo \ {k}
          /\ tx'.ins = [tx.ins EXCEPT ![k] = @ + Cardinality(Tries(k))]
          /\ tx'.date = tx.date /\ tx'.hold = tx.hold /\ tx'.st = tx.st
          /\ tx'.feeds = tx.feeds /\ tx'.new = tx.new
      BY <1>5, <1>6 DEF TxFields
    <2>3. TxShape'
      BY <1>1, <1>2, <1>3, <2>1, <2>2 DEF TxInv, TxShape
    <2>4. TxTrades'
      BY <1>1, <1>3, <2>2 DEF TxInv, TxTrades, Eligible
    <2>5. TxInv'
      BY <1>1, <1>3, <2>2, <2>3, <2>4 DEF TxInv, book
    <2> QED BY <1>3, <2>5, WorkStep
  <1>7. ASSUME NEW at \in paid,
               tx' = [Fill(k, at) EXCEPT !.todo = @ \ {k}, !.st[k] = "filled",
                                         !.ins[k] = @ + Cardinality({i \in Tries(k) : i < at})]
        PROVE  IInv'
    <2> DEFINE early == {i \in Tries(k) : i < at}
    <2>1. Cardinality(early) \in Nat
      BY <1>4, FS_CardinalityType, FS_Subset
    <2> HIDE DEF early
    <2>2. /\ Fill(k, at) = [f \in TxFields |-> Fill(k, at)[f]]
          /\ Fill(k, at).new = tx.new \cup {TradeOf(k, at)}
          /\ Fill(k, at).hold \in [Symbols -> Int]
          /\ \A f \in {"date", "feeds", "st", "ins", "todo"} : Fill(k, at)[f] = tx[f]
      BY <1>1, <1>2, FillEffect DEF IInv, TxInv
    <2>3. /\ tx' = [f \in TxFields |-> tx'[f]]
          /\ tx'.todo = tx.todo \ {k}
          /\ tx'.ins = [tx.ins EXCEPT ![k] = @ + Cardinality(early)]
          /\ tx'.st = [tx.st EXCEPT ![k] = "filled"]
          /\ tx'.date = tx.date /\ tx'.hold = Fill(k, at).hold
          /\ tx'.feeds = tx.feeds /\ tx'.new = tx.new \cup {TradeOf(k, at)}
      <3> DEFINE F == Fill(k, at)
      <3>1. /\ F = [f \in TxFields |-> F[f]]
            /\ tx' = [F EXCEPT !.todo = @ \ {k}, !.st[k] = "filled",
                               !.ins[k] = @ + Cardinality(early)]
        BY <1>7, <2>2 DEF early
      <3>2. /\ F.todo = tx.todo /\ F.st = tx.st /\ F.ins = tx.ins
            /\ F.date = tx.date /\ F.feeds = tx.feeds
            /\ F.new = tx.new \cup {TradeOf(k, at)}
        BY <2>2
      <3> HIDE DEF F
      <3>3. /\ tx' = [f \in TxFields |-> tx'[f]]
            /\ tx'.todo = F.todo \ {k}
            /\ tx'.ins = [F.ins EXCEPT ![k] = @ + Cardinality(early)]
            /\ tx'.st = [F.st EXCEPT ![k] = "filled"]
            /\ tx'.date = F.date /\ tx'.hold = F.hold
            /\ tx'.feeds = F.feeds /\ tx'.new = F.new
        BY <3>1 DEF TxFields
      <3> QED BY <3>2, <3>3 DEF F
    <2>4. TxShape'
      BY <1>1, <1>2, <1>3, <2>1, <2>2, <2>3 DEF TxInv, TxShape
    <2>5. /\ TradeOf(k, at).oid = k /\ TradeOf(k, at).date = tx.date
          /\ TradeOf(k, at).at = at
      BY DEF TradeOf
    <2>6. \A t \in tx.new : t.oid # k
      BY <1>1, <1>2 DEF TxInv, TxTrades
    <2>7. \A j \in ActiveIds : tx'.st[j] = IF j = k THEN "filled" ELSE tx.st[j]
      BY <1>1, <2>3 DEF TxInv, TxShape
    <2>8. TxTrades'
      <3>1. \A t \in tx'.new : /\ t.oid \in ActiveIds /\ tx'.st[t.oid] = "filled"
                               /\ t.date = tx.date /\ Eligible(orders[t.oid], t.date, t.at)
        BY <1>1, <1>2, <1>4, <2>3, <2>5, <2>7 DEF TxInv, TxTrades
      <3>2. \A t, u \in tx'.new : t.oid = u.oid => t = u
        BY <1>1, <2>3, <2>5, <2>6 DEF TxInv, TxTrades
      <3>3. \A j \in ActiveIds : tx'.st[j] = "filled" => \E t \in tx'.new : t.oid = j
        BY <1>1, <2>3, <2>5, <2>7 DEF TxInv, TxTrades
      <3> QED BY <1>3, <2>3, <3>1, <3>2, <3>3 DEF TxTrades, Eligible
    <2>9. TxInv'
      BY <1>1, <1>3, <2>3, <2>4, <2>8 DEF TxInv, book
    <2> QED BY <1>3, <2>9, WorkStep
  <1> QED BY <1>6, <1>7 DEF JudgeOrder

\* The rows a commit writes: an order that was not active is left alone, one that
\* is filled in the working copy is filled in the table, and none is re-opened.
LEMMA CommittedRows ==
    ASSUME IInv, Commit
    PROVE  /\ DOMAIN orders' = DOMAIN orders
           /\ orders' = [k \in DOMAIN orders' |-> orders'[k]]
           /\ \A k \in DOMAIN orders \ ActiveIds : orders'[k] = orders[k]
           /\ \A k \in DOMAIN orders :
                 /\ orders'[k] \in OrderType
                 /\ orders'[k].day = orders[k].day /\ orders'[k].slot = orders[k].slot
                 /\ orders'[k].sym = orders[k].sym /\ orders'[k].dir = orders[k].dir
           /\ \A k \in ActiveIds : orders'[k].status = "filled" <=> tx.st[k] = "filled"
  <1>1. TxShape /\ DOMAIN tx.st = ActiveIds
    BY DEF IInv, Commit, TxInv, TxShape
  <1>2. /\ DOMAIN orders' = DOMAIN orders
        /\ orders' = [k \in DOMAIN orders' |-> orders'[k]]
        /\ \A k \in DOMAIN orders :
              orders'[k] = IF k \in ActiveIds THEN WrittenBack(k) ELSE orders[k]
    BY <1>1 DEF Commit
  <1>3. \A k \in DOMAIN orders : orders[k] \in OrderType
    BY ElementOfSeq, LenProperties DEF IInv, OrdersOK
  <1>4. ASSUME NEW k \in ActiveIds
        PROVE  /\ WrittenBack(k) \in OrderType
               /\ WrittenBack(k).day = orders[k].day /\ WrittenBack(k).slot = orders[k].slot
               /\ WrittenBack(k).sym = orders[k].sym /\ WrittenBack(k).dir = orders[k].dir
               /\ WrittenBack(k).status = "filled" <=> tx.st[k] = "filled"
    <2>1. /\ tx.st[k] \in {"active", "filled", "invalid"} /\ tx.ins[k] \in Nat
          /\ tx.date \in 1..MaxDay /\ orders[k] \in OrderType /\ orders[k].status = "active"
      BY <1>1, <1>3 DEF TxShape, ActiveIds
    <2>2. tx.date \in 0..MaxDay
      BY <2>1, BoundsAssumption
    <2>3. CASE tx.st[k] = "invalid"
      <3>1. WrittenBack(k) = [orders[k] EXCEPT !.status = "invalid", !.settledOn = tx.date]
        BY <2>3 DEF WrittenBack
      <3> QED BY <2>1, <2>2, <2>3, <3>1 DEF OrderType, Terminal
    <2>4. CASE tx.st[k] = "filled"
      <3>1. WrittenBack(k) = [orders[k] EXCEPT !.status = "filled", !.ins = tx.ins[k],
                                               !.settledOn = tx.date]
        BY <2>4 DEF WrittenBack
      <3> QED BY <2>1, <2>2, <2>4, <3>1 DEF OrderType, Terminal
    <2>5. CASE tx.st[k] = "active"
      <3>1. \/ WrittenBack(k) = orders[k]
            \/ WrittenBack(k) = [orders[k] EXCEPT !.status = "expired", !.ins = tx.ins[k],
                                                  !.settledOn = tx.date]
            \/ WrittenBack(k) = [orders[k] EXCEPT !.status = "active", !.ins = tx.ins[k],
                                                  !.settledOn = orders[k].settledOn]
        BY <2>5 DEF WrittenBack
      <3> QED BY <2>1, <2>2, <2>5, <3>1, ZenonT(40) DEF OrderType, Terminal
    <2> QED BY <2>1, <2>3, <2>4, <2>5
  <1>5. \A k \in ActiveIds : k \in DOMAIN orders /\ orders'[k] = WrittenBack(k)
    BY <1>2 DEF ActiveIds
  <1>6. \A k \in DOMAIN orders \ ActiveIds : orders'[k] = orders[k]
    BY <1>2
  <1>7. \A k \in ActiveIds : orders'[k].status = "filled" <=> tx.st[k] = "filled"
    BY <1>4, <1>5
  <1>8. \A k \in DOMAIN orders :
          /\ orders'[k] \in OrderType
          /\ orders'[k].day = orders[k].day /\ orders'[k].slot = orders[k].slot
          /\ orders'[k].sym = orders[k].sym /\ orders'[k].dir = orders[k].dir
    BY <1>3, <1>4, <1>5, <1>6
  <1> QED BY <1>2, <1>6, <1>7, <1>8

LEMMA CommitStep ==
    ASSUME IInv, Commit
    PROVE  IInv'
  <1>1. TxInv /\ tx' = NoTx /\ trades' = trades \cup tx.new /\ hold' = tx.hold
    BY DEF IInv, Commit
  <1>2. ControlOK'
    BY DEF IInv, Commit, ControlOK, clock, control
  <1>3. OrdersOK'
    BY CommittedRows, RewriteOrders DEF IInv, OrdersOK
  <1>4. hold' \in [Symbols -> Int]
    BY <1>1 DEF TxInv, TxShape
  <1>5. FrozenHasNoBuys'
    <2>1. frozen' = frozen
      BY DEF Commit, control
    <2>2. \A k \in ActiveIds' : /\ k \in ActiveIds /\ orders'[k].sym = orders[k].sym
                               /\ orders'[k].dir = orders[k].dir
      BY CommittedRows DEF ActiveIds
    <2> QED BY <2>1, <2>2 DEF IInv, FrozenHasNoBuys
  <1>6. LedgerInv'
    <2>1. \A t \in trades : t.oid \in DOMAIN orders \ ActiveIds
      BY DEF IInv, LedgerInv, ActiveIds
    <2>2. \A t \in tx.new : t.oid \in ActiveIds
      BY <1>1 DEF TxInv, TxTrades
    <2>3. \A t \in trades' : /\ t.oid \in DOMAIN orders' /\ orders'[t.oid].status = "filled"
                             /\ Eligible(orders'[t.oid], t.date, t.at)
      <3>1. ASSUME NEW t \in trades
            PROVE  /\ t.oid \in DOMAIN orders' /\ orders'[t.oid].status = "filled"
                   /\ Eligible(orders'[t.oid], t.date, t.at)
        BY <2>1, CommittedRows DEF IInv, LedgerInv
      <3>2. ASSUME NEW t \in tx.new
            PROVE  /\ t.oid \in DOMAIN orders' /\ orders'[t.oid].status = "filled"
                   /\ Eligible(orders'[t.oid], t.date, t.at)
        <4>1. t.oid \in ActiveIds /\ tx.st[t.oid] = "filled" /\ Eligible(orders[t.oid], t.date, t.at)
          BY <1>1 DEF TxInv, TxTrades
        <4>2. t.oid \in DOMAIN orders
          BY <4>1 DEF ActiveIds
        <4> QED BY <4>1, <4>2, CommittedRows DEF Eligible
      <3> QED BY <1>1, <3>1, <3>2
    <2>4. \A t, u \in trades' : t.oid = u.oid => t = u
      BY <1>1, <2>1, <2>2 DEF IInv, LedgerInv, TxInv, TxTrades
    <2>5. \A k \in DOMAIN orders' : orders'[k].status = "filled" => \E t \in trades' : t.oid = k
      BY <1>1, CommittedRows DEF IInv, LedgerInv, TxInv, TxTrades
    <2>6. (\A t, u \in trades : t.oid = u.oid => t = u)'
      BY <2>4
    <2> QED BY <2>3, <2>5, <2>6 DEF LedgerInv, Eligible
  <1>7. PlanInv'
    BY DEF IInv, PlanInv, Commit
  <1> QED BY <1>1, <1>2, <1>3, <1>4, <1>5, <1>6, <1>7 DEF IInv

-----------------------------------------------------------------------------
LEMMA StepInv == IInv /\ [Next]_vars => IInv'
  <1> SUFFICES ASSUME IInv, [Next]_vars PROVE IInv'
    OBVIOUS
  <1>1. CASE Tick
    BY <1>1, QuietStep, NSamplesAssumption DEF IInv, Tick, ControlOK, PlanInv, control, book
  <1>2. CASE NextDay
    BY <1>2, QuietStep, NSamplesAssumption, BoundsAssumption DEF IInv, NextDay, ControlOK, PlanInv, control, book
  <1>3. ASSUME NEW spec \in OrderSpecs, PlaceOrder(spec) PROVE IInv'
    BY <1>3, PlaceOrderStep
  <1>4. ASSUME NEW s \in Symbols, EmergencySell(s) PROVE IInv'
    BY <1>4, EmergencySellStep
  <1>5. ASSUME NEW s \in Symbols, FreezeSecurity(s) PROVE IInv'
    BY <1>5, FreezeSecurityStep
  <1>6. ASSUME NEW s \in Symbols, UnfreezeSecurity(s) PROVE IInv'
    BY <1>6, QuietStep DEF UnfreezeSecurity, IInv, ControlOK, PlanInv, clock, book
  <1>7. ASSUME NEW target \in {"normal", "paused_buy", "halted"}, Control(target) PROVE IInv'
    BY <1>7, QuietStep DEF Control, IInv, ControlOK, PlanInv, clock, book
  <1>8. ASSUME NEW d \in 1..today, PlanDay(d) PROVE IInv'
    BY <1>8, PlanDayStep
  <1>9. ASSUME NEW market \in Markets, SettleAccount(market) PROVE IInv'
    BY <1>9, SettleAccountStep
  <1>10. CASE GiveUp
    BY <1>10, QuietStep DEF GiveUp, IInv, ControlOK, PlanInv, clock, control, book
  <1>11. ASSUME NEW k \in DOMAIN orders, JudgeOrder(k) PROVE IInv'
    BY <1>11, JudgeOrderStep
  <1>12. CASE Commit
    BY <1>12, CommitStep
  <1>13. CASE Abort
    <2>1. ControlOK' /\ OrdersOK' /\ hold' = hold /\ FrozenHasNoBuys' /\ tx' = NoTx
      BY <1>13 DEF Abort, IInv, ControlOK, OrdersOK, FrozenHasNoBuys, ActiveIds, clock, control, book
    <2>2. LedgerInv' /\ PlanInv'
      BY <1>13 DEF Abort, IInv, LedgerInv, PlanInv, Eligible, book
    <2> QED BY <2>1, <2>2 DEF IInv
  <1>14. CASE UNCHANGED vars
    BY <1>14, QuietStep DEF vars, clock, control, book, IInv, ControlOK, PlanInv
  <1> QED BY <1>1, <1>2, <1>3, <1>4, <1>5, <1>6, <1>7, <1>8, <1>9,
             <1>10, <1>11, <1>12, <1>13, <1>14 DEF Next

LEMMA Invariance == Spec => []IInv
  BY InitInv, StepInv, PTL DEF Spec

\* OrdersTyped: the order table only ever holds rows of condition_orders in their
\* six states, and the account's day, status and frozen list stay in theirs.
THEOREM OrdersTyped == Spec => [](ControlOK /\ OrdersOK)
  <1>1. IInv => ControlOK /\ OrdersOK
    BY DEF IInv
  <1> QED BY <1>1, Invariance, PTL

\* NoFrozenBuy: no buy of a frozen security ever waits for a settlement.
THEOREM NoFrozenBuy == Spec => []FrozenHasNoBuys
  <1>1. IInv => FrozenHasNoBuys
    BY DEF IInv
  <1> QED BY <1>1, Invariance, PTL

\* OrdersTradeOnce: however often days are settled, repeated, rolled back or
\* caught up, an order has one trade if it is filled and none otherwise.
THEOREM OrdersTradeOnce == Spec => []OneTradePerOrder
  <1>1. IInv => OneTradePerOrder
    BY DEF IInv, LedgerInv, OneTradePerOrder
  <1> QED BY <1>1, Invariance, PTL

\* ReplayIsCausal: no order trades at a sample taken before it was created.
THEOREM ReplayIsCausal == Spec => []NoLookAhead
  <1>1. IInv => NoLookAhead
    BY DEF IInv, LedgerInv, NoLookAhead
  <1> QED BY <1>1, Invariance, PTL

\* SettlementIsFinal: a day in settlement_log never gets another trade.
THEOREM SettlementIsFinal == Spec => SettledDayIsSealed
  <1> DEFINE Sealing == \A d \in settled : {t \in trades' : t.date = d} = {t \in trades : t.date = d}
  <1>1. IInv /\ [Next]_vars => [Sealing]_vars
    <2> SUFFICES ASSUME IInv, Next PROVE Sealing
      OBVIOUS
    <2>1. CASE Commit
      <3>1. TxInv /\ trades' = trades \cup tx.new
        BY <2>1 DEF Commit, IInv
      <3>2. \A t \in tx.new : t.date \notin settled
        BY <3>1 DEF TxInv, TxTrades
      <3> QED BY <3>1, <3>2
    <2>2. CASE trades' = trades
      BY <2>2
    <2> QED BY <2>1, <2>2 DEF Next, Tick, NextDay, PlaceOrder, EmergencySell, FreezeSecurity,
              FreezeAndCancel, UnfreezeSecurity, Control, PlanDay, SettleAccount, GiveUp, JudgeOrder, Abort, book
  <1> QED BY <1>1, Invariance, PTL DEF Spec, SettledDayIsSealed

\* NoOrderReopens: filled, expired, invalid and cancelled are final states, for the
\* settlement too, which works on a copy of the orders.
THEOREM NoOrderReopens == Spec => ClosedOrdersStayClosed
  <1> DEFINE Closed == \A k \in DOMAIN orders : orders[k].status \in Terminal => orders'[k] = orders[k]
  <1>1. IInv /\ [Next]_vars => [Closed]_vars
    <2> SUFFICES ASSUME IInv, Next PROVE Closed
      OBVIOUS
    <2>1. \A k \in DOMAIN orders : orders[k].status \in Terminal => k \notin ActiveIds
      BY DEF Terminal, ActiveIds
    <2>2. CASE Commit
      BY <2>1, <2>2, CommittedRows
    <2>3. ASSUME NEW s \in Symbols, FreezeSecurity(s) PROVE Closed
      BY <2>1, <2>3 DEF FreezeSecurity, FreezeAndCancel, RestingBuys
    <2>4. ASSUME NEW row, orders' = Append(orders, row) PROVE Closed
      <3>1. orders \in Seq(OrderType) /\ DOMAIN orders = 1..Len(orders)
        BY LenProperties DEF IInv, OrdersOK
      <3> QED BY <3>1, <2>4
    <2>5. CASE orders' = orders
      BY <2>5
    <2>6. \/ Commit \/ orders' = orders \/ \E row : orders' = Append(orders, row)
          \/ \E s \in Symbols : FreezeSecurity(s)
      BY DEF Next, Tick, NextDay, PlaceOrder, EmergencySell, UnfreezeSecurity, Control,
             PlanDay, SettleAccount, GiveUp, JudgeOrder, Abort
    <2> QED BY <2>2, <2>3, <2>4, <2>5, <2>6
  <1> QED BY <1>1, Invariance, PTL DEF Spec, ClosedOrdersStayClosed

-----------------------------------------------------------------------------
(* Lots, and the shares in them.                                           *)

LEMMA SharesEmpty == Shares({}) = 0
  BY FunSumEmpty DEF Shares

LEMMA SharesNat ==
    ASSUME NEW L, IsFiniteSet(L), \A l \in L : l.rem \in Nat
    PROVE  Shares(L) \in Nat
  <1> DEFINE F == [l \in L |-> l.rem]
  <1>1. IsFiniteSet(DOMAIN F) /\ \A l \in DOMAIN F : F[l] \in Nat
    OBVIOUS
  <1> HIDE DEF F
  <1>2. SumFunction(F) \in Nat
    BY <1>1, FunSumNat
  <1> QED BY <1>2 DEF F, Shares

LEMMA SharesAdd ==
    ASSUME NEW L, NEW x, IsFiniteSet(L), x \notin L, \A l \in L \cup {x} : l.rem \in Nat
    PROVE  Shares(L \cup {x}) = Shares(L) + x.rem
  <1> DEFINE F == [l \in L \cup {x} |-> l.rem]
             G == [l \in L |-> l.rem]
  <1>1. /\ IsFiniteSet(DOMAIN G) /\ x \notin DOMAIN G /\ DOMAIN F = DOMAIN G \cup {x}
        /\ \A l \in DOMAIN G : G[l] = F[l]
        /\ \A l \in DOMAIN F : F[l] \in Int
        /\ F[x] = x.rem
    OBVIOUS
  <1> HIDE DEF F, G
  <1>2. SumFunction(F) = SumFunction(G) + x.rem
    BY <1>1, FunSumAdd
  <1> QED BY <1>2 DEF F, G, Shares

LEMMA SharesSplit ==
    ASSUME NEW L, NEW M, IsFiniteSet(L), IsFiniteSet(M), L \cap M = {},
           \A l \in L \cup M : l.rem \in Nat
    PROVE  Shares(L \cup M) = Shares(L) + Shares(M)
  <1> DEFINE F == [l \in L \cup M |-> l.rem]
             G == [l \in L |-> l.rem]
             H == [l \in M |-> l.rem]
  <1>1. /\ DOMAIN F = DOMAIN G \cup DOMAIN H /\ DOMAIN G \cap DOMAIN H = {}
        /\ \A l \in DOMAIN G : G[l] = F[l]
        /\ \A l \in DOMAIN H : H[l] = F[l]
        /\ \A l \in DOMAIN F : F[l] \in Int
    OBVIOUS
  <1>2. IsFiniteSet(DOMAIN F)
    BY FS_Union
  <1> HIDE DEF F, G, H
  <1>3. SumFunction(F) = SumFunction(G) + SumFunction(H)
    BY <1>1, <1>2, FunSumSplit
  <1> QED BY <1>3 DEF F, G, H, Shares

LEMMA SharesSubset ==
    ASSUME NEW L, NEW M \in SUBSET L, IsFiniteSet(L), \A l \in L : l.rem \in Nat
    PROVE  Shares(M) <= Shares(L)
  <1> DEFINE N == L \ M
  <1>1. /\ IsFiniteSet(M) /\ IsFiniteSet(N) /\ M \cap N = {} /\ L = M \cup N
        /\ \A l \in M : l.rem \in Nat
        /\ \A l \in N : l.rem \in Nat
    BY FS_Subset
  <1> HIDE DEF N
  <1>2. Shares(M \cup N) = Shares(M) + Shares(N)
    BY <1>1, SharesSplit
  <1>3. Shares(M) \in Nat /\ Shares(N) \in Nat
    BY <1>1, SharesNat
  <1> QED BY <1>1, <1>2, <1>3

\* The lots of an account: one for each order that bought.
LotsOK(L) == /\ IsFiniteSet(L) /\ L \subseteq LotType
             /\ \A l, m \in L : l.oid = m.oid => l = m

\* Of the lots one is the newest: all others are older.
LEMMA NewestLot ==
    ASSUME NEW S, LotsOK(S), S # {}
    PROVE  \E x \in S : Older(x, S) = S \ {x} /\ \A l \in S : x \notin Older(l, S)
  <1> DEFINE Prior(m, l) == m.date < l.date \/ (m.date = l.date /\ LotId[m.oid] < LotId[l.oid])
             P == {T \in SUBSET S : T # {} => \E x \in T : \A l \in T \ {x} : Prior(l, x)}
  <1>1. \A l \in S : l.date \in Int /\ l.oid \in 1..MaxOrders /\ LotId[l.oid] \in Int
    BY LotIdAssumption, BoundsAssumption DEF LotsOK, LotType, OrderIds
  <1>2. \A l, m \in S : LotId[l.oid] = LotId[m.oid] => l = m
    BY <1>1, LotIdAssumption DEF LotsOK
  <1>3. ASSUME NEW T \in SUBSET S, \A x \in T : T \ {x} \in P, T # {}
        PROVE  \E x \in T : \A l \in T \ {x} : Prior(l, x)
    <2>1. PICK y \in T : TRUE
      BY <1>3
    <2>2. CASE T \ {y} = {}
      BY <2>1, <2>2
    <2>3. CASE T \ {y} # {}
      <3>1. PICK m \in T \ {y} : \A l \in (T \ {y}) \ {m} : Prior(l, m)
        BY <1>3, <2>1, <2>3
      <3>2. Prior(m, y) \/ Prior(y, m)
        BY <1>1, <1>2, <3>1
      <3>3. CASE Prior(y, m)
        BY <3>1, <3>3
      <3>4. CASE Prior(m, y)
        <4>1. ASSUME NEW l \in T \ {y} PROVE Prior(l, y)
          <5>1. CASE l = m
            BY <3>4, <5>1
          <5>2. CASE l # m
            <6>1. Prior(l, m)
              BY <3>1, <5>2
            <6> QED BY <1>1, <3>1, <3>4, <6>1
          <5> QED BY <5>1, <5>2
        <4> QED BY <4>1
      <3> QED BY <3>2, <3>3, <3>4
    <2> QED BY <2>2, <2>3
  <1>4. \A T \in SUBSET S : (\A x \in T : T \ {x} \in P) => T \in P
    BY <1>3
  <1>5. \A T \in SUBSET S : T \in P
    <2> HIDE DEF P
    <2> QED BY <1>4, SubsetInduction DEF LotsOK
  <1>6. PICK x \in S : \A l \in S \ {x} : Prior(l, x)
    BY <1>5
  <1>7. \A l \in S : ~Prior(x, l)
    <2>1. ~Prior(x, x)
      BY <1>1
    <2>2. ASSUME NEW l \in S \ {x} PROVE ~Prior(x, l)
      BY <1>1, <1>6
    <2> QED BY <2>1, <2>2
  <1>8. Older(x, S) = {m \in S : Prior(m, x)} /\ \A l \in S : Older(l, S) = {m \in S : Prior(m, l)}
    BY DEF Older
  <1> HIDE DEF Prior
  <1> QED BY <1>6, <1>7, <1>8

\* A sale takes from each lot at most what it has.
LEMMA TakenBounds ==
    ASSUME NEW S, LotsOK(S), NEW q \in Int, NEW l \in S
    PROVE  Taken(l, S, q) \in 0..l.rem /\ l.rem \in Nat
  <1>1. l.rem \in Nat /\ \A m \in S : m.rem \in Nat
    BY DEF LotsOK, LotType
  <1>2. IsFiniteSet(Older(l, S)) /\ \A m \in Older(l, S) : m.rem \in Nat
    BY <1>1, FS_Subset DEF Older, LotsOK
  <1>3. Shares(Older(l, S)) \in Nat
    BY <1>2, SharesNat
  <1> QED BY <1>1, <1>3 DEF Taken, Lesser, Greater

\* First in, first out takes what was sold, or all there is.
TakenFrom(S, q) == SumFunction([l \in S |-> Taken(l, S, q)])
LEMMA TakenAll ==
    ASSUME NEW S, LotsOK(S), NEW q \in Nat
    PROVE  TakenFrom(S, q) = Lesser(q, Shares(S))
  <1> DEFINE P == {T \in SUBSET S : TakenFrom(T, q) = Lesser(q, Shares(T))}
  <1>1. ASSUME NEW T \in SUBSET S, \A x \in T : T \ {x} \in P
        PROVE  T \in P
    <2>1. LotsOK(T)
      BY FS_Subset DEF LotsOK
    <2>2. CASE T = {}
      <3>1. TakenFrom({}, q) = 0
        BY FunSumEmpty DEF TakenFrom
      <3> QED BY <2>2, <3>1, SharesEmpty DEF Lesser
    <2>3. CASE T # {}
      <3>1. PICK x \in T : Older(x, T) = T \ {x} /\ \A l \in T : x \notin Older(l, T)
        BY <2>1, <2>3, NewestLot
      <3> DEFINE U == T \ {x}
                 F == [l \in T |-> Taken(l, T, q)]
                 G == [l \in U |-> Taken(l, U, q)]
      <3>2. LotsOK(U) /\ x \notin U /\ U \cup {x} = T
        BY <2>1, FS_Subset DEF LotsOK
      <3>3. \A l \in U : Older(l, T) = Older(l, U)
        BY <3>1 DEF Older
      <3>4. \A l \in U : G[l] = F[l]
        BY <3>3 DEF Taken
      <3>5. \A l \in T : F[l] \in Int
        BY <2>1, TakenBounds
      <3>6. /\ IsFiniteSet(DOMAIN G) /\ x \notin DOMAIN G /\ DOMAIN F = DOMAIN G \cup {x}
            /\ \A l \in DOMAIN G : G[l] = F[l]
            /\ \A l \in DOMAIN F : F[l] \in Int
            /\ F[x] = Lesser(x.rem, Greater(0, q - Shares(U)))
        BY <3>1, <3>2, <3>4, <3>5 DEF LotsOK, Taken
      <3>7. /\ IsFiniteSet(U) /\ x \notin U /\ \A l \in U \cup {x} : l.rem \in Nat
            /\ \A l \in U : l.rem \in Nat
            /\ x.rem \in Nat
        BY <2>1, <3>2 DEF LotsOK, LotType
      <3>8. TakenFrom(U, q) = Lesser(q, Shares(U))
        BY <1>1, <3>1
      <3> HIDE DEF F, G, U
      <3>9. SumFunction(F) = SumFunction(G) + F[x]
        BY <3>6, FunSumAdd
      <3>10. Shares(T) = Shares(U) + x.rem
        BY <3>2, <3>7, SharesAdd
      <3>11. Shares(U) \in Nat
        BY <3>7, SharesNat
      <3>12. SumFunction(F) = TakenFrom(T, q) /\ SumFunction(G) = TakenFrom(U, q)
        BY DEF F, G, TakenFrom
      <3>13. TakenFrom(T, q) = Lesser(q, Shares(U)) + Lesser(x.rem, Greater(0, q - Shares(U)))
        BY <3>6, <3>8, <3>9, <3>12
      <3>14. Lesser(q, Shares(U)) + Lesser(x.rem, Greater(0, q - Shares(U)))
               = Lesser(q, Shares(U) + x.rem)
        BY <3>7, <3>11 DEF Lesser, Greater
      <3> QED BY <3>10, <3>13, <3>14
    <2> QED BY <2>2, <2>3
  <1>2. \A T \in SUBSET S : T \in P
    <2> HIDE DEF P
    <2> QED BY <1>1, SubsetInduction DEF LotsOK
  <1> QED BY <1>2

\* The lots of a sale that leaves some: those not sold from, and the others with less.
Less(l, S, q) == [l EXCEPT !.rem = @ - Taken(l, S, q)]
LEMMA LessLot ==
    ASSUME NEW S, LotsOK(S), NEW q \in Nat, NEW l \in S
    PROVE  /\ Less(l, S, q) \in LotType
           /\ \A f \in {"oid", "sym", "date"} : Less(l, S, q)[f] = l[f]
           /\ Less(l, S, q).rem = l.rem - Taken(l, S, q)
  <1>1. l \in LotType /\ Taken(l, S, q) \in 0..l.rem /\ l.rem \in Nat
    BY TakenBounds DEF LotsOK
  <1>2. l.rem - Taken(l, S, q) \in Nat
    BY <1>1
  <1> QED BY <1>1, <1>2 DEF Less, LotType

Kept(A, S, q) == (A \ S) \cup {Less(l, S, q) : l \in A \cap S}
Gone(A, S, q) == SumFunction([l \in A \cap S |-> Taken(l, S, q)])
LEMMA SharesKept ==
    ASSUME NEW L, LotsOK(L), NEW S \in SUBSET L, NEW q \in Nat, NEW A \in SUBSET L
    PROVE  /\ LotsOK(Kept(A, S, q))
           /\ Shares(Kept(A, S, q)) = Shares(A) - Gone(A, S, q)
           /\ Gone(A, S, q) \in Nat
  <1> DEFINE B == A \ S
             C == A \cap S
             Im == {Less(l, S, q) : l \in C}
             h == [l \in C |-> Less(l, S, q)]
             F == [l \in C |-> l.rem - Taken(l, S, q)]
             G == [m \in Im |-> m.rem]
             H == [l \in C |-> Taken(l, S, q)]
             K == [l \in C |-> l.rem]
  <1>1. LotsOK(S) /\ LotsOK(B) /\ LotsOK(C) /\ LotsOK(A) /\ B \cup C = A /\ B \cap C = {}
    BY FS_Subset DEF LotsOK
  <1>2. \A l \in C : /\ Less(l, S, q) \in LotType
                     /\ \A f \in {"oid", "sym", "date"} : Less(l, S, q)[f] = l[f]
                     /\ Less(l, S, q).rem = l.rem - Taken(l, S, q)
                     /\ Taken(l, S, q) \in Nat /\ l.rem - Taken(l, S, q) \in Nat /\ l.rem \in Nat
    BY <1>1, LessLot, TakenBounds
  <1>3. \A l, m \in C : Less(l, S, q).oid = Less(m, S, q).oid => l = m
    BY <1>1, <1>2 DEF LotsOK
  <1>4. /\ IsFiniteSet(DOMAIN F) /\ DOMAIN G = {h[l] : l \in DOMAIN F}
        /\ \A l, m \in DOMAIN F : h[l] = h[m] => l = m
        /\ \A l \in DOMAIN F : F[l] \in Int /\ G[h[l]] = F[l]
    BY <1>1, <1>2, <1>3 DEF LotsOK
  <1>5. IsFiniteSet(Im) /\ SumFunction(G) = SumFunction(F)
    <2>1. IsFiniteSet(DOMAIN G) /\ SumFunction(G) = SumFunction(F)
      <3> HIDE DEF F, G, h
      <3> QED BY <1>4, FunSumImage
    <2> QED BY <2>1
  <1>6. SumFunction(K) = SumFunction(F) + SumFunction(H)
    <2>1. /\ IsFiniteSet(C) /\ DOMAIN F = C /\ DOMAIN H = C /\ DOMAIN K = C
          /\ \A l \in C : F[l] \in Int /\ H[l] \in Int /\ K[l] = F[l] + H[l]
      BY <1>1, <1>2 DEF LotsOK
    <2> HIDE DEF F, H, K, C
    <2> QED BY <2>1, FunSumPlus
  <1>7. SumFunction(F) \in Nat /\ SumFunction(H) \in Nat
    <2>1. /\ IsFiniteSet(DOMAIN F) /\ IsFiniteSet(DOMAIN H)
          /\ \A l \in DOMAIN F : F[l] \in Nat
          /\ \A l \in DOMAIN H : H[l] \in Nat
      BY <1>1, <1>2 DEF LotsOK
    <2> HIDE DEF F, H
    <2> QED BY <2>1, FunSumNat
  <1>8. B \cap Im = {} /\ LotsOK(B \cup Im)
    <2>1. \A b \in B, l \in C : b.oid # l.oid
      BY DEF LotsOK
    <2>2. IsFiniteSet(B \cup Im)
      BY <1>1, <1>5, FS_Union DEF LotsOK
    <2>3. B \cup Im \subseteq LotType
      BY <1>1, <1>2 DEF LotsOK
    <2>4. ASSUME NEW l \in B \cup Im, NEW m \in B \cup Im, l.oid = m.oid PROVE l = m
      <3>1. CASE l \in B /\ m \in B
        BY <1>1, <2>4, <3>1 DEF LotsOK
      <3>2. CASE l \in B /\ m \in Im
        BY <1>2, <2>1, <2>4, <3>2
      <3>3. CASE l \in Im /\ m \in B
        BY <1>2, <2>1, <2>4, <3>3
      <3>4. CASE l \in Im /\ m \in Im
        BY <1>3, <2>4, <3>4
      <3> QED BY <3>1, <3>2, <3>3, <3>4
    <2>5. B \cap Im = {}
      BY <1>2, <2>1
    <2> QED BY <2>2, <2>3, <2>4, <2>5 DEF LotsOK
  <1>9. Shares(B \cup Im) = Shares(B) + Shares(Im)
    <2>1. /\ IsFiniteSet(B) /\ IsFiniteSet(Im) /\ B \cap Im = {}
          /\ \A l \in B \cup Im : l.rem \in Nat
      BY <1>1, <1>5, <1>8 DEF LotsOK, LotType
    <2> HIDE DEF B, Im
    <2> QED BY <2>1, SharesSplit
  <1>10. Shares(A) = Shares(B) + Shares(C)
    <2>1. /\ IsFiniteSet(B) /\ IsFiniteSet(C) /\ B \cap C = {} /\ B \cup C = A
          /\ \A l \in B \cup C : l.rem \in Nat
      BY <1>1 DEF LotsOK, LotType
    <2> HIDE DEF B, C
    <2> QED BY <2>1, SharesSplit
  <1>11. Shares(Im) = SumFunction(G) /\ Shares(C) = SumFunction(K)
    BY DEF Shares
  <1>12. Shares(B) \in Nat
    <2>1. IsFiniteSet(B) /\ \A l \in B : l.rem \in Nat
      BY <1>1 DEF LotsOK, LotType
    <2> HIDE DEF B
    <2> QED BY <2>1, SharesNat
  <1> HIDE DEF B, C, Im, F, G, K
  <1>13. Shares(B \cup Im) = Shares(A) - SumFunction(H)
    BY <1>5, <1>6, <1>7, <1>9, <1>10, <1>11, <1>12
  <1> QED BY <1>7, <1>8, <1>13 DEF B, C, Im, Kept, Gone

-----------------------------------------------------------------------------
(* Trades: the money that flows and the shares that change hands.          *)

LEMMA FlowAdd ==
    ASSUME NEW T, NEW t, IsFiniteSet(T), t \notin T, T \cup {t} \subseteq TradeType
    PROVE  FlowOf(T \cup {t}) = FlowOf(T) + Flow(t) /\ FlowOf(T) \in Int /\ Flow(t) \in Int
  <1> DEFINE F == [u \in T \cup {t} |-> Flow(u)]
             G == [u \in T |-> Flow(u)]
  <1>1. \A u \in T \cup {t} : Flow(u) \in Int
    BY DEF Flow, TradeType
  <1>2. /\ IsFiniteSet(DOMAIN G) /\ t \notin DOMAIN G /\ DOMAIN F = DOMAIN G \cup {t}
        /\ \A u \in DOMAIN G : G[u] = F[u]
        /\ \A u \in DOMAIN F : F[u] \in Int
        /\ \A u \in DOMAIN G : G[u] \in Int
        /\ F[t] = Flow(t)
    BY <1>1
  <1> HIDE DEF F, G
  <1>3. SumFunction(F) = SumFunction(G) + Flow(t) /\ SumFunction(G) \in Int
    BY <1>2, FunSumAdd, FunSumInt
  <1> QED BY <1>1, <1>3 DEF F, G, FlowOf

LEMMA QtyAdd ==
    ASSUME NEW T, NEW t, IsFiniteSet(T), t \notin T, T \cup {t} \subseteq TradeType
    PROVE  QtyOf(T \cup {t}) = QtyOf(T) + t.qty
  <1> DEFINE F == [u \in T \cup {t} |-> u.qty]
             G == [u \in T |-> u.qty]
  <1>1. /\ IsFiniteSet(DOMAIN G) /\ t \notin DOMAIN G /\ DOMAIN F = DOMAIN G \cup {t}
        /\ \A u \in DOMAIN G : G[u] = F[u]
        /\ \A u \in DOMAIN F : F[u] \in Int
        /\ F[t] = t.qty
    BY DEF TradeType
  <1> HIDE DEF F, G
  <1>2. SumFunction(F) = SumFunction(G) + t.qty
    BY <1>1, FunSumAdd
  <1> QED BY <1>2 DEF F, G, QtyOf

LEMMA QtyNat ==
    ASSUME NEW T, IsFiniteSet(T), T \subseteq TradeType
    PROVE  QtyOf(T) \in Nat
  <1> DEFINE F == [u \in T |-> u.qty]
  <1>1. IsFiniteSet(DOMAIN F) /\ \A u \in DOMAIN F : F[u] \in Nat
    BY DEF TradeType
  <1> HIDE DEF F
  <1>2. SumFunction(F) \in Nat
    BY <1>1, FunSumNat
  <1> QED BY <1>2 DEF F, QtyOf

\* What one more trade adds to the shares bought and sold up to a day.
LEMMA BoughtSold ==
    ASSUME NEW T, NEW t, IsFiniteSet(T), t \notin T, T \cup {t} \subseteq TradeType,
           NEW s, NEW d, NEW T1, T1 = T \cup {t}
    PROVE  /\ Bought(T, s, d) \in Nat /\ Sold(T, s, d) \in Nat
           /\ Bought(T1, s, d) = Bought(T, s, d)
                + (IF t.side = "buy" /\ t.sym = s /\ t.date < d THEN t.qty ELSE 0)
           /\ Sold(T1, s, d) = Sold(T, s, d)
                + (IF t.side = "sell" /\ t.sym = s /\ t.date <= d THEN t.qty ELSE 0)
  <1> DEFINE B == {u \in T : u.side = "buy" /\ u.sym = s /\ u.date < d}
             B1 == {u \in T1 : u.side = "buy" /\ u.sym = s /\ u.date < d}
             S == {u \in T : u.side = "sell" /\ u.sym = s /\ u.date <= d}
             S1 == {u \in T1 : u.side = "sell" /\ u.sym = s /\ u.date <= d}
  <1>1. /\ IsFiniteSet(B) /\ B \subseteq TradeType /\ t \notin B /\ B \cup {t} \subseteq TradeType
        /\ IsFiniteSet(S) /\ S \subseteq TradeType /\ t \notin S /\ S \cup {t} \subseteq TradeType
    BY FS_Subset
  <1>2. /\ B1 = IF t.side = "buy" /\ t.sym = s /\ t.date < d THEN B \cup {t} ELSE B
        /\ S1 = IF t.side = "sell" /\ t.sym = s /\ t.date <= d THEN S \cup {t} ELSE S
    OBVIOUS
  <1> HIDE DEF B, S, B1, S1
  <1>3. QtyOf(B) \in Nat /\ QtyOf(S) \in Nat
    BY <1>1, QtyNat
  <1>4. QtyOf(B \cup {t}) = QtyOf(B) + t.qty /\ QtyOf(S \cup {t}) = QtyOf(S) + t.qty
    BY <1>1, QtyAdd
  <1>5. /\ QtyOf(B1) = QtyOf(B) + (IF t.side = "buy" /\ t.sym = s /\ t.date < d THEN t.qty ELSE 0)
        /\ QtyOf(S1) = QtyOf(S) + (IF t.side = "sell" /\ t.sym = s /\ t.date <= d THEN t.qty ELSE 0)
    BY <1>2, <1>3, <1>4
  <1> QED BY <1>3, <1>5 DEF B, S, B1, S1, Bought, Sold

\* What dear sales cost is never more than nothing.
LEMMA DearFlow ==
    ASSUME NEW T, IsFiniteSet(T), T \subseteq TradeType
    PROVE  FlowOf(DearSales(T)) \in Int /\ FlowOf(DearSales(T)) <= 0
  <1> DEFINE D == DearSales(T)
             F == [t \in D |-> Flow(t)]
             Z == [t \in D |-> 0]
  <1>1. IsFiniteSet(D)
    BY FS_Subset DEF DearSales
  <1>2. \A t \in D : F[t] \in Int /\ Z[t] \in Int /\ F[t] <= Z[t] /\ Z[t] = 0
    BY DEF DearSales, Flow, TradeType
  <1>3. DOMAIN F = D /\ SumFunction(F) = FlowOf(DearSales(T))
    BY DEF FlowOf
  <1> HIDE DEF D, F, Z
  <1>4. SumFunctionOnSet(F, D) <= SumFunctionOnSet(Z, D) /\ SumFunctionOnSet(Z, D) = 0
    BY <1>1, <1>2, SumMonotone, SumZero
  <1>5. SumFunctionOnSet(F, D) \in Int
    BY <1>1, <1>2, SumInt
  <1> QED BY <1>3, <1>4, <1>5 DEF SumFunction

-----------------------------------------------------------------------------
(* The state of an account, in the books or in an open settlement: cash,    *)
(* lots and holdings against the trades that led to them.  The shares left  *)
(* of what was bought before a day are at most those bought before it and   *)
(* not sold by then: a sale takes from lots of earlier days only, so what   *)
(* was sold up to a day came from lots bought before it.                    *)

LotsUntil(L, s, d) == {l \in L : l.sym = s /\ l.date < d}
Account(c, L, h, T) ==
    /\ c \in Int /\ LotsOK(L) /\ h \in [Symbols -> Int]
    /\ IsFiniteSet(T) /\ T \subseteq TradeType
    /\ \A l \in L : \E t \in T : t.oid = l.oid
    /\ c = InitCash + FlowOf(T) /\ c >= FlowOf(DearSales(T))
    /\ LotsHold(L, h) /\ \A l \in L : h[l.sym] > 0
    /\ \A s \in Symbols, d \in 1..MaxDay :
          Sold(T, s, d) + Shares(LotsUntil(L, s, d)) <= Bought(T, s, d)

\* The money after one more trade that the account could pay for, or that is a sale.
LEMMA TradeMoney ==
    ASSUME NEW c, NEW L, NEW h, NEW T, Account(c, L, h, T), NEW t \in TradeType, t \notin T,
           t.side = "buy" => c >= t.amt + t.fee
    PROVE  LET c1 == c + Flow(t)
               T1 == T \cup {t}
           IN  /\ c1 \in Int /\ IsFiniteSet(T1) /\ T1 \subseteq TradeType
               /\ c1 = InitCash + FlowOf(T1) /\ c1 >= FlowOf(DearSales(T1))
  <1> DEFINE T1 == T \cup {t}
             D == DearSales(T)
             D1 == DearSales(T1)
  <1>1. IsFiniteSet(T1) /\ T1 \subseteq TradeType /\ InitCash \in Int
    BY FS_AddElement, MoneyAssumption DEF Account
  <1>2. FlowOf(T1) = FlowOf(T) + Flow(t) /\ FlowOf(T) \in Int /\ Flow(t) \in Int
    BY <1>1, FlowAdd DEF Account
  <1>3. IsFiniteSet(D) /\ t \notin D /\ D \cup {t} \subseteq TradeType
    BY FS_Subset DEF DearSales, Account
  <1>4. FlowOf(D) \in Int /\ FlowOf(D) <= 0
    BY DearFlow DEF Account
  <1>5. c + Flow(t) >= FlowOf(D1)
    <2>1. t.amt \in Int /\ t.fee \in Int /\ t.side \in {"buy", "sell"}
      BY DEF TradeType
    <2>2. c \in Int /\ c >= FlowOf(D)
      BY DEF Account
    <2>3. CASE t.side = "buy"
      <3>1. D1 = D
        BY <2>3 DEF DearSales
      <3>2. c + Flow(t) >= 0
        BY <2>1, <2>2, <2>3 DEF Flow
      <3> QED BY <1>2, <1>4, <2>2, <3>1, <3>2
    <2>4. CASE t.side = "sell" /\ t.amt < t.fee
      <3>1. D1 = D \cup {t}
        BY <2>4 DEF DearSales
      <3> HIDE DEF D, D1, T1
      <3>2. FlowOf(D \cup {t}) = FlowOf(D) + Flow(t)
        BY <1>3, FlowAdd
      <3> QED BY <1>2, <1>4, <2>2, <3>1, <3>2
    <2>5. CASE t.side = "sell" /\ t.amt >= t.fee
      <3>1. D1 = D
        BY <2>1, <2>5 DEF DearSales
      <3>2. Flow(t) >= 0
        BY <2>1, <2>5 DEF Flow
      <3> QED BY <1>2, <1>4, <2>2, <3>1, <3>2
    <2> QED BY <2>1, <2>3, <2>4, <2>5
  <1>6. c + Flow(t) \in Int /\ c + Flow(t) = InitCash + FlowOf(T1)
    BY <1>1, <1>2 DEF Account
  <1> QED BY <1>1, <1>5, <1>6

\* A buy: one lot more, of the order that bought it.
LEMMA AccountBuys ==
    ASSUME NEW c, NEW L, NEW h, NEW T, Account(c, L, h, T),
           NEW t \in TradeType, t.side = "buy", \A u \in T : u.oid # t.oid,
           c >= t.amt + t.fee,
           NEW x \in LotType, x.oid = t.oid, x.sym = t.sym, x.date = t.date, x.rem = t.qty
    PROVE  Account(c - (t.amt + t.fee), L \cup {x}, [h EXCEPT ![t.sym] = @ + t.qty], T \cup {t})
  <1> DEFINE L1 == L \cup {x}
             T1 == T \cup {t}
             h1 == [h EXCEPT ![t.sym] = @ + t.qty]
  <1>1. /\ t \notin T /\ x \notin L /\ t.sym \in Symbols /\ t.qty \in Nat \ {0}
        /\ t.amt \in Int /\ t.fee \in Int /\ t.date \in Int /\ x.rem \in Nat
    BY BoundsAssumption DEF Account, TradeType
  <1>2. \A l \in L1 : l \in LotType /\ l.rem \in Nat /\ l.date \in Int
    BY <1>1, BoundsAssumption DEF Account, LotsOK, LotType
  <1>3. LotsOK(L1)
    <2>1. IsFiniteSet(L1)
      BY FS_AddElement DEF Account, LotsOK
    <2>2. \A l \in L : l.oid # x.oid
      BY DEF Account
    <2> QED BY <1>2, <2>1, <2>2 DEF Account, LotsOK
  <1>4. /\ c + Flow(t) \in Int /\ IsFiniteSet(T1) /\ T1 \subseteq TradeType
        /\ c + Flow(t) = InitCash + FlowOf(T1) /\ c + Flow(t) >= FlowOf(DearSales(T1))
    BY <1>1, TradeMoney
  <1>5. c - (t.amt + t.fee) = c + Flow(t)
    BY <1>1 DEF Flow, Account
  <1>6. \A s \in Symbols : h1[s] = IF s = t.sym THEN h[s] + t.qty ELSE h[s]
    BY <1>1 DEF Account
  <1>7. h1 \in [Symbols -> Int]
    BY <1>1 DEF Account
  <1>8. ASSUME NEW M \in SUBSET L, NEW M1 \in SUBSET L1, M1 = M \/ M1 = M \cup {x}
        PROVE  /\ Shares(M) \in Nat
               /\ Shares(M1) = Shares(M) + (IF M1 = M THEN 0 ELSE t.qty)
    <2>1. IsFiniteSet(M) /\ x \notin M /\ \A l \in M \cup {x} : l.rem \in Nat
      BY <1>1, <1>2, FS_Subset DEF Account, LotsOK
    <2>2. Shares(M) \in Nat
      BY <2>1, SharesNat
    <2>3. Shares(M \cup {x}) = Shares(M) + t.qty
      BY <2>1, SharesAdd
    <2>4. CASE M1 = M
      BY <2>2, <2>4
    <2>5. CASE M1 = M \cup {x}
      <3>1. M1 # M
        BY <2>1, <2>5
      <3> QED BY <2>2, <2>3, <2>5, <3>1
    <2> QED BY <1>8, <2>4, <2>5
  <1>9. LotsHold(L1, h1)
    <2> SUFFICES ASSUME NEW s \in Symbols PROVE h1[s] = Shares({l \in L1 : l.sym = s})
      BY DEF LotsHold
    <2> DEFINE M == {l \in L : l.sym = s}
               M1 == {l \in L1 : l.sym = s}
    <2>1. M1 = IF s = t.sym THEN M \cup {x} ELSE M
      OBVIOUS
    <2>2. (M1 = M) <=> s # t.sym
      BY <1>1, <2>1
    <2>3. Shares(M) \in Nat /\ Shares(M1) = Shares(M) + (IF M1 = M THEN 0 ELSE t.qty)
      <3>1. M \in SUBSET L /\ M1 \in SUBSET L1
        OBVIOUS
      <3> HIDE DEF M, M1, L1
      <3> QED BY <1>8, <2>1, <3>1
    <2>4. h[s] = Shares(M)
      BY DEF Account, LotsHold
    <2> HIDE DEF M, M1, h1
    <2>5. h1[s] = Shares(M1)
      BY <1>1, <1>6, <2>2, <2>3, <2>4
    <2> QED BY <2>5 DEF M1
  <1>10. ASSUME NEW l \in L1 PROVE h1[l.sym] > 0
    <2>1. h[t.sym] \in Nat
      <3>1. h[t.sym] = Shares({m \in L : m.sym = t.sym})
        BY <1>1 DEF Account, LotsHold
      <3> QED BY <1>8, <3>1
    <2>2. l = x \/ (l \in L /\ h[l.sym] > 0 /\ h[l.sym] \in Int /\ l.sym \in Symbols)
      BY <1>2 DEF Account, LotType
    <2> HIDE DEF h1
    <2> QED BY <1>1, <1>6, <2>1, <2>2
  <1>11. ASSUME NEW s \in Symbols, NEW d \in 1..MaxDay
         PROVE  Sold(T1, s, d) + Shares(LotsUntil(L1, s, d)) <= Bought(T1, s, d)
    <2> DEFINE M == LotsUntil(L, s, d)
               M1 == LotsUntil(L1, s, d)
               new == t.sym = s /\ t.date < d
    <2>1. M1 = IF new THEN M \cup {x} ELSE M
      BY DEF LotsUntil
    <2>2. (M1 = M) <=> ~new
      BY <1>1, <2>1 DEF LotsUntil
    <2>3. Shares(M) \in Nat /\ Shares(M1) = Shares(M) + (IF M1 = M THEN 0 ELSE t.qty)
      <3>1. M \in SUBSET L /\ M1 \in SUBSET L1
        BY DEF LotsUntil
      <3> HIDE DEF M, M1, L1
      <3> QED BY <1>8, <2>1, <3>1
    <2>4. /\ Bought(T, s, d) \in Nat /\ Sold(T, s, d) \in Nat
          /\ Bought(T1, s, d) = Bought(T, s, d) + (IF new THEN t.qty ELSE 0)
          /\ Sold(T1, s, d) = Sold(T, s, d)
      <3>1. IsFiniteSet(T) /\ t \notin T /\ T \cup {t} \subseteq TradeType /\ T1 = T \cup {t}
        BY <1>1 DEF Account
      <3> HIDE DEF T1
      <3> QED BY <3>1, BoughtSold
    <2>5. Sold(T, s, d) + Shares(M) <= Bought(T, s, d)
      BY DEF Account
    <2> HIDE DEF M, M1, T1, L1, new
    <2>6. Sold(T1, s, d) + Shares(M1) <= Bought(T1, s, d)
      BY <1>1, <2>2, <2>3, <2>4, <2>5
    <2> QED BY <2>6 DEF M1
  <1>12. \A l \in L1 : \E u \in T1 : u.oid = l.oid
    BY DEF Account
  <1> HIDE DEF L1, T1, h1
  <1>13. Account(c + Flow(t), L1, h1, T1)
    BY <1>3, <1>4, <1>7, <1>9, <1>10, <1>11, <1>12 DEF Account
  <1> QED BY <1>5, <1>13 DEF L1, T1, h1

\* A sale of shares bought on earlier days: first in, first out, or the whole position.
LotsSold(L, h, S, s, q) ==
    IF h[s] = q THEN {l \in L : l.sym # s} ELSE (L \ S) \cup {Less(l, S, q) : l \in S}
LEMMA AccountSells ==
    ASSUME NEW c, NEW L, NEW h, NEW T, Account(c, L, h, T),
           NEW t \in TradeType, t.side = "sell", \A u \in T : u.oid # t.oid,
           NEW S, S = {l \in L : l.sym = t.sym /\ l.date < t.date /\ l.rem > 0},
           Shares(S) >= t.qty
    PROVE  Account(c + (t.amt - t.fee), LotsSold(L, h, S, t.sym, t.qty),
                   [h EXCEPT ![t.sym] = @ - t.qty], T \cup {t})
  <1> DEFINE L1 == LotsSold(L, h, S, t.sym, t.qty)
             T1 == T \cup {t}
             h1 == [h EXCEPT ![t.sym] = @ - t.qty]
             q == t.qty
  <1>1. /\ t \notin T /\ t.sym \in Symbols /\ q \in Nat \ {0}
        /\ t.amt \in Int /\ t.fee \in Int /\ t.date \in Int
        /\ IsFiniteSet(T) /\ T \cup {t} \subseteq TradeType
    BY BoundsAssumption DEF Account, TradeType
  <1>2. LotsOK(L) /\ \A l \in L : l.rem \in Nat /\ l.date \in Int /\ l.sym \in Symbols
    BY BoundsAssumption DEF Account, LotsOK, LotType
  <1>3. S \in SUBSET L /\ LotsOK(S)
    BY <1>2, FS_Subset DEF LotsOK
  <1>4. /\ c + Flow(t) \in Int /\ IsFiniteSet(T1) /\ T1 \subseteq TradeType
        /\ c + Flow(t) = InitCash + FlowOf(T1) /\ c + Flow(t) >= FlowOf(DearSales(T1))
    BY <1>1, TradeMoney
  <1>5. c + (t.amt - t.fee) = c + Flow(t)
    BY <1>1 DEF Flow, Account
  <1>6. /\ h1 \in [Symbols -> Int]
        /\ \A s \in Symbols : h1[s] = IF s = t.sym THEN h[s] - q ELSE h[s]
    BY <1>1 DEF Account
  <1>7. \A M \in SUBSET L : Shares(M) \in Nat
    <2>1. \A M \in SUBSET L : IsFiniteSet(M) /\ \A l \in M : l.rem \in Nat
      BY <1>2, FS_Subset DEF LotsOK
    <2> QED BY <2>1, SharesNat
  <1>8. \A s \in Symbols : h[s] = Shares({l \in L : l.sym = s})
    BY DEF Account, LotsHold
  <1>9. \A d \in 1..MaxDay : t.date <= d => /\ Shares(LotsUntil(L, t.sym, d)) >= q
                                            /\ S \subseteq LotsUntil(L, t.sym, d)
    <2> SUFFICES ASSUME NEW d \in 1..MaxDay, t.date <= d
                 PROVE  /\ Shares(LotsUntil(L, t.sym, d)) >= q
                        /\ S \subseteq LotsUntil(L, t.sym, d)
      OBVIOUS
    <2> DEFINE M == LotsUntil(L, t.sym, d)
    <2>1. S \subseteq M
      BY <1>1, <1>2, BoundsAssumption DEF LotsUntil
    <2>2. M \in SUBSET L
      BY DEF LotsUntil
    <2> HIDE DEF M
    <2>3. IsFiniteSet(M) /\ \A l \in M : l.rem \in Nat
      BY <1>2, <2>2, FS_Subset DEF LotsOK
    <2>4. Shares(S) <= Shares(M)
      BY <2>1, <2>3, SharesSubset
    <2>5. Shares(S) \in Nat /\ Shares(M) \in Nat
      BY <1>3, <1>7, <2>2
    <2> QED BY <1>1, <2>1, <2>4, <2>5 DEF M
  <1>10. \A s \in Symbols, d \in 1..MaxDay :
            /\ Bought(T, s, d) \in Nat /\ Sold(T, s, d) \in Nat
            /\ Bought(T1, s, d) = Bought(T, s, d)
            /\ Sold(T1, s, d) = Sold(T, s, d) + (IF t.sym = s /\ t.date <= d THEN q ELSE 0)
            /\ Sold(T, s, d) + Shares(LotsUntil(L, s, d)) <= Bought(T, s, d)
    <2> SUFFICES ASSUME NEW s \in Symbols, NEW d \in 1..MaxDay
                 PROVE  /\ Bought(T, s, d) \in Nat /\ Sold(T, s, d) \in Nat
                        /\ Bought(T1, s, d) = Bought(T, s, d)
                        /\ Sold(T1, s, d) = Sold(T, s, d) + (IF t.sym = s /\ t.date <= d THEN q ELSE 0)
                        /\ Sold(T, s, d) + Shares(LotsUntil(L, s, d)) <= Bought(T, s, d)
      OBVIOUS
    <2>1. /\ Bought(T, s, d) \in Nat /\ Sold(T, s, d) \in Nat
          /\ Bought(T1, s, d) = Bought(T, s, d)
          /\ Sold(T1, s, d) = Sold(T, s, d) + (IF t.sym = s /\ t.date <= d THEN t.qty ELSE 0)
      <3>1. T1 = T \cup {t}
        OBVIOUS
      <3> HIDE DEF T1
      <3> QED BY <1>1, <3>1, BoughtSold
    <2>2. Sold(T, s, d) + Shares(LotsUntil(L, s, d)) <= Bought(T, s, d)
      BY DEF Account
    <2> QED BY <2>1, <2>2
  <1>11. \A l \in L : (\E u \in T1 : u.oid = l.oid) /\ h[l.sym] > 0
    BY DEF Account
  <1>12. CASE h[t.sym] = q
    <2>1. L1 = {l \in L : l.sym # t.sym}
      BY <1>12 DEF LotsSold
    <2>2. LotsOK(L1)
      BY <1>2, <2>1, FS_Subset DEF LotsOK
    <2>3. \A l \in L1 : h1[l.sym] > 0 /\ \E u \in T1 : u.oid = l.oid
      BY <1>2, <1>6, <1>11, <2>1
    <2>4. LotsHold(L1, h1)
      <3> SUFFICES ASSUME NEW s \in Symbols PROVE h1[s] = Shares({l \in L1 : l.sym = s})
        BY DEF LotsHold
      <3>1. CASE s = t.sym
        <4>1. {l \in L1 : l.sym = s} = {} /\ h1[s] = 0
          BY <1>1, <1>6, <1>12, <2>1, <3>1
        <4> QED BY <4>1, SharesEmpty
      <3>2. CASE s # t.sym
        <4>1. {l \in L1 : l.sym = s} = {l \in L : l.sym = s} /\ h1[s] = h[s]
          BY <1>6, <2>1, <3>2
        <4> QED BY <1>8, <4>1
      <3> QED BY <3>1, <3>2
    <2>5. ASSUME NEW s \in Symbols, NEW d \in 1..MaxDay
          PROVE  Sold(T1, s, d) + Shares(LotsUntil(L1, s, d)) <= Bought(T1, s, d)
      <3>0. LotsUntil(L, s, d) \in SUBSET L
        BY DEF LotsUntil
      <3>1. Shares(LotsUntil(L, s, d)) \in Nat
        BY <1>7, <3>0
      <3>2. CASE s = t.sym
        <4>1. LotsUntil(L1, s, d) = {}
          BY <2>1, <3>2 DEF LotsUntil
        <4>2. Shares(LotsUntil(L1, s, d)) = 0
          BY <4>1, SharesEmpty
        <4> HIDE DEF T1
        <4>3. t.date <= d => Shares(LotsUntil(L, s, d)) >= q
          BY <1>9, <3>2
        <4> QED BY <1>1, <1>10, <3>1, <3>2, <4>2, <4>3
      <3>3. CASE s # t.sym
        <4>1. LotsUntil(L1, s, d) = LotsUntil(L, s, d)
          BY <2>1, <3>3 DEF LotsUntil
        <4> HIDE DEF T1
        <4> QED BY <1>1, <1>10, <3>1, <3>3, <4>1
      <3> QED BY <3>2, <3>3
    <2> HIDE DEF L1, T1, h1
    <2>6. Account(c + Flow(t), L1, h1, T1)
      BY <1>4, <1>6, <2>2, <2>3, <2>4, <2>5 DEF Account
    <2> QED BY <1>5, <2>6 DEF L1, T1, h1
  <1>13. CASE h[t.sym] # q
    <2>1. \A A \in SUBSET L : /\ LotsOK(Kept(A, S, q)) /\ Gone(A, S, q) \in Nat
                              /\ Shares(Kept(A, S, q)) = Shares(A) - Gone(A, S, q)
      BY <1>1, <1>2, <1>3, SharesKept
    <2>2. \A A \in SUBSET L : S \subseteq A => Gone(A, S, q) = q
      <3> SUFFICES ASSUME NEW A \in SUBSET L, S \subseteq A PROVE Gone(A, S, q) = q
        OBVIOUS
      <3>1. A \cap S = S
        OBVIOUS
      <3>2. Gone(A, S, q) = TakenFrom(S, q)
        BY <3>1 DEF TakenFrom, Gone
      <3>3. TakenFrom(S, q) = Lesser(q, Shares(S))
        BY <1>1, <1>3, TakenAll
      <3>4. Shares(S) \in Nat
        BY <1>3, <1>7
      <3> QED BY <1>1, <3>2, <3>3, <3>4 DEF Lesser
    <2>3. \A A \in SUBSET L : A \cap S = {} => Kept(A, S, q) = A
      BY DEF Kept
    <2>4. L1 = Kept(L, S, q)
      <3>1. L \cap S = S
        BY <1>3
      <3> QED BY <1>13, <3>1 DEF LotsSold, Kept
    <2>5. \A l \in S : /\ Less(l, S, q).oid = l.oid /\ Less(l, S, q).sym = l.sym
                       /\ Less(l, S, q).date = l.date
      BY <1>1, <1>3, LessLot
    <2> HIDE DEF L1
    <2>6. ASSUME NEW s \in Symbols
          PROVE  {l \in L1 : l.sym = s} = Kept({l \in L : l.sym = s}, S, q)
      <3> SUFFICES ASSUME NEW m
                   PROVE  m \in L1 /\ m.sym = s <=> m \in Kept({l \in L : l.sym = s}, S, q)
        OBVIOUS
      <3>1. m \in L1 <=> m \in L \ S \/ \E l \in L \cap S : m = Less(l, S, q)
        BY <2>4 DEF Kept
      <3>2. m \in Kept({l \in L : l.sym = s}, S, q)
              <=> \/ m \in L \ S /\ m.sym = s
                  \/ \E l \in L \cap S : l.sym = s /\ m = Less(l, S, q)
        BY DEF Kept
      <3>3. \A l \in L \cap S : m = Less(l, S, q) => m.sym = l.sym /\ m.date = l.date
        BY <2>5
      <3> QED BY <3>1, <3>2, <3>3
    <2>7. ASSUME NEW s \in Symbols, NEW d \in 1..MaxDay
          PROVE  LotsUntil(L1, s, d) = Kept(LotsUntil(L, s, d), S, q)
      <3> SUFFICES ASSUME NEW m
                   PROVE  m \in L1 /\ m.sym = s /\ m.date < d
                            <=> m \in Kept(LotsUntil(L, s, d), S, q)
        BY DEF LotsUntil
      <3>1. m \in L1 <=> m \in L \ S \/ \E l \in L \cap S : m = Less(l, S, q)
        BY <2>4 DEF Kept
      <3>2. m \in Kept(LotsUntil(L, s, d), S, q)
              <=> \/ m \in L \ S /\ m.sym = s /\ m.date < d
                  \/ \E l \in L \cap S : l.sym = s /\ l.date < d /\ m = Less(l, S, q)
        BY DEF Kept, LotsUntil
      <3>3. \A l \in L \cap S : m = Less(l, S, q) => m.sym = l.sym /\ m.date = l.date
        BY <2>5
      <3> QED BY <3>1, <3>2, <3>3
    <2>8. \A l \in L1 : \E m \in L : l.oid = m.oid /\ l.sym = m.sym
      BY <2>4, <2>5 DEF Kept
    <2>9. LotsOK(L1)
      BY <2>1, <2>4
    <2>10. ASSUME NEW s \in Symbols
           PROVE  h1[s] = Shares({l \in L1 : l.sym = s}) /\ (s = t.sym => h1[s] > 0)
      <3> DEFINE A == {l \in L : l.sym = s}
      <3>1. A \in SUBSET L /\ h[s] = Shares(A) /\ Shares(A) \in Nat
        BY <1>7, <1>8
      <3>2. {l \in L1 : l.sym = s} = Kept(A, S, q)
        BY <2>6
      <3>3. CASE s = t.sym
        <4>1. S \subseteq A
          BY <3>3
        <4> HIDE DEF A
        <4>2. Shares(Kept(A, S, q)) = Shares(A) - q
          BY <2>1, <2>2, <3>1, <4>1
        <4>3. Shares(S) <= Shares(A)
          <5>1. IsFiniteSet(A) /\ \A l \in A : l.rem \in Nat
            BY <1>2, <3>1, FS_Subset DEF LotsOK
          <5> QED BY <4>1, <5>1, SharesSubset
        <4>4. Shares(S) \in Nat
          BY <1>3, <1>7
        <4>5. h1[s] = h[s] - q
          BY <1>6, <3>3
        <4>6. h[t.sym] = Shares(A) /\ Shares({l \in L1 : l.sym = s}) = Shares(A) - q
          BY <3>1, <3>2, <3>3, <4>2
        <4> HIDE DEF h1, A
        <4> QED BY <1>1, <1>13, <3>1, <3>3, <4>3, <4>4, <4>5, <4>6
      <3>4. CASE s # t.sym
        <4>1. A \cap S = {}
          BY <3>4
        <4> HIDE DEF A
        <4>2. Kept(A, S, q) = A
          BY <2>3, <3>1, <4>1
        <4>3. h1[s] = h[s]
          BY <1>6, <3>4
        <4> QED BY <3>1, <3>2, <3>4, <4>2, <4>3
      <3> QED BY <3>3, <3>4
    <2>11. LotsHold(L1, h1)
      BY <2>10 DEF LotsHold
    <2>12. \A l \in L1 : h1[l.sym] > 0 /\ \E u \in T1 : u.oid = l.oid
      <3> SUFFICES ASSUME NEW l \in L1 PROVE h1[l.sym] > 0 /\ \E u \in T1 : u.oid = l.oid
        OBVIOUS
      <3>1. PICK m \in L : l.oid = m.oid /\ l.sym = m.sym
        BY <2>8
      <3>2. m.sym \in Symbols /\ h[m.sym] > 0 /\ \E u \in T1 : u.oid = m.oid
        BY <1>2, <1>11
      <3>3. h1[m.sym] > 0
        BY <1>6, <2>10, <3>2
      <3> QED BY <3>1, <3>2, <3>3
    <2>13. ASSUME NEW s \in Symbols, NEW d \in 1..MaxDay
           PROVE  Sold(T1, s, d) + Shares(LotsUntil(L1, s, d)) <= Bought(T1, s, d)
      <3> DEFINE A == LotsUntil(L, s, d)
      <3>1. A \in SUBSET L
        BY DEF LotsUntil
      <3>2. LotsUntil(L1, s, d) = Kept(A, S, q)
        BY <2>7
      <3>3. t.sym = s /\ t.date <= d => S \subseteq A
        BY <1>9
      <3>4. Sold(T, s, d) + Shares(A) <= Bought(T, s, d)
        BY <1>10
      <3> HIDE DEF A, T1
      <3>5. Shares(A) \in Nat /\ Gone(A, S, q) \in Nat /\ Shares(Kept(A, S, q)) = Shares(A) - Gone(A, S, q)
        BY <1>7, <2>1, <3>1
      <3>6. t.sym = s /\ t.date <= d => Gone(A, S, q) = q
        BY <2>2, <3>1, <3>3
      <3>7. /\ Bought(T, s, d) \in Nat /\ Sold(T, s, d) \in Nat
            /\ Bought(T1, s, d) = Bought(T, s, d)
            /\ Sold(T1, s, d) = Sold(T, s, d) + (IF t.sym = s /\ t.date <= d THEN q ELSE 0)
        BY <1>10
      <3>8. CASE t.sym = s /\ t.date <= d
        BY <1>1, <3>2, <3>4, <3>5, <3>6, <3>7, <3>8
      <3>9. CASE ~(t.sym = s /\ t.date <= d)
        BY <1>1, <3>2, <3>4, <3>5, <3>7, <3>9
      <3> QED BY <3>8, <3>9
    <2> HIDE DEF L1, T1, h1
    <2>14. Account(c + Flow(t), L1, h1, T1)
      BY <1>4, <1>6, <2>9, <2>11, <2>12, <2>13 DEF Account
    <2> QED BY <1>5, <2>14 DEF L1, T1, h1
  <1> QED BY <1>12, <1>13

-----------------------------------------------------------------------------
(* An attempt has a price, and so a fill an amount: whole numbers, whatever *)
(* the trigger and the granularity of the feed.                             *)

LEMMA MaxOfInts ==
    ASSUME NEW S, IsFiniteSet(S), S # {}, S \subseteq Int
    PROVE  Max(S) \in S
  <1> DEFINE P == {T \in SUBSET S : T # {} => \E x \in T : \A y \in T : x >= y}
  <1>1. ASSUME NEW T \in SUBSET S, \A x \in T : T \ {x} \in P, T # {}
        PROVE  \E x \in T : \A y \in T : x >= y
    <2>1. PICK z \in T : TRUE
      BY <1>1
    <2>2. CASE T \ {z} = {}
      BY <2>1, <2>2
    <2>3. CASE T \ {z} # {}
      <3>1. PICK m \in T \ {z} : \A y \in T \ {z} : m >= y
        BY <1>1, <2>1, <2>3
      <3>2. CASE m >= z
        BY <3>1, <3>2
      <3>3. CASE z > m
        BY <3>1, <3>3
      <3> QED BY <3>1, <3>2, <3>3
    <2> QED BY <2>2, <2>3
  <1>2. \A T \in SUBSET S : (\A x \in T : T \ {x} \in P) => T \in P
    BY <1>1
  <1>3. \A T \in SUBSET S : T \in P
    <2> HIDE DEF P
    <2> QED BY <1>2, SubsetInduction
  <1>4. \E x \in S : \A y \in S : x >= y
    BY <1>3
  <1> QED BY <1>4 DEF Max

LEMMA RefHighInt ==
    ASSUME NEW f \in Feeds, NEW o, NEW d, NEW i
    PROVE  RefHigh(o, f, d, i) \in Int
  <1> DEFINE K == {k \in DOMAIN f.bars : k <= i /\ (f.kind = "l0" => Eligible(o, d, k))}
             H == {f.bars[j].hi : j \in K}
  <1>1. /\ DOMAIN f.bars \subseteq 1..NSamples
        /\ \A j \in DOMAIN f.bars : f.bars[j] \in [lo : Nat, hi : Nat, px : Nat, full : BOOLEAN]
    BY FeedsAssumption
  <1>2. IsFiniteSet(K)
    <2>1. IsFiniteSet(1..NSamples)
      BY FS_Interval, NSamplesAssumption
    <2> QED BY <1>1, <2>1, FS_Subset
  <1>3. IsFiniteSet(H)
    <2> DEFINE g == [j \in K |-> f.bars[j].hi]
    <2>1. g \in Surjection(K, H)
      BY DEF Surjection
    <2> HIDE DEF K, H, g
    <2> QED BY <1>2, <2>1, FS_Surjection
  <1>4. H \subseteq Int
    BY <1>1
  <1> HIDE DEF H
  <1>5. IsFiniteSet({0} \cup H) /\ {0} \cup H # {} /\ {0} \cup H \subseteq Int
    <2>1. IsFiniteSet(H \cup {0})
      BY <1>3, FS_AddElement
    <2>2. {0} \cup H = H \cup {0}
      OBVIOUS
    <2> QED BY <1>4, <2>1, <2>2
  <1>6. Max({0} \cup H) \in Int
    BY <1>5, MaxOfInts
  <1> QED BY <1>6 DEF RefHigh, H

\* The cost basis of what may be sold is whole numbers.
LEMMA CostBasisInt ==
    ASSUME LotsOK(tx.lots), NEW s
    PROVE  CostBasis(s).w \in Int /\ CostBasis(s).t \in Nat
  <1> DEFINE S == SellableLots(s)
             F == [l \in S |-> l.price * l.rem]
  <1>1. LotsOK(S)
    BY FS_Subset DEF SellableLots, LotsOK
  <1>2. \A l \in S : l.price \in Int /\ l.rem \in Nat
    BY <1>1 DEF LotsOK, LotType
  <1>3. IsFiniteSet(DOMAIN F) /\ \A l \in DOMAIN F : F[l] \in Int
    BY <1>1, <1>2 DEF LotsOK
  <1>4. SumFunction(F) \in Int
    <2> HIDE DEF F
    <2> QED BY <1>3, FunSumInt
  <1>5. Shares(S) \in Nat
    <2> HIDE DEF S
    <2> QED BY <1>1, <1>2, SharesNat DEF LotsOK
  <1> QED BY <1>4, <1>5 DEF CostBasis, Sellable

LEMMA RoundDivInt ==
    ASSUME NEW a \in Int, NEW b \in Nat \ {0}
    PROVE  RoundDiv(a, b) \in Int
  BY DEF RoundDiv

LEMMA AttemptPriceInt ==
    ASSUME NEW o \in OrderType, NEW f \in Feeds, NEW d, NEW cost, cost.w \in Int, cost.t \in Nat,
           NEW i \in Attempts(o, f, d, cost, NoLimit),
           ~Undefined(o, f), f.kind # "susp", o.trig.mode = "board" => f.kind = "l0"
    PROVE  /\ AttemptPrice(o, f, d, cost, i).n \in Int
           /\ AttemptPrice(o, f, d, cost, i).d \in Nat \ {0}
           /\ AttemptAmount(o, f, d, cost, i) \in Int
  <1> DEFINE p == AttemptPrice(o, f, d, cost, i)
             X == Threshold(o, f, d, cost, i)
  <1>1. /\ f.kind \in {"l0", "l1", "l2"} /\ f.close \in Nat /\ f.prev \in Nat
        /\ \A j \in DOMAIN f.bars : f.bars[j].px \in Nat
    BY FeedsAssumption
  <1>2. i \in DOMAIN f.bars
    BY AttemptsEligible
  <1>3. /\ o.trig.mode \in {"market", "px", "pct", "cost", "trail", "time", "board"}
        /\ o.trig.val \in Int /\ o.qty \in Nat \ {0}
    BY DEF OrderType, TriggerType
  <1>4. p.n \in Int /\ p.d \in Nat \ {0}
    <2>1. CASE f.kind = "l2"
      BY <1>1, <2>1 DEF AttemptPrice
    <2>2. CASE f.kind = "l0" \/ (f.kind # "l2" /\ o.trig.mode = "time")
      BY <1>1, <1>2, <2>2 DEF AttemptPrice
    <2>3. CASE f.kind = "l1" /\ o.trig.mode # "time"
      <3>1. o.trig.mode \in {"px", "pct", "cost", "trail"}
        BY <1>3, <2>3 DEF Undefined
      <3>2. Touched(o, f, d, cost, i)
        BY <3>1 DEF Attempts
      <3>3. X.n \in Int /\ X.d \in Nat \ {0}
        <4>1. CASE o.trig.mode = "px"
          BY <1>3, <4>1 DEF Threshold
        <4>2. CASE o.trig.mode = "pct"
          <5>1. f.prev * (100 + o.trig.val) \in Int
            BY <1>1, <1>3
          <5>2. RoundDiv(f.prev * (100 + o.trig.val), 100) \in Int
            BY <5>1, RoundDivInt
          <5> QED BY <4>2, <5>2 DEF Threshold
        <4>3. CASE o.trig.mode = "cost"
          <5>1. cost.t > 0
            BY <3>2, <4>3 DEF Touched
          <5>2. cost.w * (100 + o.trig.val) \in Int /\ 100 * cost.t \in Nat \ {0}
            BY <1>3, <5>1
          <5> QED BY <4>3, <5>2 DEF Threshold
        <4>4. CASE o.trig.mode = "trail"
          <5>1. RefHigh(o, f, d, i) * (100 - o.trig.val) \in Int
            BY <1>3, RefHighInt
          <5> QED BY <4>4, <5>1 DEF Threshold
        <4> QED BY <3>1, <4>1, <4>2, <4>3, <4>4
      <3>4. /\ p.d = X.d
            /\ \/ p.n = X.n
               \/ p.n = Greater(X.n, f.close * X.d)
               \/ p.n = Lesser(X.n, f.close * X.d)
        BY <2>3 DEF AttemptPrice
      <3>5. f.close * X.d \in Int
        BY <1>1, <3>3
      <3> HIDE DEF p, X
      <3> QED BY <3>3, <3>4, <3>5 DEF Greater, Lesser
    <2> QED BY <1>1, <2>1, <2>2, <2>3
  <1>5. p.n * o.qty \in Int
    BY <1>3, <1>4
  <1>6. RoundDiv(p.n * o.qty, p.d) \in Int
    BY <1>4, <1>5, RoundDivInt
  <1> QED BY <1>4, <1>6 DEF AttemptAmount

LEMMA FeeInt ==
    ASSUME NEW amt \in Int, NEW side
    PROVE  Fee(amt, side) \in Int
  <1>1. FeeMin \in Int /\ amt \div CommDiv \in Int /\ amt \div StampDiv \in Int
    BY MoneyAssumption
  <1> QED BY <1>1 DEF Fee, Greater

-----------------------------------------------------------------------------
(* The books and the working copy are both states of the account.          *)

TodoOK == \A k \in tx.todo : /\ tx.feeds[orders[k].sym].kind # "susp"
                             /\ orders[k].trig.mode = "board"
                                  => tx.feeds[orders[k].sym].kind = "l0"
BooksInv == /\ IInv /\ Account(cash, lots, hold, trades)
            /\ tx # NoTx => /\ Account(tx.cash, tx.lots, tx.hold, trades \cup tx.new)
                            /\ TodoOK

LEMMA InitBooks == Init => BooksInv
  <1> SUFFICES ASSUME Init PROVE BooksInv
    OBVIOUS
  <1>1. /\ cash = InitCash /\ lots = {} /\ trades = {} /\ tx = NoTx
        /\ hold = [s \in Symbols |-> 0]
    BY DEF Init
  <1>2. InitCash \in Nat /\ IsFiniteSet({})
    BY MoneyAssumption, FS_EmptySet
  <1>3. FlowOf({}) = 0 /\ FlowOf(DearSales({})) = 0
    <2>1. FlowOf({}) = 0
      BY FunSumEmpty DEF FlowOf
    <2>2. DearSales({}) = {}
      BY DEF DearSales
    <2> QED BY <2>1, <2>2
  <1>4. LotsHold({}, hold)
    <2>1. \A s \in Symbols : {l \in {} : l.sym = s} = {}
      OBVIOUS
    <2>2. \A s \in Symbols : Shares({l \in {} : l.sym = s}) = 0
      BY <2>1, SharesEmpty
    <2> QED BY <1>1, <2>2 DEF LotsHold
  <1>5. ASSUME NEW s \in Symbols, NEW d \in 1..MaxDay
        PROVE  Sold({}, s, d) + Shares(LotsUntil({}, s, d)) <= Bought({}, s, d)
    <2>1. QtyOf({}) = 0
      BY FunSumEmpty DEF QtyOf
    <2>2. Sold({}, s, d) = QtyOf({}) /\ Bought({}, s, d) = QtyOf({}) /\ LotsUntil({}, s, d) = {}
      BY DEF Sold, Bought, LotsUntil
    <2> QED BY <2>1, <2>2, SharesEmpty
  <1>6. LotsOK({})
    BY <1>2 DEF LotsOK
  <1>7. Account(cash, lots, hold, trades)
    BY <1>1, <1>2, <1>3, <1>4, <1>5, <1>6 DEF Account
  <1> QED BY <1>1, <1>7, InitInv DEF BooksInv

\* The trade of a fill, and for a buy its lot.
LEMMA FillTrade ==
    ASSUME BooksInv, tx # NoTx, NEW k \in tx.todo, NEW i \in Tries(k),
           ~Undefined(orders[k], tx.feeds[orders[k].sym])
    PROVE  LET t == TradeOf(k, i)
           IN  /\ t \in TradeType /\ t.oid = k /\ \A u \in trades \cup tx.new : u.oid # k
               /\ t.sym = orders[k].sym /\ t.qty = orders[k].qty /\ t.side = orders[k].dir
               /\ t.date = tx.date /\ t.amt = Amount(k, i) /\ t.fee = Fee(Amount(k, i), orders[k].dir)
               /\ [oid |-> k, sym |-> orders[k].sym, date |-> tx.date,
                   price |-> Price(k, i).n, rem |-> orders[k].qty] \in LotType
  <1> DEFINE o == orders[k]
             f == tx.feeds[o.sym]
             cost == CostBasis(o.sym)
  <1>1. TxShape /\ TxTrades /\ TodoOK /\ k \in ActiveIds /\ tx.st[k] = "active"
    BY DEF BooksInv, IInv, TxInv, TxShape
  <1>2. o \in OrderType /\ k \in 1..MaxOrders /\ f \in Feeds
    <2>1. k \in DOMAIN orders /\ orders \in Seq(OrderType) /\ Len(orders) <= MaxOrders
      BY <1>1 DEF BooksInv, IInv, OrdersOK, ActiveIds
    <2>2. Len(orders) \in Nat /\ DOMAIN orders = 1..Len(orders) /\ orders[k] \in OrderType
      BY <2>1, ElementOfSeq, LenProperties
    <2>3. k \in 1..MaxOrders
      BY <2>1, <2>2, BoundsAssumption
    <2>4. f \in Feeds
      BY <1>1 DEF TxShape
    <2> QED BY <2>2, <2>3, <2>4
  <1>3. cost.w \in Int /\ cost.t \in Nat
    BY CostBasisInt DEF BooksInv, Account
  <1>4. i \in Attempts(o, f, tx.date, cost, NoLimit)
    BY DEF Tries
  <1>5. Price(k, i).n \in Int /\ Amount(k, i) \in Int
    <2>1. f.kind # "susp" /\ (o.trig.mode = "board" => f.kind = "l0") /\ ~Undefined(o, f)
      BY <1>1 DEF TodoOK
    <2>2. AttemptPrice(o, f, tx.date, cost, i).n \in Int /\ AttemptAmount(o, f, tx.date, cost, i) \in Int
      <3> HIDE DEF o, f, cost
      <3> QED BY <1>2, <1>3, <1>4, <2>1, AttemptPriceInt
    <2> QED BY <2>2 DEF Price, Amount
  <1>6. Fee(Amount(k, i), o.dir) \in Int
    BY <1>5, FeeInt
  <1>7. i \in 1..NSamples
    <2>1. i \in DOMAIN f.bars
      <3> HIDE DEF o, f, cost
      <3> QED BY <1>4, AttemptsEligible
    <2> QED BY <1>2, <2>1, FeedsAssumption
  <1>8. tx.date \in 1..MaxDay
    BY <1>1 DEF TxShape
  <1>9. o.sym \in Symbols /\ o.qty \in Nat \ {0} /\ o.dir \in {"buy", "sell"}
    BY <1>2 DEF OrderType
  <1>10. TradeOf(k, i) \in TradeType
    BY <1>2, <1>5, <1>6, <1>7, <1>8, <1>9 DEF TradeOf, TradeType, OrderIds
  <1>11. [oid |-> k, sym |-> o.sym, date |-> tx.date, price |-> Price(k, i).n, rem |-> o.qty] \in LotType
    BY <1>2, <1>5, <1>8, <1>9 DEF LotType, OrderIds
  <1>12. \A u \in trades \cup tx.new : u.oid # k
    BY <1>1 DEF BooksInv, IInv, LedgerInv, TxTrades, ActiveIds
  <1> QED BY <1>10, <1>11, <1>12 DEF TradeOf

\* A fill is a buy or a sale of the working copy of the account.
LEMMA FillBooks ==
    ASSUME BooksInv, tx # NoTx, NEW k \in tx.todo, NEW i \in Tries(k), Payable(k, i),
           ~Undefined(orders[k], tx.feeds[orders[k].sym])
    PROVE  Account(Fill(k, i).cash, Fill(k, i).lots, Fill(k, i).hold,
                   trades \cup Fill(k, i).new)
  <1> DEFINE o == orders[k]
             t == TradeOf(k, i)
             x == [oid |-> k, sym |-> o.sym, date |-> tx.date, price |-> Price(k, i).n,
                   rem |-> o.qty]
             T == trades \cup tx.new
  <1>1. /\ t \in TradeType /\ t.oid = k /\ \A u \in T : u.oid # k
        /\ t.sym = o.sym /\ t.qty = o.qty /\ t.side = o.dir
        /\ t.date = tx.date /\ t.amt = Amount(k, i) /\ t.fee = Fee(Amount(k, i), o.dir)
        /\ x \in LotType
    BY FillTrade
  <1>2. /\ x.oid = k /\ x.sym = o.sym /\ x.date = tx.date /\ x.rem = o.qty
    OBVIOUS
  <1>3. Account(tx.cash, tx.lots, tx.hold, T)
    BY DEF BooksInv
  <1>4. TxShape /\ DOMAIN tx = TxFields
    BY DEF BooksInv, IInv, TxInv, TxShape
  <1>5. trades \cup (tx.new \cup {t}) = T \cup {t}
    OBVIOUS
  <1>6. CASE o.dir = "buy"
    <2>1. tx.cash >= t.amt + t.fee
      BY <1>1, <1>6 DEF Payable
    <2> HIDE DEF t, x, T
    <2>2. Account(tx.cash - (t.amt + t.fee), tx.lots \cup {x},
                  [tx.hold EXCEPT ![t.sym] = @ + t.qty], T \cup {t})
      BY <1>1, <1>2, <1>3, <1>6, <2>1, AccountBuys
    <2>3. /\ Buy(k, i).cash = tx.cash - (t.amt + t.fee)
          /\ Buy(k, i).lots = tx.lots \cup {x}
          /\ Buy(k, i).hold = [tx.hold EXCEPT ![o.sym] = @ + o.qty]
          /\ Buy(k, i).new = tx.new \cup {t}
      BY <1>4 DEF Buy, TxFields, t, x
    <2>4. Fill(k, i) = Buy(k, i)
      BY <1>6 DEF Fill
    <2> QED BY <1>1, <1>5, <2>2, <2>3, <2>4
  <1>7. CASE o.dir # "buy"
    <2> DEFINE S == SellableLots(o.sym)
    <2>1. Shares(S) >= t.qty /\ t.side = "sell"
      BY <1>1, <1>7 DEF Payable, Sellable, TradeType
    <2>2. S = {l \in tx.lots : l.sym = t.sym /\ l.date < t.date /\ l.rem > 0}
      BY <1>1 DEF SellableLots
    <2>3. LotsAfterSell(o.sym, o.qty) = LotsSold(tx.lots, tx.hold, S, o.sym, o.qty)
      BY DEF LotsAfterSell, LotsSold, Less
    <2> HIDE DEF t, x, T, S
    <2>4. Account(tx.cash + (t.amt - t.fee), LotsSold(tx.lots, tx.hold, S, t.sym, t.qty),
                  [tx.hold EXCEPT ![t.sym] = @ - t.qty], T \cup {t})
      BY <1>1, <1>3, <2>1, <2>2, AccountSells
    <2>5. /\ Sell(k, i).cash = tx.cash + (t.amt - t.fee)
          /\ Sell(k, i).lots = LotsAfterSell(o.sym, o.qty)
          /\ Sell(k, i).hold = [tx.hold EXCEPT ![o.sym] = @ - o.qty]
          /\ Sell(k, i).new = tx.new \cup {t}
      BY <1>4 DEF Sell, TxFields, t
    <2>6. Fill(k, i) = Sell(k, i)
      BY <1>7 DEF Fill
    <2>7. o.sym = t.sym /\ o.qty = t.qty
      BY <1>1
    <2>8. /\ Fill(k, i).cash = tx.cash + (t.amt - t.fee)
          /\ Fill(k, i).lots = LotsSold(tx.lots, tx.hold, S, t.sym, t.qty)
          /\ Fill(k, i).hold = [tx.hold EXCEPT ![t.sym] = @ - t.qty]
          /\ trades \cup Fill(k, i).new = T \cup {t}
      BY <1>5, <2>3, <2>5, <2>6, <2>7
    <2> QED BY <2>4, <2>8
  <1> QED BY <1>6, <1>7

\* The copy a transaction opens with is the books.
LEMMA SettleAccountBooks ==
    ASSUME BooksInv, NEW market \in Markets, SettleAccount(market)
    PROVE  BooksInv'
  <1>1. IInv'
    BY SettleAccountStep DEF BooksInv
  <1>2. UNCHANGED <<cash, lots, hold, trades, orders>>
    BY DEF SettleAccount, book
  <1>3. tx'.cash = cash /\ tx'.lots = lots /\ tx'.hold = hold /\ tx'.new = {}
    BY DEF SettleAccount
  <1>4. trades' \cup tx'.new = trades
    BY <1>2, <1>3
  <1>5. Account(cash', lots', hold', trades') /\ Account(tx'.cash, tx'.lots, tx'.hold, trades' \cup tx'.new)
    BY <1>2, <1>3, <1>4 DEF BooksInv
  <1>6. TodoOK'
    <2> SUFFICES ASSUME NEW k \in tx'.todo
                 PROVE  /\ tx'.feeds[orders'[k].sym].kind # "susp"
                        /\ orders'[k].trig.mode = "board" => tx'.feeds[orders'[k].sym].kind = "l0"
      BY DEF TodoOK
    <2>1. /\ k \in ActiveIds /\ FirstStatus(k, market) = "active"
          /\ market[orders[k].sym].kind # "susp"
      BY DEF SettleAccount
    <2>2. orders[k].sym \in plan.needs
      BY <2>1 DEF SettleAccount, Accepted, Known, BooksInv, IInv, PlanInv
    <2>3. tx'.feeds[orders[k].sym] = market[orders[k].sym]
      BY <2>2 DEF SettleAccount
    <2>4. market[orders[k].sym].kind \in {"l0", "l1", "l2", "susp"}
      <3>1. market \in [Symbols -> Feeds] /\ orders[k].sym \in Symbols
        BY <2>2, MarketsAssumption DEF SettleAccount, BooksInv, IInv, PlanInv
      <3>2. market[orders[k].sym] \in Feeds
        BY <3>1
      <3> QED BY <3>2, FeedsAssumption
    <2>5. orders[k].trig.mode = "board" => market[orders[k].sym].kind \notin {"l1", "l2"}
      BY <2>1 DEF FirstStatus
    <2> QED BY <1>2, <2>1, <2>3, <2>4, <2>5
  <1> QED BY <1>1, <1>5, <1>6 DEF BooksInv

LEMMA JudgeOrderBooks ==
    ASSUME BooksInv, NEW k \in DOMAIN orders, JudgeOrder(k)
    PROVE  BooksInv'
  <1>1. IInv'
    BY JudgeOrderStep DEF BooksInv
  <1>2. /\ tx # NoTx /\ k \in tx.todo /\ UNCHANGED <<cash, lots, hold, trades, orders>>
        /\ ~Undefined(orders[k], tx.feeds[orders[k].sym])
    BY DEF JudgeOrder, IsNext, book
  <1>3. TxShape /\ DOMAIN tx = TxFields /\ k \in ActiveIds
    BY <1>2 DEF BooksInv, IInv, TxInv, TxShape
  <1>4. ASSUME tx'.todo = tx.todo \ {k}, tx'.feeds = tx.feeds
        PROVE  TodoOK'
    BY <1>2, <1>4 DEF BooksInv, TodoOK
  <1>5. CASE tx' = [tx EXCEPT !.todo = @ \ {k}, !.ins[k] = @ + Cardinality(Tries(k))]
    <2>1. /\ tx'.todo = tx.todo \ {k} /\ tx'.feeds = tx.feeds /\ tx'.cash = tx.cash
          /\ tx'.lots = tx.lots /\ tx'.hold = tx.hold /\ tx'.new = tx.new
      BY <1>3, <1>5 DEF TxFields
    <2>2. Account(tx'.cash, tx'.lots, tx'.hold, trades' \cup tx'.new)
      BY <1>2, <2>1 DEF BooksInv
    <2> QED BY <1>1, <1>2, <1>4, <2>1, <2>2 DEF BooksInv
  <1>6. ASSUME NEW at \in Tries(k), Payable(k, at),
               tx' = [Fill(k, at) EXCEPT !.todo = @ \ {k}, !.st[k] = "filled",
                                         !.ins[k] = @ + Cardinality({i \in Tries(k) : i < at})]
        PROVE  BooksInv'
    <2> DEFINE F == Fill(k, at)
    <2>1. /\ F = [f \in TxFields |-> F[f]] /\ F.todo = tx.todo /\ F.feeds = tx.feeds
      BY <1>3, FillEffect DEF BooksInv, IInv
    <2>2. Account(F.cash, F.lots, F.hold, trades \cup F.new)
      BY <1>2, <1>6, FillBooks
    <2> HIDE DEF F
    <2>3. /\ tx'.todo = F.todo \ {k} /\ tx'.feeds = F.feeds /\ tx'.cash = F.cash
          /\ tx'.lots = F.lots /\ tx'.hold = F.hold /\ tx'.new = F.new
      BY <1>6, <2>1 DEF TxFields, F
    <2>4. Account(tx'.cash, tx'.lots, tx'.hold, trades' \cup tx'.new)
      BY <1>2, <2>2, <2>3
    <2>5. TodoOK'
      BY <1>4, <2>1, <2>3
    <2> QED BY <1>1, <1>2, <2>4, <2>5 DEF BooksInv
  <1> QED BY <1>5, <1>6 DEF JudgeOrder

LEMMA CommitBooks ==
    ASSUME BooksInv, Commit
    PROVE  BooksInv'
  <1>1. IInv'
    BY CommitStep DEF BooksInv
  <1>2. /\ tx # NoTx /\ tx' = NoTx /\ cash' = tx.cash /\ lots' = tx.lots /\ hold' = tx.hold
        /\ trades' = trades \cup tx.new
    BY DEF Commit
  <1> QED BY <1>1, <1>2 DEF BooksInv

\* Every other step leaves the books alone, and the copy too unless it drops it; the
\* order table does not change while a transaction is open.
LEMMA StepBooks == BooksInv /\ [Next]_vars => BooksInv'
  <1> SUFFICES ASSUME BooksInv, [Next]_vars PROVE BooksInv'
    OBVIOUS
  <1>1. IInv'
    BY StepInv DEF BooksInv
  <1>2. ASSUME UNCHANGED <<cash, lots, hold, trades>>, tx' = NoTx \/ UNCHANGED <<orders, tx>>
        PROVE  BooksInv'
    BY <1>1, <1>2 DEF BooksInv, TodoOK
  <1>3. ASSUME NEW spec \in OrderSpecs, PlaceOrder(spec) PROVE BooksInv'
    BY <1>2, <1>3 DEF PlaceOrder, book
  <1>4. ASSUME NEW s \in Symbols, EmergencySell(s) PROVE BooksInv'
    BY <1>2, <1>4 DEF EmergencySell, book
  <1>5. ASSUME NEW s \in Symbols, FreezeSecurity(s) PROVE BooksInv'
    BY <1>2, <1>5 DEF FreezeSecurity, FreezeAndCancel, book
  <1>6. ASSUME NEW s \in Symbols, UnfreezeSecurity(s) PROVE BooksInv'
    BY <1>2, <1>6 DEF UnfreezeSecurity, book
  <1>7. ASSUME NEW target, Control(target) PROVE BooksInv'
    BY <1>2, <1>7 DEF Control, book
  <1>8. ASSUME NEW d, PlanDay(d) PROVE BooksInv'
    BY <1>2, <1>8 DEF PlanDay, book
  <1>9. CASE Tick \/ NextDay \/ GiveUp \/ Abort \/ UNCHANGED vars
    BY <1>2, <1>9 DEF Tick, NextDay, GiveUp, Abort, vars, book
  <1> QED BY <1>3, <1>4, <1>5, <1>6, <1>7, <1>8, <1>9, SettleAccountBooks, JudgeOrderBooks,
             CommitBooks DEF Next

LEMMA BooksInvHolds == Spec => []BooksInv
  BY InitBooks, StepBooks, PTL DEF Spec

\* BooksBalance (buy_fill, sell_fill, _audit_conservation): the books, and a settlement
\* in progress, account for every yuan and every share.
THEOREM BooksStayBalanced == Spec => []BooksBalance
  <1>1. BooksInv => BooksBalance
    BY DEF BooksInv, Account, BooksBalance
  <1> QED BY <1>1, BooksInvHolds, PTL

\* TPlusOne (spec-01 3.4): what was bought earlier covers what was sold and what of it
\* is still held.
THEOREM SalesWaitADay == Spec => []TPlusOne
  <1>1. BooksInv => TPlusOne
    <2> SUFFICES ASSUME BooksInv, NEW s \in Symbols, NEW d \in 1..MaxDay
                 PROVE  Sold(trades, s, d) <= Bought(trades, s, d)
      BY DEF TPlusOne
    <2> DEFINE M == LotsUntil(lots, s, d)
    <2>1. Sold(trades, s, d) + Shares(M) <= Bought(trades, s, d)
      BY DEF BooksInv, Account
    <2>2. Shares(M) \in Nat
      <3>1. IsFiniteSet(M) /\ M \subseteq LotType
        BY FS_Subset DEF BooksInv, Account, LotsOK, LotsUntil
      <3>2. \A l \in M : l.rem \in Nat
        BY <3>1 DEF LotType
      <3> HIDE DEF M
      <3> QED BY <3>1, <3>2, SharesNat
    <2>3. Sold(trades, s, d) \in Nat /\ Bought(trades, s, d) \in Nat
      <3>1. IsFiniteSet(trades) /\ trades \subseteq TradeType
        BY DEF BooksInv, Account
      <3>2. \A T \in SUBSET trades : IsFiniteSet(T) /\ T \subseteq TradeType
        BY <3>1, FS_Subset
      <3>3. \A T \in SUBSET trades : QtyOf(T) \in Nat
        BY <3>2, QtyNat
      <3> QED BY <3>3 DEF Sold, Bought
    <2> QED BY <2>1, <2>2, <2>3
  <1> QED BY <1>1, BooksInvHolds, PTL

=============================================================================
