--------------------------- MODULE EodSettlement ---------------------------
(***************************************************************************)
(* One strategy account: its condition orders, the user's direct control   *)
(* over it, and the end-of-day settlement that replays a trading day       *)
(* (core/orderstore.py, core/accountstore.py, core/settle_day.py and       *)
(* settle_account of core/eodengine.py).  Accounts share no row, so one    *)
(* account is enough.                                                      *)
(*                                                                         *)
(* run_day first reads the orders and the holdings and fetches the day's   *)
(* feeds (PlanDay: `plan'), while requests may still change the orders     *)
(* and the controls.  The settlement itself is one SQLite write transaction *)
(* (core/db.py, write_txn): `tx' is what the connection has written and    *)
(* not committed.  SettleAccount opens it, JudgeOrder replays one order    *)
(* against the day's series, Commit writes everything back, Abort is any   *)
(* error or crash in between.  The global write lock keeps every other     *)
(* writer out while tx is open.  Only one thread settles.                  *)
(*                                                                         *)
(* The trading days are 1..MaxDay; `slot' samples of day `today' have      *)
(* passed.  Orders are numbered in the order of their creation.            *)
(***************************************************************************)
EXTENDS OrderRules, Sequences, FiniteSets

CONSTANTS Symbols,      \* symbols are numbers: the replay takes them in order
          Freezable,    \* the symbols the user may ask to freeze
          OrderSpecs,   \* what place_order may be asked for
          Feeds,        \* what the data service may return for a symbol and day
          Markets,      \* and which feeds of the symbols may come together
          InitCash, FeeMin, CommDiv, StampDiv, CapPct,
          LotId,        \* the random row id of the lot an order buys: breaks FIFO ties
          MaxDay, MaxOrders

Validities == {"today", "until", "long"}
ASSUME OrderSpecsAssumption ==
    OrderSpecs \subseteq [sym : Symbols, dir : {"buy", "sell"}, qty : Nat \ {0},
                          trig : TriggerType, validity : Validities]
ASSUME FeedsAssumption == \A f \in Feeds :
    /\ f.kind \in {"l0", "l1", "l2", "susp"} /\ {f.close, f.prev} \subseteq Nat
    /\ DOMAIN f.bars \subseteq 1..NSamples
    /\ \A i \in DOMAIN f.bars : f.bars[i] \in [lo : Nat, hi : Nat, px : Nat, full : BOOLEAN]
ASSUME MarketsAssumption == Markets \subseteq [Symbols -> Feeds]
ASSUME BoundsAssumption == MaxDay \in Nat \ {0} /\ MaxOrders \in Nat
ASSUME MoneyAssumption == {InitCash, FeeMin} \subseteq Nat /\ {CommDiv, StampDiv} \subseteq Nat \ {0}
ASSUME LotIdAssumption ==             \* a primary key
    /\ LotId \in [1..MaxOrders -> Int]
    /\ \A j, k \in 1..MaxOrders : LotId[j] = LotId[k] => j = k

VARIABLES today, slot,
          status,       \* accounts.status: normal, paused_buy or halted
          frozen,       \* frozen_securities
          orders,       \* condition_orders
          cash, lots, hold, avg,   \* accounts.cash, lots, holdings.quantity, .avg_cost
          trades,       \* trades
          exits,        \* the trades with a row in exit_trackings
          settled,      \* the days in settlement_log
          nav,          \* the day and equity accounts.nav was computed from
          plan,         \* the day and the symbols run_day fetches feeds for, or NoPlan
          tx            \* the open settlement transaction, or NoTx

book == <<cash, lots, hold, avg, trades, exits, settled, nav>>
control == <<status, frozen>>
clock == <<today, slot>>
vars == <<clock, control, orders, book, plan, tx>>

NoTx == [date |-> 0]
NoPlan == [date |-> 0]
Terminal == {"filled", "expired", "invalid", "cancelled"}

Fee(amt, side) == Greater(FeeMin, amt \div CommDiv)
                    + (IF side = "sell" THEN amt \div StampDiv ELSE 0)

Flow(t) == IF t.side = "sell" THEN t.amt - t.fee ELSE -(t.amt + t.fee)
FlowOf(T) == SumFunction([t \in T |-> Flow(t)])
Shares(L) == SumFunction([l \in L |-> l.rem])

Init == /\ today = 1 /\ slot = 0
        /\ status = "normal" /\ frozen = {}
        /\ orders = <<>>
        /\ cash = InitCash /\ lots = {}
        /\ hold = [s \in Symbols |-> 0] /\ avg = [s \in Symbols |-> [n |-> 0, d |-> 1]]
        /\ trades = {} /\ exits = {}
        /\ settled = {} /\ nav = [day |-> 0, equity |-> InitCash]
        /\ plan = NoPlan /\ tx = NoTx

-----------------------------------------------------------------------------
(* Time, orders and direct control.  The seconds that fetching the feeds   *)
(* takes are not counted.                                                  *)

Idle == plan = NoPlan /\ tx = NoTx
Tick == /\ Idle /\ slot < NSamples
        /\ slot' = slot + 1
        /\ UNCHANGED <<today, control, orders, book, plan, tx>>

NextDay == /\ Idle /\ slot = NSamples /\ today < MaxDay
           /\ today' = today + 1 /\ slot' = 0
           /\ UNCHANGED <<control, orders, book, plan, tx>>

ActiveIds == {k \in DOMAIN orders : orders[k].status = "active"}
Held == {s \in Symbols : hold[s] > 0}

\* The gate of place_order: a frozen security cannot be bought, a paused
\* account only sells, a halted one does nothing.
MayPlaceMutFrozen(sym, dir) == status = "normal" \/ (status = "paused_buy" /\ dir = "sell")
MayPlace(sym, dir) ==
    /\ dir = "buy" => sym \notin frozen
    /\ status = "normal" \/ (status = "paused_buy" /\ dir = "sell")

Placed(spec, basis) ==
    [sym |-> spec.sym, dir |-> spec.dir, trig |-> spec.trig, qty |-> spec.qty,
     validity |-> spec.validity, basis |-> basis, day |-> today, slot |-> slot,
     status |-> "active", ins |-> 0, settledOn |-> 0]

PlaceOrder(spec) ==
    /\ tx = NoTx /\ Len(orders) < MaxOrders
    /\ MayPlace(spec.sym, spec.dir)
    /\ orders' = Append(orders, Placed(spec, "replay_l0"))
    /\ UNCHANGED <<clock, control, book, plan, tx>>

\* One place_order of emergency_sell_all: the whole position, as an open-board
\* order on an intraday basis.  A halted account places nothing.
EmergencySell(s) ==
    /\ tx = NoTx /\ Len(orders) < MaxOrders
    /\ hold[s] > 0
    /\ MayPlace(s, "sell")
    /\ orders' = Append(orders, Placed([sym |-> s, dir |-> "sell", qty |-> hold[s],
                                        trig |-> Trigger("board", "none", 0),
                                        validity |-> "today"], "intraday"))
    /\ UNCHANGED <<clock, control, book, plan, tx>>

\* freeze_security cancels the resting buy orders in the same transaction.
RestingBuys(s) == {k \in ActiveIds : orders[k].sym = s /\ orders[k].dir = "buy"}
FreezeAndCancel(s) ==
    /\ s \in Freezable \ frozen
    /\ frozen' = frozen \cup {s}
    /\ orders' = [k \in DOMAIN orders |->
                    IF k \in RestingBuys(s) THEN [orders[k] EXCEPT !.status = "cancelled"]
                    ELSE orders[k]]
    /\ UNCHANGED <<clock, status, book, plan, tx>>
FreezeSecurity(s) == tx = NoTx /\ FreezeAndCancel(s)

UnfreezeSecurity(s) ==
    /\ tx = NoTx /\ s \in frozen
    /\ frozen' = frozen \ {s}
    /\ UNCHANGED <<clock, status, orders, book, plan, tx>>

\* control_agent: pause_buy, halt or resume; a change to the same state is refused.
Control(target) ==
    /\ tx = NoTx /\ status # target
    /\ status' = target
    /\ UNCHANGED <<clock, frozen, orders, book, plan, tx>>

-----------------------------------------------------------------------------
(* A day's settlement.                                                     *)

\* settle_day._orders_for: the day's own orders and the older ones that rest.
OrdersFor(d) ==
    {k \in ActiveIds : orders[k].day = d \/ (orders[k].day < d /\ orders[k].validity # "today")}

\* eligible_accounts: neither a halted nor a paused account is settled.
Settleable == status = "normal"

\* run_day for the account: what it has to settle, and so fetches feeds for.
Ordered(d) == {orders[k].sym : k \in OrdersFor(d)}
PlanDay(d) ==
    /\ Idle /\ Settleable
    /\ d < today \/ slot = NSamples
    /\ OrdersFor(d) # {} \/ Held # {}
    /\ plan' = [date |-> d, ordered |-> Ordered(d), needs |-> Ordered(d) \cup Held]
    /\ UNCHANGED <<clock, control, orders, book, tx>>

\* settle_account refuses any active order without a series, or on a basis
\* other than the replay, and a position without a previous close, which
\* _build_feeds leaves out for a suspended symbol that is held and ordered as
\* well.  Any of these refuses the whole account.
Known(market) == plan.ordered \cup {s \in plan.needs : market[s].kind = "susp"}
Accepted(market) ==
    /\ \A k \in ActiveIds : orders[k].basis = "replay_l0" /\ orders[k].sym \in Known(market)
    /\ \A s \in plan.ordered : market[s].kind = "susp" => hold[s] = 0

\* An open-board order is invalid before the replay unless it has L0 samples.
FirstStatus(k, market) ==
    IF orders[k].trig.mode = "board" /\ market[orders[k].sym].kind \in {"l1", "l2"}
    THEN "invalid" ELSE "active"

\* The settle_key of the account and day in settlement_log.
AlreadySettledMutLast(d) == nav.day = d
AlreadySettled(d) == d \in settled

\* The feeds of a past day do not change, so they are chosen only here, where
\* they are first used; without them the account is given up.
SettleAccount(market) ==
    /\ plan # NoPlan /\ tx = NoTx
    /\ ~AlreadySettled(plan.date) /\ Accepted(market)
    /\ tx' = [date |-> plan.date, feeds |-> [s \in plan.needs |-> market[s]],
              cash |-> cash, lots |-> lots, hold |-> hold, avg |-> avg,
              new |-> {}, exits |-> {},
              st |-> [k \in ActiveIds |-> FirstStatus(k, market)],
              ins |-> [k \in ActiveIds |-> orders[k].ins],
              todo |-> {k \in ActiveIds : /\ FirstStatus(k, market) = "active"
                                          /\ market[orders[k].sym].kind # "susp"}]
    /\ plan' = NoPlan
    /\ UNCHANGED <<clock, control, orders, book>>

\* Nothing to do for a settled day, no data for a symbol, a refused account, or
\* a crash.
GiveUp == /\ plan # NoPlan
          /\ plan' = NoPlan
          /\ UNCHANGED <<clock, control, orders, book, tx>>

\* The loops: L0 symbols, then L1, then L2; symbols in order; orders by creation.
KindRank(kind) == CASE kind = "l0" -> 0 [] kind = "l1" -> 1 [] OTHER -> 2
Rank(k) == KindRank(tx.feeds[orders[k].sym].kind)
Before(j, k) == \/ Rank(j) < Rank(k)
                \/ Rank(j) = Rank(k) /\ orders[j].sym < orders[k].sym
                \/ Rank(j) = Rank(k) /\ orders[j].sym = orders[k].sym /\ j < k
IsNext(k) == k \in tx.todo /\ \A j \in tx.todo \ {k} : Before(k, j)

\* T+1: only lots bought before the day can be sold.
SellableLotsMutSameDay(s) == {l \in tx.lots : l.sym = s /\ l.date <= tx.date /\ l.rem > 0}
SellableLots(s) == {l \in tx.lots : l.sym = s /\ l.date < tx.date /\ l.rem > 0}
Sellable(s) == Shares(SellableLots(s))
CostBasis(s) == [w |-> SumFunction([l \in SellableLots(s) |-> l.price * l.rem]),
                 t |-> Sellable(s)]

TriesMutDateOnly(k) ==
    Attempts([orders[k] EXCEPT !.slot = 0], tx.feeds[orders[k].sym], tx.date,
             CostBasis(orders[k].sym), NoLimit)
Tries(k) == Attempts(orders[k], tx.feeds[orders[k].sym], tx.date,
                     CostBasis(orders[k].sym), NoLimit)
Price(k, i) == AttemptPrice(orders[k], tx.feeds[orders[k].sym], tx.date,
                            CostBasis(orders[k].sym), i)
Amount(k, i) == AttemptAmount(orders[k], tx.feeds[orders[k].sym], tx.date,
                              CostBasis(orders[k].sym), i)

HeldIn(t) == {s \in Symbols : t.hold[s] > 0}

\* single_cap_ok: the position after the fill against the equity, at the fill
\* price for this symbol and the close for the others.  The L1 loop has no such
\* test, and the shares bought are not part of the equity.
CapOK(k, i) ==
    LET o == orders[k]
        p == Price(k, i).n
        worth == [s \in HeldIn(tx) |->
                    tx.hold[s] * (IF s = o.sym THEN p ELSE tx.feeds[s].close)]
        left == tx.cash - Amount(k, i) - Fee(Amount(k, i), "buy")
    IN  \/ CapPct >= 100
        \/ tx.feeds[o.sym].kind = "l1" /\ o.trig.mode # "time"
        \/ (tx.hold[o.sym] + o.qty) * p * 100 <= CapPct * (left + SumFunction(worth))

PayableMutNoFee(k, i) ==
    IF orders[k].dir = "buy" THEN CapOK(k, i) /\ tx.cash >= Amount(k, i)
    ELSE Sellable(orders[k].sym) >= orders[k].qty
Payable(k, i) ==
    IF orders[k].dir = "buy"
    THEN CapOK(k, i) /\ tx.cash >= Amount(k, i) + Fee(Amount(k, i), "buy")
    ELSE Sellable(orders[k].sym) >= orders[k].qty

TradeOf(k, i) ==
    LET o == orders[k] IN
    [oid |-> k, side |-> o.dir, sym |-> o.sym, qty |-> o.qty, amt |-> Amount(k, i),
     fee |-> Fee(Amount(k, i), o.dir), date |-> tx.date, at |-> i]

\* First in, first out over the sellable lots; an emptied position is deleted
\* with all its lots.
Older(l, S) == {m \in S : m.date < l.date \/ (m.date = l.date /\ LotId[m.oid] < LotId[l.oid])}
Taken(l, S, qty) == Lesser(l.rem, Greater(0, qty - Shares(Older(l, S))))
LotsAfterSell(s, qty) ==
    LET S == SellableLots(s) IN
    IF tx.hold[s] = qty THEN {l \in tx.lots : l.sym # s}
    ELSE (tx.lots \ S) \cup {[l EXCEPT !.rem = @ - Taken(l, S, qty)] : l \in S}

\* buy_fill: the average cost is overwritten by this buy's cost over all shares.
Buy(k, i) ==
    LET o == orders[k]
        t == TradeOf(k, i)
    IN [tx EXCEPT
          !.cash = @ - (t.amt + t.fee),
          !.lots = @ \cup {[oid |-> k, sym |-> o.sym, date |-> tx.date,
                            price |-> Price(k, i).n, rem |-> o.qty]},
          !.hold[o.sym] = @ + o.qty,
          !.avg[o.sym] = [n |-> t.amt + t.fee, d |-> tx.hold[o.sym] + o.qty],
          !.new = @ \cup {t}]

\* sell_fill: the L1 loop alone does not register the sale for exit tracking.
Sell(k, i) ==
    LET o == orders[k]
        t == TradeOf(k, i)
    IN [tx EXCEPT
          !.cash = @ + (t.amt - t.fee),
          !.lots = LotsAfterSell(o.sym, o.qty),
          !.hold[o.sym] = @ - o.qty,
          !.avg[o.sym] = IF tx.hold[o.sym] = o.qty THEN [n |-> 0, d |-> 1] ELSE @,
          !.new = @ \cup {t},
          !.exits = IF tx.feeds[o.sym].kind = "l1" /\ o.trig.mode # "time" THEN @ ELSE @ \cup {k}]

Fill(k, i) == IF orders[k].dir = "buy" THEN Buy(k, i) ELSE Sell(k, i)

\* One order over the whole day: it fills at the first attempt it can pay for.
JudgeOrder(k) ==
    /\ tx # NoTx /\ IsNext(k)
    /\ ~Undefined(orders[k], tx.feeds[orders[k].sym])
    /\ LET paid == {i \in Tries(k) : Payable(k, i)}
       IN  \/ /\ paid = {}
              /\ tx' = [tx EXCEPT !.todo = @ \ {k}, !.ins[k] = @ + Cardinality(Tries(k))]
           \/ \E at \in paid :
                 /\ \A i \in paid : at <= i
                 /\ tx' = [Fill(k, at) EXCEPT !.todo = @ \ {k}, !.st[k] = "filled",
                                              !.ins[k] = @ + Cardinality({i \in Tries(k) : i < at})]
    /\ UNCHANGED <<clock, control, orders, book, plan>>

-----------------------------------------------------------------------------
\* _audit_conservation: the trades of the day explain the change of the cash.
TodaysTrades == {t \in trades \cup tx.new : t.date = tx.date}
Audited == cash + FlowOf(TodaysTrades) = tx.cash

\* The write-back of one order.  An order of another day that did not change
\* state is not touched, so its insufficient events are not saved either.
WrittenBackMutOwnDay(k) ==
    IF orders[k].day = tx.date THEN [orders[k] EXCEPT !.status = tx.st[k]] ELSE orders[k]
WrittenBack(k) ==
    LET o == orders[k]
        st == tx.st[k]
        ownDay == o.day = tx.date
        final == IF st = "active" /\ o.validity = "today" /\ ownDay THEN "expired" ELSE st
    IN  IF final = "invalid" THEN [o EXCEPT !.status = "invalid", !.settledOn = tx.date]
        ELSE IF final = "active" /\ ~ownDay THEN o
        ELSE [o EXCEPT !.status = final, !.ins = tx.ins[k],
                       !.settledOn = IF final = "active" THEN @ ELSE tx.date]

Equity == tx.cash + SumFunction([s \in HeldIn(tx) |-> tx.hold[s] * tx.feeds[s].close])

Commit ==
    /\ tx # NoTx /\ tx.todo = {} /\ Audited
    /\ orders' = [k \in DOMAIN orders |-> IF k \in DOMAIN tx.st THEN WrittenBack(k) ELSE orders[k]]
    /\ cash' = tx.cash /\ lots' = tx.lots /\ hold' = tx.hold /\ avg' = tx.avg
    /\ trades' = trades \cup tx.new
    /\ exits' = exits \cup tx.exits
    /\ settled' = settled \cup {tx.date}
    /\ nav' = [day |-> tx.date, equity |-> Equity]
    /\ tx' = NoTx
    /\ UNCHANGED <<clock, control, plan>>

\* An EngineError, an EngineGapError, a failed audit or a crash: all rolled back.
Abort == /\ tx # NoTx
         /\ tx' = NoTx
         /\ UNCHANGED <<clock, control, orders, book, plan>>

Next == \/ Tick \/ NextDay
        \/ \E spec \in OrderSpecs : PlaceOrder(spec)
        \/ \E s \in Symbols : EmergencySell(s) \/ FreezeSecurity(s) \/ UnfreezeSecurity(s)
        \/ \E target \in {"normal", "paused_buy", "halted"} : Control(target)
        \/ \E d \in 1..today : PlanDay(d)
        \/ \E market \in Markets : SettleAccount(market)
        \/ \E k \in DOMAIN orders : JudgeOrder(k)
        \/ GiveUp \/ Commit \/ Abort

Spec == Init /\ [][Next]_vars

-----------------------------------------------------------------------------
OrderIds == 1..MaxOrders
OrderType ==
    [sym : Symbols, dir : {"buy", "sell"}, qty : Nat \ {0},
     trig : TriggerType,
     validity : Validities, basis : {"replay_l0", "intraday"},
     day : 1..MaxDay, slot : 0..NSamples,
     status : {"active"} \cup Terminal, ins : Nat, settledOn : 0..MaxDay]
LotType == [oid : OrderIds, sym : Symbols, date : 1..MaxDay, price : Int, rem : Nat]
TradeType == [oid : OrderIds, side : {"buy", "sell"}, sym : Symbols, qty : Nat \ {0},
              amt : Int, fee : Int, date : 1..MaxDay, at : 1..NSamples]
AvgType == [n : Int, d : Int]
PlanOK(p) == p \in [date : 1..MaxDay, ordered : SUBSET Symbols, needs : SUBSET Symbols]
TxOK(t) ==
    /\ DOMAIN t = {"date", "feeds", "cash", "lots", "hold", "avg", "new", "exits", "st", "ins", "todo"}
    /\ t.date \in 1..MaxDay
    /\ DOMAIN t.feeds \subseteq Symbols /\ \A s \in DOMAIN t.feeds : t.feeds[s] \in Feeds
    /\ t.cash \in Int /\ t.lots \subseteq LotType
    /\ t.hold \in [Symbols -> Nat] /\ t.avg \in [Symbols -> AvgType]
    /\ t.new \subseteq TradeType /\ t.exits \subseteq OrderIds
    /\ DOMAIN t.st \subseteq DOMAIN orders
    /\ t.st \in [DOMAIN t.st -> {"active", "filled", "invalid"}]
    /\ t.ins \in [DOMAIN t.st -> Nat]
    /\ t.todo \subseteq {k \in DOMAIN t.st : t.st[k] = "active"}

ControlOK == /\ today \in 1..MaxDay /\ slot \in 0..NSamples
             /\ status \in {"normal", "paused_buy", "halted"} /\ frozen \subseteq Symbols
OrdersOK == orders \in Seq(OrderType) /\ Len(orders) <= MaxOrders

\* TypeOK: every variable has its type; the order table is a sequence whose rows
\* keep the shape of condition_orders, and a transaction the shape it was opened with.
TypeOK ==
    /\ ControlOK /\ OrdersOK
    /\ cash \in Int /\ lots \subseteq LotType
    /\ hold \in [Symbols -> Nat] /\ avg \in [Symbols -> AvgType]
    /\ trades \subseteq TradeType /\ exits \subseteq OrderIds
    /\ settled \subseteq 1..MaxDay
    /\ nav \in [day : 0..MaxDay, equity : Int]
    /\ plan = NoPlan \/ PlanOK(plan)
    /\ tx = NoTx \/ TxOK(tx)

\* BooksBalance (buy_fill, sell_fill, _audit_conservation): however the orders of a
\* day compete for it, neither the books nor a settlement in progress owe more money
\* than what sales whose fees exceeded their proceeds cost, which sell_fill books
\* without a test; the cash is the capital plus the flow of all trades of the account's
\* life, across aborted, repeated and late runs; a position is the sum of its lots, and
\* one sold out leaves none behind.
DearSales(T) == {t \in T : t.side = "sell" /\ t.amt < t.fee}
LotsHold(L, h) == \A s \in Symbols : h[s] = Shares({l \in L : l.sym = s})
BooksBalance ==
    /\ cash >= FlowOf(DearSales(trades))
    /\ tx # NoTx => tx.cash >= FlowOf(DearSales(trades \cup tx.new))
    /\ cash = InitCash + FlowOf(trades)
    /\ LotsHold(lots, hold) /\ (tx # NoTx => LotsHold(tx.lots, tx.hold))
    /\ \A l \in lots : hold[l.sym] > 0

\* OneTradePerOrder: an order trades exactly once if it is filled and never
\* otherwise, whatever days were settled, repeated, rolled back or caught up.
OneTradePerOrder ==
    /\ \A t, u \in trades : t.oid = u.oid => t = u
    /\ \A k \in DOMAIN orders : orders[k].status = "filled" <=> \E t \in trades : t.oid = k

\* TPlusOne (spec-01 3.4): up to any day, no more shares were sold than had been
\* bought on earlier days, even when days are settled late and out of order.
QtyOf(T) == SumFunction([t \in T |-> t.qty])
Bought(T, s, d) == QtyOf({t \in T : t.side = "buy" /\ t.sym = s /\ t.date < d})
Sold(T, s, d) == QtyOf({t \in T : t.side = "sell" /\ t.sym = s /\ t.date <= d})
TPlusOne == \A s \in Symbols, d \in 1..MaxDay : Sold(trades, s, d) <= Bought(trades, s, d)

\* NoLookAhead (#38): a trade happens at a sample after its order was created.
NoLookAhead == \A t \in trades : Eligible(orders[t.oid], t.date, t.at)

\* FrozenHasNoBuys (freeze_security, spec-06 6.3): no resting buy order of a
\* frozen security is left for a settlement to fill.
FrozenHasNoBuys == \A k \in ActiveIds : orders[k].dir = "buy" => orders[k].sym \notin frozen

\* SettledDayIsSealed (settle_key): once a day is in settlement_log no trade of
\* that day is added, however often the day is run again.
SettledDayIsSealed ==
    [][\A d \in settled : {t \in trades' : t.date = d} = {t \in trades : t.date = d}]_vars

\* ClosedOrdersStayClosed: an order that left the active state never changes again;
\* a settlement holding an older copy of it cannot bring it back.
ClosedOrdersStayClosed ==
    [][\A k \in DOMAIN orders : orders[k].status \in Terminal => orders'[k] = orders[k]]_vars

\* NavIsLatest: accounts.nav belongs to the latest settled day.  catchup_missed
\* settles any earlier day that was left out, and with it today's holdings.
NavIsLatest == \A d \in settled : d <= nav.day

\* FundsAreCausal (spec-01 3.4, "in the order of replay time"): at no sample of a
\* settled day had the account spent more than it had by then.
FlowUntil(d, i) == FlowOf({t \in trades : t.date < d \/ (t.date = d /\ t.at <= i)})
FundsAreCausal ==
    \A d \in settled, i \in 1..NSamples : InitCash + FlowUntil(d, i) >= 0

\* AverageCostIsAmortized (record_sell_pnl: "avg_cost is the position's cost with
\* fees, amortized"): a position never sold from costs what its buys cost together.
CostOf(T) == SumFunction([t \in T |-> t.amt + t.fee])
BuysOf(s) == {t \in trades : t.sym = s /\ t.side = "buy"}
AverageCostIsAmortized ==
    \A s \in Held : (\A t \in trades : t.sym = s => t.side = "buy") =>
        avg[s].n * hold[s] = CostOf(BuysOf(s)) * avg[s].d

\* TodayOrdersTradeTheirDay (spec-01 3.2, "an order of the day submitted after the
\* close is left out"): a day order never trades on another day than its own.
TodayOrdersTradeTheirDay ==
    \A t \in trades : orders[t.oid].validity = "today" => t.date = orders[t.oid].day

\* SingleCapHolds (single_cap_ok, "the hard red line, a buy beyond it is refused"):
\* a buy of the settlement leaves the symbol within the cap of the equity, at the
\* price of the buy.
SingleCapHolds ==
    [][tx # NoTx /\ tx' # NoTx => \A t \in tx'.new \ tx.new : t.side = "buy" =>
         LET worth == [s \in HeldIn(tx') |->
                 tx'.hold[s] * (IF s = t.sym THEN t.amt ELSE tx'.feeds[s].close * t.qty)]
         IN  tx'.hold[t.sym] * t.amt * 100
               <= CapPct * (tx'.cash * t.qty + SumFunction(worth))]_vars

=============================================================================
