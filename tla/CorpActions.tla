---------------------------- MODULE CorpActions ----------------------------
(***************************************************************************)
(* The corporate actions of an ex-date, applied to one account as the first *)
(* step of the settlement of that day (apply_corp_actions and the _corp_*   *)
(* functions of core/eodengine.py, called by settle_account; the events     *)
(* come from _corp_events_for of core/settle_scheduler.py).                 *)
(*                                                                         *)
(* `official' is what really happens on each day; the provider may fail to  *)
(* answer for a day, which is then settled without events.  A settlement is *)
(* one write transaction: `tx' holds what it has written so far, its money  *)
(* apart in tx.cash.  Days may be settled in any order, since the catch-up  *)
(* comes back to days that were missed.  The rest of the settlement is here *)
(* the trades its orders end in; EodSettlement has it in full.              *)
(*                                                                         *)
(* Prices and costs of lots and positions are left out.                     *)
(***************************************************************************)
EXTENDS Integers, Sequences, FiniteSets, Functions

CONSTANTS Symbols,
          MaxDay,
          DateOf,       \* the calendar date, in days, of a trading day
          Calendars,    \* the events of each day, in the order they are applied
          Orders,       \* the fills the orders of a day may end in
          MaxTrades,    \* bounds the fills of one day
          MaxLots,      \* bounds the lots there ever are
          InitCash, FeeMin, CommDiv, StampDiv,
          LotId         \* the random row id of a lot: breaks FIFO ties

Days == 1..MaxDay
\* What the provider may say; of a ratio the adapter makes a fraction.
Events ==      [kind : {"split"}, sym : Symbols, num : Int, den : Nat \ {0}]
          \cup [kind : {"dividend"}, sym : Symbols, dps : Int, tax : BOOLEAN]
          \cup [kind : {"rights"}, sym : Symbols, num : Int, den : Nat \ {0},
                price : Int, join : BOOLEAN]
          \cup [kind : {"delist"}, sym : Symbols, zero : BOOLEAN, price : Int]
          \cup [kind : {"unknown"}, sym : Symbols]
ASSUME CalendarAssumption == /\ MaxDay \in Nat \ {0} /\ DateOf \in [Days -> Int]
                             /\ Calendars \subseteq [Days -> Seq(Events)]
ASSUME OrdersAssumption ==
    Orders \subseteq [sym : Symbols, side : {"buy", "sell"}, qty : Nat \ {0}, price : Nat]
ASSUME MoneyAssumption == {InitCash, FeeMin} \subseteq Nat /\ {CommDiv, StampDiv} \subseteq Nat \ {0}
ASSUME LotIdAssumption ==             \* a primary key
    /\ MaxLots \in Nat /\ LotId \in [1..MaxLots -> Int]
    /\ \A i, j \in 1..MaxLots : LotId[i] = LotId[j] => i = j

VARIABLES official,     \* the events of each day
          today,
          paused,       \* accounts.status: a paused account is not settled
          cash, lots, hold,
          trades,       \* the fills, in order
          audit,        \* the corp_action.* rows of audit_logs, in order
          gaps,         \* the days with a trade.corp_provider_gap row
          settled,      \* settlement_log: the settled days, in the order they were
          tx            \* the open settlement, or NoTx

book == <<cash, lots, hold, trades, audit, settled>>
vars == <<official, today, paused, book, gaps, tx>>

NoTx == [date |-> 0, todo |-> <<>>]
Larger(a, b) == IF a > b THEN a ELSE b
Fee(amt, side) == Larger(FeeMin, amt \div CommDiv)
                    + (IF side = "sell" THEN amt \div StampDiv ELSE 0)
Shares(L) == SumFunction([l \in L |-> l.rem])
LotsOf(L, s) == {l \in L : l.sym = s}

Init == /\ official \in Calendars
        /\ today = 1 /\ paused = FALSE
        /\ cash = InitCash /\ lots = {} /\ hold = [s \in Symbols |-> 0]
        /\ trades = <<>> /\ audit = <<>>
        /\ gaps = {} /\ settled = <<>> /\ tx = NoTx

NextDay == /\ tx = NoTx /\ today < MaxDay
           /\ today' = today + 1
           /\ UNCHANGED <<official, paused, book, gaps, tx>>

\* control_agent: pause_buy and resume.
Pause == /\ tx = NoTx
         /\ paused' = ~paused
         /\ UNCHANGED <<official, today, book, gaps, tx>>

-----------------------------------------------------------------------------
(* The settlement of a day.                                                *)

IsSettled(d) == \E i \in DOMAIN settled : settled[i] = d

\* The settle_key guard; a provider that fails counts as a day without events.
OpenDay(d, events) ==
    /\ tx = NoTx /\ ~paused /\ ~IsSettled(d)
    /\ tx' = [date |-> d, events |-> events, todo |-> events,
              cash |-> cash, lots |-> lots, hold |-> hold,
              new |-> <<>>, rows |-> <<>>]
    /\ UNCHANGED <<official, today, paused, book>>
SettleAccount(d) == OpenDay(d, official[d]) /\ UNCHANGED gaps
ProviderGap(d) == OpenDay(d, <<>>) /\ gaps' = gaps \cup {d}

\* The lots an event of the day counts: bought before the ex-date, not sold out.
EntitledMutNewer(s) == {l \in tx.lots : l.sym = s /\ l.day + 1 < tx.date /\ l.rem > 0}
Entitled(s) == {l \in tx.lots : l.sym = s /\ l.day < tx.date /\ l.rem > 0}

\* The tag of an event in corp_action_flags; the symbol is the lot's.
Tag(ev) == <<ev.kind, tx.date>>
HandledMutNoTag(ev) == FALSE
Handled(ev) == \E l \in Entitled(ev.sym) : Tag(ev) \in l.tags
Flagged(l, ev) == [l EXCEPT !.tags = @ \cup {Tag(ev)}]
\* The lots with each of those of f turned into its value.
Replaced(f) == (tx.lots \ DOMAIN f) \cup Range(f)

\* An illegal event, even for a symbol that is not held, refuses the settlement.
Legal(ev) == CASE ev.kind = "split" -> ev.num >= 0
               [] ev.kind = "dividend" -> ev.dps >= 0
               [] ev.kind = "rights" -> ev.num > 0 /\ ev.price >= 0
               [] ev.kind = "delist" -> ev.zero \/ ev.price > 0
               [] OTHER -> FALSE

Due(ev, kind) ==
    /\ tx.todo # <<>> /\ ev = Head(tx.todo) /\ ev.kind = kind /\ Legal(ev)
    /\ Entitled(ev.sym) # {}
    /\ kind # "delist" => ~Handled(ev)
Row(ev, result, shares, net) ==
    [kind |-> ev.kind, sym |-> ev.sym, ex |-> tx.date,
     result |-> result, shares |-> shares, net |-> net]
Applied(row, L, h) ==
    [tx EXCEPT !.todo = Tail(@), !.rows = Append(@, row), !.cash = @ + row.net,
               !.lots = L, !.hold[row.sym] = h]
Outside == UNCHANGED <<official, today, paused, book, gaps>>

\* Each lot is rounded down; the position becomes the sum of all its lots.
Grown(l, ev) == [Flagged(l, ev) EXCEPT !.rem = (@ * (ev.num + ev.den)) \div ev.den]
Split(ev) ==
    /\ Due(ev, "split")
    /\ LET L == Replaced([l \in Entitled(ev.sym) |-> Grown(l, ev)])
           now == Shares(LotsOf(L, ev.sym))
       IN  tx' = Applied(Row(ev, "rewritten", now - Shares(LotsOf(tx.lots, ev.sym)), 0), L, now)
    /\ Outside

\* The tax by holding time, in percent, and rounded half up per lot.
TaxRate(day) == LET held == DateOf[tx.date] - DateOf[day]
                IN  CASE held <= 30 -> 20 [] held <= 365 -> 10 [] OTHER -> 0
NetOfTax(l, ev) == l.rem * ev.dps
                     - (IF ev.tax THEN (l.rem * ev.dps * TaxRate(l.day) + 50) \div 100 ELSE 0)
Dividend(ev) ==
    /\ Due(ev, "dividend")
    /\ LET net == SumFunction([l \in Entitled(ev.sym) |-> NetOfTax(l, ev)])
       IN  tx' = Applied(Row(ev, "credited", 0, net),
                         Replaced([l \in Entitled(ev.sym) |-> Flagged(l, ev)]),
                         tx.hold[ev.sym])
    /\ Outside

\* A new lot dated the ex-date, which carries the tag of its own event.
IsPaid(r) == r.result = "paid"
Buys(T) == {i \in DOMAIN T : T[i].side = "buy"}
Calls(R) == {i \in DOMAIN R : IsPaid(R[i])}
LotsSoFar(T, R) == Cardinality(Buys(T)) + Cardinality(Calls(R))
NextLot == 1 + LotsSoFar(trades \o tx.new, audit \o tx.rows)
NewLot(s, qty, tags) ==
    [id |-> NextLot, sym |-> s, day |-> tx.date, rem |-> qty, tags |-> tags]

\* The call is paid if the account's row can pay for it: that row does not have
\* the other payments of the day yet.
AffordsMutNoTest(pay) == TRUE
Affords(pay) == cash >= pay
Rights(ev) ==
    /\ Due(ev, "rights")
    /\ LET sub == (Shares(Entitled(ev.sym)) * ev.num) \div ev.den
           pay == sub * ev.price
           L == Replaced([l \in Entitled(ev.sym) |-> Flagged(l, ev)])
           Unpaid(result) == Applied(Row(ev, result, 0, 0), L, tx.hold[ev.sym])
       IN  \/ (~ev.join \/ sub = 0) /\ tx' = Unpaid("waived")
           \/ ev.join /\ sub # 0 /\ ~Affords(pay) /\ tx' = Unpaid("declined")
           \/ /\ ev.join /\ sub # 0 /\ Affords(pay) /\ NextLot <= MaxLots
              /\ tx' = Applied(Row(ev, "paid", sub, -pay),
                               L \cup {NewLot(ev.sym, sub, {Tag(ev)})},
                               tx.hold[ev.sym] + sub)
    /\ Outside

\* Pays for the entitled lots and deletes the whole position.  There is no tag:
\* a position that is gone is no longer entitled.
ClearedMutEntitled(s) == tx.lots \ Entitled(s)
Cleared(s) == {l \in tx.lots : l.sym # s}
Delist(ev) ==
    /\ Due(ev, "delist")
    /\ LET qty == Shares(Entitled(ev.sym))
           amt == qty * ev.price
       IN  tx' = Applied(IF ev.zero THEN Row(ev, "zeroed", -qty, 0)
                         ELSE Row(ev, "cleared", -qty, amt - Fee(amt, "sell")),
                         Cleared(ev.sym), 0)
    /\ Outside

\* No position of that day, or an event already applied: nothing to do.
NothingDue(ev) ==
    /\ tx.todo # <<>> /\ ev = Head(tx.todo) /\ Legal(ev)
    /\ Entitled(ev.sym) = {} \/ (ev.kind # "delist" /\ Handled(ev))
    /\ tx' = [tx EXCEPT !.todo = Tail(@)]
    /\ Outside

\* The orders of a symbol delisted today are invalid.
MayTrade(s) == ~\E i \in DOMAIN tx.events : tx.events[i].kind = "delist" /\ tx.events[i].sym = s
Trade(o) == [side |-> o.side, sym |-> o.sym, qty |-> o.qty, amt |-> o.qty * o.price,
             fee |-> Fee(o.qty * o.price, o.side), day |-> tx.date]

BuyFill(o) ==
    /\ tx # NoTx /\ tx.todo = <<>> /\ Len(tx.new) < MaxTrades /\ NextLot <= MaxLots
    /\ o.side = "buy" /\ MayTrade(o.sym)
    /\ tx.cash >= Trade(o).amt + Trade(o).fee
    /\ tx' = [tx EXCEPT !.cash = @ - (Trade(o).amt + Trade(o).fee),
                        !.lots = @ \cup {NewLot(o.sym, o.qty, {})},
                        !.hold[o.sym] = @ + o.qty,
                        !.new = Append(@, Trade(o))]
    /\ Outside

\* First in, first out over the lots of earlier days; a position sold out leaves none.
Older(l) == {m \in Entitled(l.sym) :
               m.day < l.day \/ (m.day = l.day /\ LotId[m.id] < LotId[l.id])}
Sold(l, qty) == [l EXCEPT !.rem = Larger(0, @ - Larger(0, qty - Shares(Older(l))))]
SellFill(o) ==
    /\ tx # NoTx /\ tx.todo = <<>> /\ Len(tx.new) < MaxTrades
    /\ o.side = "sell" /\ MayTrade(o.sym)
    /\ Shares(Entitled(o.sym)) >= o.qty
    /\ tx' = [tx EXCEPT !.cash = @ + (Trade(o).amt - Trade(o).fee),
                        !.lots = IF tx.hold[o.sym] = o.qty THEN Cleared(o.sym)
                                 ELSE Replaced([l \in Entitled(o.sym) |-> Sold(l, o.qty)]),
                        !.hold[o.sym] = @ - o.qty,
                        !.new = Append(@, Trade(o))]
    /\ Outside

\* What the trades and the corporate actions of the day bring in, which the first
\* equation of _audit_conservation holds against the change of the cash.
Flow(t) == IF t.side = "sell" THEN t.amt - t.fee ELSE -(t.amt + t.fee)
FlowOf(T) == SumFunction([i \in DOMAIN T |-> Flow(T[i])])
NetOf(R) == SumFunction([i \in DOMAIN R |-> R[i].net])

Commit ==
    /\ tx # NoTx /\ tx.todo = <<>>
    /\ cash + FlowOf(tx.new) + NetOf(tx.rows) = tx.cash
    /\ cash' = tx.cash /\ lots' = tx.lots /\ hold' = tx.hold
    /\ trades' = trades \o tx.new /\ audit' = audit \o tx.rows
    /\ settled' = Append(settled, tx.date)
    /\ tx' = NoTx
    /\ UNCHANGED <<official, today, paused, gaps>>

\* An illegal event, any other error of the settlement, or a crash.
Abort == /\ tx # NoTx
         /\ tx' = NoTx
         /\ Outside

Upcoming == {tx.todo[i] : i \in DOMAIN tx.todo}
Next == \/ NextDay \/ Pause
        \/ \E d \in 1..today : SettleAccount(d) \/ ProviderGap(d)
        \/ \E ev \in Upcoming :
              Split(ev) \/ Dividend(ev) \/ Rights(ev) \/ Delist(ev) \/ NothingDue(ev)
        \/ \E o \in Orders : BuyFill(o) \/ SellFill(o)
        \/ Commit \/ Abort

Spec == Init /\ [][Next]_vars

-----------------------------------------------------------------------------
\* SharesAreExplained (apply_corp_actions, holding, sell_fill): a position is the sum
\* of its lots, and also what the trades and the rows of audit_logs say was bought,
\* sold, added by splits and calls and cleared.  Shares vanish without a row in one
\* case only, a delisting that finds lots too young to be entitled: those bought since
\* when it is settled after a later day, or that of a call paid on the same day.
Sign(t) == IF t.side = "buy" THEN t.qty ELSE -t.qty
Bought(T, s) == SumFunction([i \in {j \in DOMAIN T : T[j].sym = s} |-> Sign(T[i])])
Added(R, s) == SumFunction([i \in {j \in DOMAIN R : R[j].sym = s} |-> R[i].shares])
SettledAfterLater(days, d) ==
    \E i, j \in DOMAIN days : i < j /\ days[i] > d /\ days[j] = d
CallThatDay(R, s, d) == \E i \in Calls(R) : R[i].sym = s /\ R[i].ex = d
YoungCleared(R, days, s) == \E i \in DOMAIN R :
    /\ R[i].kind = "delist" /\ R[i].sym = s
    /\ SettledAfterLater(days, R[i].ex) \/ CallThatDay(R, s, R[i].ex)
SharesAreExplained == \A s \in Symbols :
    /\ hold[s] = Shares(LotsOf(lots, s))
    /\ hold[s] = Bought(trades, s) + Added(audit, s) \/ YoungCleared(audit, settled, s)

\* EventsOnce (settle_key, corp_action_flags): however often a day is retried, and
\* even if the provider lists an event twice, an account gets one row for it.
Once(R) == \A i, j \in DOMAIN R :
    R[i].kind = R[j].kind /\ R[i].sym = R[j].sym /\ R[i].ex = R[j].ex => i = j
EventsOnce == Once(audit)

\* EntitledAreServed (_corp_split, _corp_dividend, _corp_rights, _corp_delist): once a
\* day is settled and the provider has never failed on it, every lot whose own day was
\* settled before has had each event of that day, and none is left of a delisted symbol.
Precedes(days, d, e) == \E i, j \in DOMAIN days : i < j /\ days[i] = d /\ days[j] = e
Served(l, d) == \A i \in DOMAIN official[d] :
    official[d][i].sym = l.sym => <<official[d][i].kind, d>> \in l.tags
ServedOn(L, days, D) == \A l \in L, d \in D :
    l.rem > 0 /\ l.day < d /\ Precedes(days, l.day, d) => Served(l, d)
EntitledAreServed == ServedOn(lots, settled, Days \ gaps)

\* OverdraftNeedsTwoCalls (_corp_rights, _corp_delist, sell_fill): the account only ever
\* owes money after two calls were paid on one day, each tested against the same cash,
\* or after a delisting or a sale whose fees exceed its proceeds.
TwoCalls(R) == \E i, j \in Calls(R) : i < j /\ R[i].ex = R[j].ex
CostlyDelisting(R) == \E i \in DOMAIN R : R[i].kind = "delist" /\ R[i].net < 0
CostlySale(T) == \E i \in DOMAIN T : T[i].side = "sell" /\ T[i].amt < T[i].fee
MayOwe(T, R) == TwoCalls(R) \/ CostlyDelisting(R) \/ CostlySale(T)
OverdraftNeedsTwoCalls == cash < 0 => MayOwe(trades, audit)

\* NeverOverdrawn and GapsAreMadeUp: what the comments of _corp_rights (an account never
\* owes money) and of _corp_events_for (a day the provider failed on is made up for in
\* the next round) say, and the code does not do.
NeverOverdrawn == cash >= 0
GapsAreMadeUp == ServedOn(lots, settled, Days)
=============================================================================
