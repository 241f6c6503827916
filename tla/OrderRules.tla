----------------------------- MODULE OrderRules -----------------------------
(***************************************************************************)
(* When, and at what price, the EOD replay engine tries to fill one        *)
(* condition order on one trading day (core/eodengine.py, settle_account). *)
(*                                                                         *)
(* A day has sample points 1..NSamples, the last one being the 15:00 bar.  *)
(* An order carries the moment it was created: after sample `slot' of day  *)
(* `day'.  The data service gives every ordered symbol one feed a day:     *)
(*   l0  3-second samples   bars with lo = hi = px                         *)
(*   l1  minute bars        px is the bar's close; `full' if the bar came   *)
(*       with its high and low, else lo = hi = px stand in for them        *)
(*   l2  the daily range    one bar, at NSamples                           *)
(*   susp suspended         no bar, only a valuation price                 *)
(* The three replay loops of the code differ in detail; seen from outside  *)
(* each is a set of sample points at which a fill is attempted, with the   *)
(* price of each attempt.  OrderReplay.tla is the loops themselves, sample *)
(* by sample, and checks that this closed form is what they compute.       *)
(***************************************************************************)
EXTENDS Integers, FiniteSetsExt

CONSTANT NSamples
ASSUME NSamplesAssumption == NSamples \in Nat \ {0}

\* A trigger: mode "market" has none, "px" an absolute price, "pct" a change
\* on the previous close, "cost" a change on the cost of what may be sold,
\* "trail" a drop from the highest price, "time" a sample, "board" an opened
\* limit-up board.
Trigger(mode, op, val) == [mode |-> mode, op |-> op, val |-> val, notLimit |-> FALSE]
TriggerType == [mode : {"market", "px", "pct", "cost", "trail", "time", "board"},
                op : {"le", "ge", "none"}, val : Int, notLimit : BOOLEAN]

NoLimit == [up |-> 0, down |-> 0]          \* lock_limits returned None
HasLimit(lim) == lim.up > 0

RoundDiv(a, b) == (2 * a + b) \div (2 * b) \* ROUND_HALF_UP of a/b, a >= 0
Greater(a, b) == IF a >= b THEN a ELSE b
Lesser(a, b) == IF a <= b THEN a ELSE b

-----------------------------------------------------------------------------
\* Only samples strictly after the creation of the order count (#38).
Eligible(o, d, i) == o.day < d \/ (o.day = d /\ o.slot < i)

\* One price for the whole bar, its high and low being known: what the engine
\* takes for a sealed board.  A bar with a close only is never one.
PinnedAt(bar, level) == bar.full /\ bar.lo = level /\ bar.hi = level

\* A sealed board blocks buying at the upper and selling at the lower limit.
Sealed(o, bar, lim) ==
    /\ HasLimit(lim)
    /\ PinnedAt(bar, IF o.dir = "buy" THEN lim.up ELSE lim.down)

\* not_limit: the trigger does not count while the board it points to is sealed.
TriggerMuted(o, bar, lim) ==
    /\ o.trig.notLimit
    /\ HasLimit(lim)
    /\ PinnedAt(bar, IF o.trig.op = "le" THEN lim.down ELSE lim.up)

\* The highest price a trailing stop looks back to: L0 ignores the samples
\* before the order was created, L1 and L2 do not.
RefHigh(o, f, d, i) ==
    Max({0} \cup {f.bars[j].hi : j \in {k \in DOMAIN f.bars :
                       k <= i /\ (f.kind = "l0" => Eligible(o, d, k))}})

(* The condition price X as a fraction.  `cost' is the cost basis: w is the *)
(* sum of price times shares and t the sum of shares of the sellable lots.  *)
Threshold(o, f, d, cost, i) ==
    CASE o.trig.mode = "px"    -> [n |-> o.trig.val, d |-> 1]
      [] o.trig.mode = "pct"   -> [n |-> RoundDiv(f.prev * (100 + o.trig.val), 100), d |-> 1]
      [] o.trig.mode = "cost"  -> [n |-> cost.w * (100 + o.trig.val), d |-> 100 * cost.t]
      [] o.trig.mode = "trail" -> [n |-> RefHigh(o, f, d, i) * (100 - o.trig.val), d |-> 100]

Reaches(bar, op, X) == IF op = "le" THEN bar.lo * X.d <= X.n ELSE bar.hi * X.d >= X.n

Touched(o, f, d, cost, i) ==
    CASE o.trig.mode = "market" -> TRUE
      [] o.trig.mode = "cost"  -> /\ cost.t > 0 /\ cost.w > 0
                                  /\ Reaches(f.bars[i], o.trig.op, Threshold(o, f, d, cost, i))
      [] o.trig.mode = "trail" -> /\ RefHigh(o, f, d, i) > 0
                                  /\ Reaches(f.bars[i], "le", Threshold(o, f, d, cost, i))
      [] OTHER -> Reaches(f.bars[i], o.trig.op, Threshold(o, f, d, cost, i))

-----------------------------------------------------------------------------
\* Orders the engine has no rule for under this feed: it gives up the account.
Undefined(o, f) == o.trig.mode = "market" /\ f.kind \in {"l1", "l2"}

\* The samples at which a fill is attempted, as long as no attempt succeeds.
Attempts(o, f, d, cost, lim) ==
    LET open == {i \in DOMAIN f.bars : Eligible(o, d, i)}
    IN  CASE o.trig.mode = "time" ->          \* one shot, at the first sample due
               LET due == {i \in open : f.kind = "l2" \/ i >= o.trig.val}
               IN  {i \in due : \A j \in due : i <= j}
          [] o.trig.mode = "board" ->         \* below the limit after touching it
               {i \in open : /\ HasLimit(lim)
                             /\ f.bars[i].px < lim.up
                             /\ \E j \in open : j < i /\ f.bars[j].px = lim.up}
          [] OTHER ->
               {i \in open : /\ Touched(o, f, d, cost, i)
                             /\ ~Sealed(o, f.bars[i], lim)
                             /\ ~TriggerMuted(o, f.bars[i], lim)}

\* The price of an attempt as a fraction: the sample (L0), the condition price
\* or at 15:00 the worse of it and the official close (L1), the close (L2).
AttemptPrice(o, f, d, cost, i) ==
    IF f.kind = "l2" THEN [n |-> f.close, d |-> 1]
    ELSE IF f.kind = "l0" \/ o.trig.mode = "time" THEN [n |-> f.bars[i].px, d |-> 1]
    ELSE LET X == Threshold(o, f, d, cost, i)
         IN  IF i < NSamples THEN X
             ELSE [n |-> IF o.dir = "buy" THEN Greater(X.n, f.close * X.d)
                                          ELSE Lesser(X.n, f.close * X.d),
                   d |-> X.d]

AttemptAmount(o, f, d, cost, i) ==
    LET p == AttemptPrice(o, f, d, cost, i) IN RoundDiv(p.n * o.qty, p.d)

=============================================================================
