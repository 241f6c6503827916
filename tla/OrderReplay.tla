---------------------------- MODULE OrderReplay ----------------------------
(***************************************************************************)
(* The three replay loops of core/eodengine.py for one order: the samples  *)
(* of the day in order, with the loop's local variables (pinned,           *)
(* refHigh, touchedPrev, prevFailed, seenAfter), the insufficient-event    *)
(* counter and the fill.  While one order is replayed nothing else moves   *)
(* the account, so the cash and the sellable shares are constants here.    *)
(* OrderRules states the same in closed form, which is what EodSettlement  *)
(* uses; ReplayMatchesRules is the agreement of the two.                   *)
(***************************************************************************)
EXTENDS OrderRules, FiniteSets

CONSTANTS Cases,       \* [order, feed, day, lim, cost, cash, sellable]
          Fee          \* the fee of a buy, which the cash must cover as well

\* Every sample of the day has a bar, in L0 one price, and L2 is one bar; a minute
\* may have its close only (_norm_l1).  An open-board order is invalid without the
\* samples and never gets here.
Bars == {b \in [lo : Nat, hi : Nat, px : Nat, full : BOOLEAN] :
             b.full \/ (b.lo = b.px /\ b.hi = b.px)}
CaseFits(c) ==
    LET o == c.order
        f == c.feed
    IN  /\ o.dir \in {"buy", "sell"} /\ o.trig \in TriggerType
        /\ o.qty \in Nat \ {0} /\ o.day \in Nat /\ o.slot \in 0..NSamples
        /\ f.close \in Nat /\ f.prev \in Nat /\ c.day \in Nat
        /\ c.lim.up \in Nat /\ c.lim.down \in Nat /\ c.cost.w \in Nat /\ c.cost.t \in Nat
        /\ c.cash \in Int /\ c.sellable \in Nat
        /\ f.kind \in {"l0", "l1"} => f.bars \in [1..NSamples -> Bars]
        /\ f.kind = "l0" => \A i \in 1..NSamples : /\ f.bars[i].full
                                                  /\ f.bars[i].lo = f.bars[i].px
                                                  /\ f.bars[i].hi = f.bars[i].px
        /\ f.kind = "l2" => f.bars \in [{NSamples} -> Bars] /\ f.bars[NSamples].full
        /\ f.kind \in {"l0", "l1", "l2"}
        /\ o.trig.mode = "board" => f.kind = "l0"
ASSUME CasesAssumption == Fee \in Nat /\ \A c \in Cases : CaseFits(c)

VARIABLES case,        \* the inputs of this replay
          at,          \* the next sample
          pinned,      \* ever_pinned: the limit-up price was seen
          refHigh,     \* ref_high of a trailing stop
          touchedPrev, prevFailed, seenAfter,
          ins,         \* insufficient events of this day
          fill,        \* the sample of the fill, 0 while there is none
          amount,      \* price times shares of the fill
          over         \* the loop was left

replayVars == <<case, at, pinned, refHigh, touchedPrev, prevFailed, seenAfter, ins,
                fill, amount, over>>

order == case.order
feed == case.feed
bar == feed.bars[at]
isAfter == Eligible(order, case.day, at)

ReplayInit == /\ case \in Cases
              /\ ~Undefined(case.order, case.feed)
              /\ at = 1
              /\ pinned = FALSE /\ refHigh = 0
              /\ touchedPrev = FALSE /\ prevFailed = FALSE /\ seenAfter = FALSE
              /\ ins = 0 /\ fill = 0 /\ amount = 0 /\ over = FALSE

-----------------------------------------------------------------------------
\* buy_fill's and sell_fill's own test.
Affordable(amt) == IF order.dir = "buy" THEN case.cash >= amt + Fee
                                        ELSE case.sellable >= order.qty

\* A touched sample: fill, or count an insufficient event and go on.
Try(price) ==
    LET amt == RoundDiv(price.n * order.qty, price.d) IN
    IF Affordable(amt)
    THEN fill' = at /\ amount' = amt /\ over' = TRUE /\ UNCHANGED ins
    ELSE ins' = ins + 1 /\ UNCHANGED <<fill, amount, over>>

Pass == UNCHANGED <<ins, fill, amount, over>>

\* A time order breaks out of the loop after its only attempt.
TryOnce(price) ==
    LET amt == RoundDiv(price.n * order.qty, price.d) IN
    /\ over' = TRUE
    /\ IF Affordable(amt) THEN fill' = at /\ amount' = amt /\ UNCHANGED ins
                          ELSE ins' = ins + 1 /\ UNCHANGED <<fill, amount>>

CostLevel == [n |-> case.cost.w * (100 + order.trig.val), d |-> 100 * case.cost.t]
FixedLevel == [n |-> IF order.trig.mode = "px" THEN order.trig.val
                     ELSE RoundDiv(feed.prev * (100 + order.trig.val), 100), d |-> 1]
HasCost == case.cost.t > 0 /\ case.cost.w > 0
TrailLevel(high) == [n |-> high * (100 - order.trig.val), d |-> 100]

\* The level a sample is compared with, given the trailing high so far.
LevelNow(high) == CASE order.trig.mode = "trail" -> TrailLevel(high)
                    [] order.trig.mode = "cost" -> CostLevel
                    [] OTHER -> FixedLevel
ReachedOp(high) ==
    CASE order.trig.mode = "market" -> TRUE
      [] order.trig.mode = "trail" -> high > 0 /\ Reaches(bar, "le", TrailLevel(high))
      [] order.trig.mode = "cost" -> HasCost /\ Reaches(bar, order.trig.op, CostLevel)
      [] OTHER -> Reaches(bar, order.trig.op, FixedLevel)

Running(kind) == feed.kind = kind /\ ~over /\ at \in DOMAIN feed.bars
Advance == at' = at + 1 /\ UNCHANGED case

-----------------------------------------------------------------------------
\* L0: a sample before the creation of the order is skipped altogether.
L0Skip == /\ Running("l0") /\ ~isAfter
          /\ Advance /\ Pass
          /\ UNCHANGED <<pinned, refHigh, touchedPrev, prevFailed, seenAfter>>

\* L0, sell_open_board: remember the sealed board, sell once it opens.
L0Board == /\ Running("l0") /\ isAfter /\ order.trig.mode = "board"
           /\ Advance
           /\ pinned' = (pinned \/ (HasLimit(case.lim) /\ bar.px = case.lim.up))
           /\ IF HasLimit(case.lim) /\ bar.px # case.lim.up /\ pinned /\ bar.px <= case.lim.up
              THEN Try([n |-> bar.px, d |-> 1])
              ELSE Pass
           /\ UNCHANGED <<refHigh, touchedPrev, prevFailed, seenAfter>>

\* L0, time: the first sample at or after the time is the only one judged.
L0Time == /\ Running("l0") /\ isAfter /\ order.trig.mode = "time"
          /\ Advance
          /\ IF at < order.trig.val THEN Pass ELSE TryOnce([n |-> bar.px, d |-> 1])
          /\ UNCHANGED <<pinned, refHigh, touchedPrev, prevFailed, seenAfter>>

\* L0, price orders: touched, not muted, not sealed.
L0Price == /\ Running("l0") /\ isAfter /\ order.trig.mode \notin {"board", "time"}
           /\ Advance
           /\ refHigh' = IF order.trig.mode = "trail" THEN Greater(refHigh, bar.px) ELSE refHigh
           /\ IF ReachedOp(refHigh') /\ ~TriggerMuted(order, bar, case.lim)
                                     /\ ~Sealed(order, bar, case.lim)
              THEN Try([n |-> bar.px, d |-> 1])
              ELSE Pass
           /\ UNCHANGED <<pinned, touchedPrev, prevFailed, seenAfter>>

\* L1, time: as in L0, at the close of the minute.
L1Time == /\ Running("l1") /\ order.trig.mode = "time"
          /\ Advance
          /\ IF ~isAfter \/ at < order.trig.val THEN Pass ELSE TryOnce([n |-> bar.px, d |-> 1])
          /\ UNCHANGED <<pinned, refHigh, touchedPrev, prevFailed, seenAfter>>

\* L1 at the condition price; in the closing minute at the worse of it and the close.
L1Price(high) ==
    LET X == LevelNow(high) IN
    IF at < NSamples THEN X
    ELSE [n |-> IF order.dir = "buy" THEN Greater(X.n, feed.close * X.d)
                                     ELSE Lesser(X.n, feed.close * X.d), d |-> X.d]

\* Mutant: a failed attempt is not tried again in the next touched minute.
L1MinuteMutNoRetry ==
    /\ Running("l1") /\ order.trig.mode # "time"
    /\ Advance
    /\ refHigh' = IF order.trig.mode = "trail" THEN Greater(refHigh, bar.hi) ELSE refHigh
    /\ LET touched == /\ ReachedOp(refHigh')
                      /\ ~Sealed(order, bar, case.lim)
                      /\ ~TriggerMuted(order, bar, case.lim)
       IN  /\ IF isAfter /\ touched /\ (~seenAfter \/ ~touchedPrev)
              THEN Try(L1Price(refHigh')) ELSE Pass
           /\ touchedPrev' = touched
           /\ prevFailed' = FALSE
           /\ seenAfter' = (seenAfter \/ isAfter)
    /\ UNCHANGED pinned

\* L1: an attempt needs the price to have crossed into the minute, or the minute
\* to be the first one that counts, or the attempt of the minute before to have failed.
L1Minute ==
    /\ Running("l1") /\ order.trig.mode # "time"
    /\ Advance
    /\ refHigh' = IF order.trig.mode = "trail" THEN Greater(refHigh, bar.hi) ELSE refHigh
    /\ LET touched == /\ ReachedOp(refHigh')
                      /\ ~Sealed(order, bar, case.lim)
                      /\ ~TriggerMuted(order, bar, case.lim)
           tried == isAfter /\ touched /\ (~seenAfter \/ ~touchedPrev \/ prevFailed)
       IN  /\ IF tried THEN Try(L1Price(refHigh')) ELSE Pass
           /\ touchedPrev' = touched
           /\ prevFailed' = (touched /\ (prevFailed \/ (tried /\ ~over')))
           /\ seenAfter' = (seenAfter \/ isAfter)
    /\ UNCHANGED pinned

\* L2: the whole day is one judgement, at the official close.
L2Day ==
    /\ feed.kind = "l2" /\ ~over
    /\ at' = NSamples /\ UNCHANGED case
    /\ LET all == feed.bars[NSamples]
           high == IF order.trig.mode = "trail" THEN Greater(refHigh, all.hi) ELSE refHigh
           reached == CASE order.trig.mode = "trail" ->
                             high > 0 /\ Reaches(all, "le", TrailLevel(high))
                        [] order.trig.mode = "cost" ->
                             HasCost /\ Reaches(all, order.trig.op, CostLevel)
                        [] OTHER -> Reaches(all, order.trig.op, FixedLevel)
           amt == feed.close * order.qty
           go == /\ Eligible(order, case.day, NSamples)
                 /\ order.trig.mode # "board"
                 /\ \/ order.trig.mode = "time"
                    \/ reached /\ ~Sealed(order, all, case.lim) /\ ~TriggerMuted(order, all, case.lim)
       IN  /\ refHigh' = high
           /\ fill' = IF go /\ Affordable(amt) THEN NSamples ELSE 0
           /\ amount' = IF go /\ Affordable(amt) THEN amt ELSE 0
           /\ ins' = IF go /\ ~Affordable(amt) THEN 1 ELSE 0
    /\ over' = TRUE
    /\ UNCHANGED <<pinned, touchedPrev, prevFailed, seenAfter>>

\* The series is exhausted.
EndOfDay == /\ feed.kind \in {"l0", "l1"} /\ ~over /\ at \notin DOMAIN feed.bars
            /\ over' = TRUE
            /\ UNCHANGED <<case, at, pinned, refHigh, touchedPrev, prevFailed, seenAfter,
                           ins, fill, amount>>

ReplayNext == L0Skip \/ L0Board \/ L0Time \/ L0Price \/ L1Time \/ L1Minute \/ L2Day \/ EndOfDay

ReplaySpec == ReplayInit /\ [][ReplayNext]_replayVars

-----------------------------------------------------------------------------
ReplayTypeOK == /\ case \in Cases
                /\ at \in 1..(NSamples + 1)
                /\ fill \in 0..NSamples
                /\ ins \in 0..NSamples
                /\ amount \in Nat
                /\ {pinned, touchedPrev, prevFailed, seenAfter, over} \subseteq BOOLEAN

\* ReplayMatchesRules (eodengine.py 1405-1785, the three loops): whatever the
\* samples, the order fills at the first attempt of OrderRules it can pay for, at
\* that attempt's price, and counts one insufficient event per attempt before it.
\* In particular the L1 rule on crossing into a minute never blocks an attempt.
ReplayMatchesRules ==
    over =>
      LET tries == Attempts(order, feed, case.day, case.cost, case.lim)
          amt(i) == AttemptAmount(order, feed, case.day, case.cost, i)
          paid  == {i \in tries : Affordable(amt(i))}
      IN  IF paid = {} THEN fill = 0 /\ ins = Cardinality(tries)
          ELSE /\ fill = Min(paid)
               /\ amount = amt(fill)
               /\ ins = Cardinality({i \in tries : i < fill})

\* SealedDayNeverTrades (spec-01 3.5, a one-price board fills nothing all day): on a
\* day of which every price known is the limit against the order, a price order does
\* not fill.  It does not hold: minutes that came with their close only are not taken
\* as sealed (1546, 1550), and no run asserts it.
SealedDayNeverTrades ==
    LET limit == IF order.dir = "buy" THEN case.lim.up ELSE case.lim.down IN
    /\ order.trig.mode \notin {"time", "board"} /\ HasLimit(case.lim)
    /\ \A i \in DOMAIN feed.bars : {feed.bars[i].lo, feed.bars[i].hi, feed.bars[i].px} = {limit}
    => fill = 0

=============================================================================
