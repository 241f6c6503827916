----------------------------- MODULE MarketProof -----------------------------
(***************************************************************************)
(* Theorems about the prices a settlement works with.  MarketFeed: one     *)
(* source a day, and what a settlement takes from the samples, the minutes *)
(* and the rows.  OrderReplay: the replay loops over a day's samples do    *)
(* what OrderRules says in closed form.                                    *)
(***************************************************************************)
EXTENDS MarketFeed, OrderReplay, FiniteSetTheorems, TLAPS

-----------------------------------------------------------------------------
(***************************************************************************)
(* MarketFeed                                                              *)
(***************************************************************************)

\* The types the proof needs.
MarketType == /\ day \in Days /\ phase \in Pre..Eve
              /\ close \in [Days -> [Symbols -> 0..2]] /\ px \in [Symbols -> Prices]
RowType == rows \in [Days -> [Symbols -> 0..2]] /\ peeked \in [Days -> [Symbols -> BOOLEAN]]
SourceType == /\ source \in Sources /\ unbound \in Sources \cup {None}
              /\ bound \in [Days -> Sources \cup {None}]
TickType == /\ ticks = [d \in Days |-> ticks[d]]
            /\ \A d \in Days : ticks[d] = [s \in Symbols |-> ticks[d][s]]
CovType == /\ cov = [d \in Days |-> cov[d]]
           /\ \A d \in Days : cov[d] = [s \in Symbols |-> cov[d][s]]
           /\ \A d \in Days, s \in Symbols :
                 cov[d][s] = [actual |-> cov[d][s].actual, expected |-> cov[d][s].expected,
                              quality |-> cov[d][s].quality]

\* The samples of a day have its source, or the one about to be bound to it.
BoundOK ==
  /\ unbound # None => bound[day] \in {None, unbound}
  /\ \A d \in Days \ torn, s \in Symbols : \A t \in ticks[d][s] :
        \/ bound[d] # None /\ t.src = bound[d]
        \/ bound[d] = None /\ d = day /\ unbound # None /\ t.src = unbound

\* A coverage row is one of a day whose samples are all there, and counts them.
Over(d) == d < day \/ (d = day /\ phase = Eve)
CovOK == \A d \in Days, s \in Symbols :
  cov[d][s].quality # "none" =>
     /\ Over(d)
     /\ cov[d][s].actual = Count(d, s).actual /\ cov[d][s].expected = Count(d, s).expected

\* A cached row is the official close, or one a page fetched while the session ran.
Closed(d) == d < day \/ (d = day /\ phase >= Ext)
RowsOK == \A d \in Days, s \in Symbols :
  rows[d][s] # 0 => (Closed(d) /\ rows[d][s] = close[d][s]) \/ peeked[d][s]

Types == MarketType /\ RowType /\ SourceType /\ TickType /\ CovType
IInv == Types /\ BoundOK /\ CovOK /\ RowsOK /\ GapsAreMarked /\ OfficialUnlessPeeked

LEMMA QuietHolds == ASSUME Quiet PROVE GapsAreMarked' /\ OfficialUnlessPeeked'
BY DEF Quiet, NothingTaken, GapsAreMarked, OfficialUnlessPeeked

LEMMA InitIInv == Init => IInv
<1> SUFFICES ASSUME Init PROVE IInv
  OBVIOUS
<1>1. MarketType /\ RowType /\ SourceType /\ TickType
  BY FeedAssumption DEF Init, MarketType, RowType, SourceType, TickType, ByDay, Days, Prices, Pre, Eve
<1>2. CovType /\ CovOK
  BY DEF Init, CovType, CovOK, ByDay, NoCover
<1>3. BoundOK /\ RowsOK
  BY DEF Init, BoundOK, RowsOK, ByDay
<1>4. GapsAreMarked /\ OfficialUnlessPeeked
  BY DEF Init, GapsAreMarked, OfficialUnlessPeeked, NothingTaken
<1>5. QED
  BY <1>1, <1>2, <1>3, <1>4 DEF IInv, Types

-----------------------------------------------------------------------------
(* The market and the collector.                                           *)

LEMMA MoveKeeps == ASSUME IInv, Move \/ NewDay PROVE IInv'
<1> USE DEF Pre, Am, Pm, Ext, Eve
<1>1. /\ unbound = None /\ Quiet
      /\ UNCHANGED <<source, unbound, ticks, bound, cov, rows, peeked, torn>>
  BY DEF Move, NewDay, samples, run, cache
<1>2. /\ MarketType'
      /\ \A d \in Days, s \in Symbols : Closed(d) => Closed(d)' /\ close'[d][s] = close[d][s]
      /\ \A d \in Days : Over(d) => Over(d)'
  <2>1. CASE Move
    <3>1. /\ day' = day /\ phase < Eve /\ phase' = phase + 1 /\ px' \in [Symbols -> Prices]
          /\ close' = IF phase' = Ext THEN [close EXCEPT ![day] = px'] ELSE close
      BY <2>1 DEF Move
    <3>2. px' \in [Symbols -> 0..2]
      BY <3>1 DEF Prices
    <3>3. QED
      BY <3>1, <3>2 DEF IInv, Types, MarketType, Closed, Over, Days
  <2>2. CASE NewDay
    BY <2>2, FeedAssumption DEF NewDay, IInv, Types, MarketType, Closed, Over, Days
  <2>3. QED
    BY <2>1, <2>2
<1>3. Types'
  BY <1>1, <1>2 DEF IInv, Types, RowType, SourceType, TickType, CovType
<1>4. BoundOK'
  BY <1>1 DEF IInv, BoundOK
<1>5. CovOK'
  <2>1. \A d \in Days, s \in Symbols : Count(d, s)' = Count(d, s)
    BY <1>1 DEF Count
  <2>2. QED
    BY <1>1, <1>2, <2>1 DEF IInv, CovOK
<1>6. RowsOK'
  BY <1>1, <1>2 DEF IInv, RowsOK
<1>7. QED
  BY <1>1, <1>3, <1>4, <1>5, <1>6, QuietHolds DEF IInv

LEMMA IdleKeeps == ASSUME IInv, NEW w, Idle(w) PROVE IInv'
<1>1. /\ Quiet /\ UNCHANGED <<day, phase, px, close, source, unbound, ticks, bound, rows, peeked, torn>>
      /\ cov' = IF Closes THEN [cov EXCEPT ![day] = Finalized(w)] ELSE cov
  BY DEF Idle, clock, samples, run, cache
<1>2. \A d \in Days, s \in Symbols : Count(d, s)' = Count(d, s) /\ (Over(d)' <=> Over(d))
  BY <1>1 DEF Count, Over
<1>3. CovType' /\ CovOK'
  <2>1. CASE ~Closes
    BY <1>1, <1>2, <2>1 DEF IInv, Types, CovType, CovOK
  <2>2. CASE Closes
    <3>1. day \in Days /\ Over(day)
      BY <2>2 DEF IInv, Types, MarketType, Closes, Over
    <3>2. \A s \in Symbols : /\ Verdict(s).actual = Count(day, s).actual
                             /\ Verdict(s).expected = Count(day, s).expected
                             /\ Verdict(s) = [actual |-> Verdict(s).actual, expected |-> Verdict(s).expected,
                                              quality |-> Verdict(s).quality]
      BY DEF Verdict
    <3>3. /\ Finalized(w) = [s \in Symbols |-> Finalized(w)[s]]
          /\ \A s \in Symbols : Finalized(w)[s] = IF s \in w THEN Verdict(s) ELSE cov[day][s]
      BY DEF Finalized
    <3> HIDE DEF Finalized, Verdict
    <3>4. /\ cov' = [d \in Days |-> cov'[d]]
          /\ \A d \in Days : cov'[d] = IF d = day THEN Finalized(w) ELSE cov[d]
      BY <1>1, <2>2, <3>1 DEF IInv, Types, CovType
    <3>5. CovType'
      BY <3>1, <3>2, <3>3, <3>4 DEF IInv, Types, CovType
    <3>6. ASSUME NEW d \in Days, NEW s \in Symbols, cov'[d][s].quality # "none"
          PROVE  /\ Over(d)
                 /\ cov'[d][s].actual = Count(d, s).actual /\ cov'[d][s].expected = Count(d, s).expected
      BY <3>1, <3>2, <3>3, <3>4, <3>6 DEF IInv, CovOK
    <3>7. QED
      BY <1>2, <3>5, <3>6 DEF CovOK
  <2>3. QED
    BY <2>1, <2>2
<1>4. Types'
  BY <1>1, <1>3 DEF IInv, Types, MarketType, RowType, SourceType, TickType
<1>5. BoundOK' /\ RowsOK'
  BY <1>1 DEF IInv, BoundOK, RowsOK, Closed
<1>6. QED
  BY <1>1, <1>3, <1>4, <1>5, QuietHolds DEF IInv

LEMMA CollectKeeps == ASSUME IInv, NEW w, NEW got, Collect(w, got) PROVE IInv'
<1>1. /\ Quiet /\ UNCHANGED <<day, phase, px, close, source, bound, cov, rows, peeked, torn>>
      /\ unbound = None /\ unbound' = Source /\ phase \in {Am, Pm, Ext}
      /\ ticks' = [ticks EXCEPT ![day] = Upserted(got)]
  BY DEF Collect, clock, run, cache, InSession
<1>2. /\ day \in Days /\ Source \in Sources /\ Source # None
      /\ bound[day] \in {None, Source}
  BY FeedAssumption DEF IInv, Types, MarketType, SourceType, Source
<1>3. /\ Upserted(got) = [s \in Symbols |-> Upserted(got)[s]]
      /\ \A s \in Symbols : \A t \in Upserted(got)[s] : t \in ticks[day][s] \/ t.src = Source
  <2>1. \A s, st : Sample(s, st).src = Source
    BY DEF Sample
  <2>2. QED
    BY <2>1 DEF Upserted
<1> HIDE DEF Upserted, Source
<1>4. /\ TickType' /\ \A d \in Days : ticks'[d] = IF d = day THEN Upserted(got) ELSE ticks[d]
  BY <1>1, <1>2, <1>3 DEF IInv, Types, TickType
<1>5. Types'
  BY <1>1, <1>2, <1>4 DEF IInv, Types, MarketType, RowType, SourceType, CovType
<1>6. BoundOK'
  <2>1. ASSUME NEW d \in Days \ torn, NEW s \in Symbols, NEW t \in ticks'[d][s]
        PROVE  \/ bound[d] # None /\ t.src = bound[d]
               \/ bound[d] = None /\ d = day /\ t.src = Source
    <3>1. t \in ticks[d][s] \/ (d = day /\ t.src = Source)
      BY <1>3, <1>4
    <3>2. QED
      BY <1>1, <1>2, <3>1 DEF IInv, BoundOK
  <2>2. QED
    BY <1>1, <1>2, <2>1 DEF BoundOK
<1>7. CovOK'
  <2>1. \A d \in Days : Over(d)' <=> Over(d)
    BY <1>1 DEF Over
  <2>2. \A d \in Days : Over(d) => d # day
    BY <1>1, <1>2 DEF Over, Am, Pm, Ext, Eve, Days
  <2>3. \A d \in Days, s \in Symbols : d # day => Count(d, s)' = Count(d, s)
    BY <1>4 DEF Count
  <2>4. QED
    BY <1>1, <2>1, <2>2, <2>3 DEF IInv, CovOK
<1>8. RowsOK'
  BY <1>1 DEF IInv, RowsOK, Closed
<1>9. QED
  BY <1>1, <1>5, <1>6, <1>7, <1>8, QuietHolds DEF IInv

LEMMA BindKeeps == ASSUME IInv, Bind PROVE IInv'
<1>1. /\ Quiet /\ UNCHANGED <<day, phase, px, close, source, ticks, cov, rows, peeked, torn>>
      /\ unbound # None /\ unbound' = None
      /\ bound' = [bound EXCEPT ![day] = IF bound[day] = None THEN unbound ELSE bound[day]]
  BY DEF Bind, clock, run, cache
<1>2. day \in Days /\ unbound \in Sources /\ bound[day] \in {None, unbound}
  BY <1>1 DEF IInv, Types, MarketType, SourceType, BoundOK
<1>3. /\ bound' \in [Days -> Sources \cup {None}]
      /\ \A d \in Days : bound'[d] = IF d = day THEN unbound ELSE bound[d]
  BY <1>1, <1>2 DEF IInv, Types, SourceType
<1>4. Types'
  BY <1>1, <1>3 DEF IInv, Types, MarketType, RowType, SourceType, TickType, CovType
<1>5. BoundOK'
  BY <1>1, <1>2, <1>3 DEF IInv, BoundOK
<1>6. CovOK' /\ RowsOK'
  BY <1>1 DEF IInv, CovOK, RowsOK, Closed, Over, Count
<1>7. QED
  BY <1>1, <1>4, <1>5, <1>6, QuietHolds DEF IInv

\* A day whose process died between its samples and their binding is torn.
LEMMA RestartKeeps == ASSUME IInv, Restart PROVE IInv'
<1>1. /\ Quiet /\ UNCHANGED <<day, phase, px, close, ticks, bound, cov, rows, peeked>>
      /\ source' \in Sources /\ unbound' = None
      /\ torn' = IF unbound = None THEN torn ELSE torn \cup {day}
  BY DEF Restart, clock, cache
<1>2. Types'
  BY <1>1 DEF IInv, Types, MarketType, RowType, SourceType, TickType, CovType
<1>3. BoundOK'
  BY <1>1 DEF IInv, BoundOK
<1>4. CovOK' /\ RowsOK'
  BY <1>1 DEF IInv, CovOK, RowsOK, Closed, Over, Count
<1>5. QED
  BY <1>1, <1>2, <1>3, <1>4, QuietHolds DEF IInv

-----------------------------------------------------------------------------
(* The data service.                                                       *)

LEMMA RowLemma ==
  ASSUME IInv, NEW d \in Days, NEW s \in Symbols
  PROVE  /\ Row(d, s) \in 0..2
         /\ Closed(d) => Row(d, s) = close[d][s]
         /\ Row(d, s) # 0 => Closed(d) \/ (d = day /\ phase \in {Am, Pm})
BY DEF Row, Closed, IInv, Types, MarketType, Prices, Days, Ext

\* What a fetch puts into the cache, and what it says of the rows.
LEMMA CachedLemma ==
  ASSUME IInv, NEW d \in Days, NEW s \in Symbols, NEW early \in BOOLEAN,
         rows' = Cached(d, s), peeked' = Fetched(d, s, early)
  PROVE  /\ RowType'
         /\ \A e \in Days, r \in Symbols :
               \/ rows'[e][r] = rows[e][r] /\ peeked'[e][r] = peeked[e][r]
               \/ /\ r = s /\ e <= d /\ Row(e, s) # 0
                  /\ rows'[e][s] = Row(e, s) /\ peeked'[e][s] = (early /\ e = day)
<1>1. rows \in [Days -> [Symbols -> 0..2]] /\ peeked \in [Days -> [Symbols -> BOOLEAN]]
  BY DEF IInv, Types, RowType
<1>2. ASSUME NEW e \in Days
      PROVE  /\ rows'[e] = IF e <= d /\ Row(e, s) # 0 THEN [rows[e] EXCEPT ![s] = Row(e, s)] ELSE rows[e]
             /\ peeked'[e] = IF e <= d /\ Row(e, s) # 0 THEN [peeked[e] EXCEPT ![s] = early /\ e = day]
                             ELSE peeked[e]
  BY DEF Cached, PutDaily, Fetched
<1>3. rows' = [e \in Days |-> rows'[e]] /\ peeked' = [e \in Days |-> peeked'[e]]
  BY DEF Cached, Fetched
<1>4. ASSUME NEW e \in Days, NEW r \in Symbols
      PROVE  /\ rows'[e] \in [Symbols -> 0..2] /\ peeked'[e] \in [Symbols -> BOOLEAN]
             /\ \/ rows'[e][r] = rows[e][r] /\ peeked'[e][r] = peeked[e][r]
                \/ /\ r = s /\ e <= d /\ Row(e, s) # 0
                   /\ rows'[e][s] = Row(e, s) /\ peeked'[e][s] = (early /\ e = day)
  <2>1. CASE e <= d /\ Row(e, s) # 0
    <3> DEFINE x == Row(e, s)
               b == early /\ e = day
    <3>1. x \in 0..2 /\ b \in BOOLEAN
      BY RowLemma
    <3>2. rows'[e] = [rows[e] EXCEPT ![s] = x] /\ peeked'[e] = [peeked[e] EXCEPT ![s] = b]
      BY <1>2, <2>1
    <3> HIDE DEF x, b
    <3>3. /\ rows'[e] \in [Symbols -> 0..2] /\ peeked'[e] \in [Symbols -> BOOLEAN]
          /\ r = s => rows'[e][s] = x /\ peeked'[e][s] = b
          /\ r # s => rows'[e][r] = rows[e][r] /\ peeked'[e][r] = peeked[e][r]
      BY <1>1, <3>1, <3>2
    <3>4. QED
      BY <2>1, <3>3, Zenon DEF x, b
  <2>2. CASE ~(e <= d /\ Row(e, s) # 0)
    <3>1. rows'[e] = rows[e] /\ peeked'[e] = peeked[e]
      BY <1>2, <2>2
    <3>2. QED
      BY <1>1, <3>1
  <2>3. QED
    BY <2>1, <2>2
<1>5. RowType'
  <2>1. \A e \in Days : rows'[e] \in [Symbols -> 0..2] /\ peeked'[e] \in [Symbols -> BOOLEAN]
    BY <1>4
  <2>2. QED
    BY <1>3, <2>1 DEF RowType
<1>6. QED
  BY <1>4, <1>5

\* A request after the session, or one that says it is early.
LEMMA RowsKept ==
  ASSUME IInv, NEW d \in Days, NEW s \in Symbols, d <= day, NEW early \in BOOLEAN,
         \/ rows' = Cached(d, s) /\ peeked' = Fetched(d, s, early)
         \/ rows' = rows /\ peeked' = peeked,
         UNCHANGED <<day, phase, close>>,
         Closed(d) \/ early \/ phase \notin {Am, Pm}
  PROVE  RowsOK' /\ RowType'
<1>1. \A e \in Days : Closed(e)' <=> Closed(e)
  BY DEF Closed
<1>2. CASE rows' = rows /\ peeked' = peeked
  BY <1>1, <1>2 DEF IInv, Types, RowType, RowsOK
<1>3. CASE rows' = Cached(d, s) /\ peeked' = Fetched(d, s, early)
  <2>1. ASSUME NEW e \in Days, NEW r \in Symbols, rows'[e][r] # 0
        PROVE  (Closed(e) /\ rows'[e][r] = close[e][r]) \/ peeked'[e][r]
    <3>1. CASE rows'[e][r] = rows[e][r] /\ peeked'[e][r] = peeked[e][r]
      BY <2>1, <3>1 DEF IInv, RowsOK
    <3>2. CASE /\ r = s /\ e <= d /\ Row(e, s) # 0
               /\ rows'[e][s] = Row(e, s) /\ peeked'[e][s] = (early /\ e = day)
      <4>1. CASE Closed(e)
        BY <3>2, <4>1, RowLemma
      <4>2. CASE ~Closed(e)
        <5>1. e = day /\ phase \in {Am, Pm}
          BY <3>2, <4>2, RowLemma
        <5>2. e = d
          BY <3>2, <5>1 DEF IInv, Types, MarketType, Days
        <5>3. early
          BY <4>2, <5>1, <5>2
        <5>4. QED
          BY <3>2, <5>1, <5>3
      <4>3. QED
        BY <4>1, <4>2
    <3>3. QED
      BY <1>3, <3>1, <3>2, CachedLemma
  <2>2. QED
    BY <1>1, <1>3, <2>1, CachedLemma DEF RowsOK
<1>4. QED
  BY <1>2, <1>3

\* A request marks coverage rows only.
LEMMA CovKept ==
  ASSUME IInv, NEW d \in Days, NEW s \in Symbols, NEW net, NEW n, NEW early,
         Serve(d, s, net, n, early), UNCHANGED <<day, phase, ticks>>
  PROVE  CovType' /\ CovOK'
<1>1. \A e \in Days, r \in Symbols : Count(e, r)' = Count(e, r) /\ (Over(e)' <=> Over(e))
  BY DEF Count, Over
<1>2. CASE cov' = cov
  BY <1>1, <1>2 DEF IInv, Types, CovType, CovOK
<1>3. CASE cov' = [cov EXCEPT ![d][s].quality = "degraded"] /\ Ready(d, s)
  <2>1. cov[d][s].quality # "none"
    BY <1>3 DEF Ready
  <2>2. CovType' /\ \A e \in Days, r \in Symbols :
           /\ cov'[e][r].actual = cov[e][r].actual /\ cov'[e][r].expected = cov[e][r].expected
           /\ cov'[e][r].quality = cov[e][r].quality \/ (e = d /\ r = s)
    <3> DEFINE new == [actual |-> cov[d][s].actual, expected |-> cov[d][s].expected,
                       quality |-> "degraded"]
    <3>1. new = [cov[d][s] EXCEPT !.quality = "degraded"]
      <4>1. \A a, x, q : [[actual |-> a, expected |-> x, quality |-> q] EXCEPT !.quality = "degraded"]
                       = [actual |-> a, expected |-> x, quality |-> "degraded"]
        OBVIOUS
      <4>2. cov[d][s] = [actual |-> cov[d][s].actual, expected |-> cov[d][s].expected,
                         quality |-> cov[d][s].quality]
        BY DEF IInv, Types, CovType
      <4>3. QED
        BY <4>1, <4>2, Zenon
    <3>2. cov' = [cov EXCEPT ![d] = [cov[d] EXCEPT ![s] = new]]
      BY <1>3, <3>1
    <3>3. new.actual = cov[d][s].actual /\ new.expected = cov[d][s].expected
          /\ new = [actual |-> new.actual, expected |-> new.expected, quality |-> new.quality]
      OBVIOUS
    <3> HIDE DEF new
    <3>4. /\ cov' = [e \in Days |-> cov'[e]]
          /\ \A e \in Days : cov'[e] = IF e = d THEN [cov[d] EXCEPT ![s] = new] ELSE cov[e]
      BY <3>2 DEF IInv, Types, CovType
    <3>5. \A e \in Days : /\ cov'[e] = [r \in Symbols |-> cov'[e][r]]
                          /\ \A r \in Symbols : cov'[e][r] = IF e = d /\ r = s THEN new ELSE cov[e][r]
      BY <3>4 DEF IInv, Types, CovType
    <3>6. CovType'
      BY <3>3, <3>4, <3>5 DEF IInv, Types, CovType
    <3>7. QED
      BY <3>3, <3>5, <3>6
  <2>3. QED
    BY <1>1, <2>1, <2>2 DEF IInv, CovOK
<1>4. Input(d, s, net, n).level = "l0" => Ready(d, s)
  BY DEF Input, Level
<1>5. QED
  BY <1>2, <1>3, <1>4 DEF Serve, Marked

LEMMA ServeRows ==
  ASSUME NEW d, NEW s, NEW net, NEW n, NEW early, Serve(d, s, net, n, early)
  PROVE  \/ rows' = Cached(d, s) /\ peeked' = Fetched(d, s, early)
         \/ rows' = rows /\ peeked' = peeked
BY DEF Serve

LEMMA PeekKeeps ==
  ASSUME IInv, NEW d \in Days, NEW s \in Symbols, NEW net, NEW n,
         Peek(d, s, net, n) \/ PullMinute(d, s, net, n)
  PROVE  IInv'
<1>1. Quiet /\ UNCHANGED <<day, phase, px, close, source, unbound, ticks, bound, torn>> /\ d <= day
  BY DEF Peek, PullMinute, clock, samples, run
<1>2. BoundOK' /\ MarketType' /\ SourceType' /\ TickType'
  BY <1>1 DEF IInv, BoundOK, Types, MarketType, SourceType, TickType
<1>3. CASE Peek(d, s, net, n)
  <2> DEFINE early == phase \in {Am, Pm}
  <2>1. Serve(d, s, net, n, early)
    BY <1>3 DEF Peek
  <2>2. /\ early \in BOOLEAN /\ (early \/ phase \notin {Am, Pm})
        /\ \/ rows' = Cached(d, s) /\ peeked' = Fetched(d, s, early)
           \/ rows' = rows /\ peeked' = peeked
    BY <2>1, ServeRows
  <2> HIDE DEF early
  <2>4. RowsOK' /\ RowType'
    BY <1>1, <2>2, RowsKept
  <2>5. CovType' /\ CovOK'
    BY <1>1, <2>1, CovKept
  <2>6. QED
    BY <1>1, <1>2, <2>4, <2>5, QuietHolds DEF IInv, Types
<1>4. CASE PullMinute(d, s, net, n)
  <2>1. UNCHANGED <<cov, rows, peeked>>
    BY <1>4 DEF PullMinute
  <2>2. CovType' /\ CovOK' /\ RowsOK' /\ RowType'
    BY <1>1, <2>1, ZenonT(40) DEF IInv, Types, CovType, RowType, CovOK, RowsOK, Closed, Over, Count
  <2>3. QED
    BY <1>1, <1>2, <2>2, QuietHolds DEF IInv, Types
<1>5. QED
  BY <1>3, <1>4

\* A security that is only held: its close is that of the row.
LEMMA ValueKeeps ==
  ASSUME IInv, NEW d \in Days, NEW s \in Symbols, NEW net, Value(d, s, net)
  PROVE  IInv'
<1>1. /\ UNCHANGED <<day, phase, px, close, source, unbound, ticks, bound, torn, cov>>
      /\ Settles(d) /\ DailyPair(d, s, net)
  BY DEF Value, clock, samples, run
<1>2. d <= day /\ Closed(d)
  BY <1>1 DEF Settles, Closed, IInv, Types, MarketType, Days, Ext, Eve
<1>3. BoundOK' /\ MarketType' /\ SourceType' /\ TickType' /\ CovType' /\ CovOK'
  <2>1. BoundOK' /\ MarketType' /\ SourceType' /\ TickType'
    BY <1>1 DEF IInv, BoundOK, Types, MarketType, SourceType, TickType
  <2>2. CovType' /\ CovOK'
    BY <1>1, ZenonT(40) DEF IInv, Types, CovType, CovOK, Over, Count
  <2>3. QED
    BY <2>1, <2>2
<1>4. RowsOK' /\ RowType'
  <2>1. \/ rows' = Cached(d, s) /\ peeked' = Fetched(d, s, FALSE)
        \/ rows' = rows /\ peeked' = peeked
    BY <1>1 DEF DailyPair
  <2>2. QED
    BY <1>1, <1>2, <2>1, RowsKept
<1>5. CloseOf(d, s, net) = close[d][s] \/ CloseOf(d, s, net) = 0 \/ peeked'[d][s]
  <2>1. rows[d][s] # 0 => peeked' = peeked
    BY <1>1 DEF DailyPair
  <2>2. QED
    BY <1>2, <2>1, RowLemma DEF CloseOf, IInv, RowsOK
<1>6. taken'.level = "pair" /\ taken'.day = d /\ taken'.sym = s /\ taken'.close = CloseOf(d, s, net)
      /\ CloseOf(d, s, net) # 0
  BY <1>1 DEF DailyPair, NothingTaken
<1>7. GapsAreMarked' /\ OfficialUnlessPeeked'
  BY <1>1, <1>5, <1>6 DEF GapsAreMarked, OfficialUnlessPeeked
<1>8. QED
  BY <1>3, <1>4, <1>7 DEF IInv, Types

\* The input of a settlement, level by level.
LEMMA InputLemma ==
  ASSUME IInv, NEW d \in Days, NEW s \in Symbols, NEW net, NEW n, Closed(d),
         Input(d, s, net, n).close # 0
  PROVE  LET i == Input(d, s, net, n) IN
         /\ i.level = "l0" => Covered(Count(d, s)) /\ (Deviates(d, s, i.close) => i.mark)
         /\ i.level = "l1" => /\ i.minutes.last = i.close /\ i.minutes.n # "few"
                              /\ i.minutes.n = "most" => i.mark
         /\ i.close = close[d][s] \/ (peeked[d][s] /\ i.level # "l2" /\ rows[d][s] # 0)
<1> DEFINE i == Input(d, s, net, n)
           m == Minutes(d, s, net, n)
           lv == Level(d, s, net, n)
           c == CloseOf(d, s, net)
<1>1. /\ i.level = lv
      /\ i.close = IF lv = "l2" THEN IF net = "down" THEN 0 ELSE Row(d, s)
                   ELSE IF lv = "l1" /\ mins[d][s] = NoMinutes THEN Row(d, s) ELSE c
      /\ i.minutes = IF lv = "l1" THEN m ELSE NoMinutes
      /\ i.mark <=> \/ lv = "l0" /\ (Deviates(d, s, i.close) \/ cov[d][s].quality = "degraded")
                    \/ lv = "l1" /\ m.n = "most"
  BY DEF Input
<1>2. Row(d, s) = close[d][s]
  BY RowLemma
<1>3. c \in {0, close[d][s]} \/ (peeked[d][s] /\ rows[d][s] # 0)
  BY <1>2 DEF CloseOf, IInv, RowsOK
<1>4. i.close = close[d][s] \/ (peeked[d][s] /\ i.level # "l2" /\ rows[d][s] # 0)
  BY <1>1, <1>2, <1>3
<1>5. ASSUME i.level = "l0"
      PROVE  Covered(Count(d, s)) /\ (Deviates(d, s, i.close) => i.mark)
  <2>1. cov[d][s].quality # "none" /\ Covered(cov[d][s])
    BY <1>1, <1>5 DEF Level, Ready
  <2>2. Covered(Count(d, s))
    BY <2>1 DEF Covered, IInv, CovOK
  <2>3. QED
    BY <1>1, <1>5, <2>2
<1>6. ASSUME i.level = "l1"
      PROVE  i.minutes.last = i.close /\ i.minutes.n # "few" /\ (i.minutes.n = "most" => i.mark)
  <2>1. /\ m.n \notin {"none", "few"} /\ i.minutes = m
        /\ c \in {0, m.last} \/ mins[d][s] = NoMinutes
    BY <1>1, <1>6 DEF Level
  <2>2. CASE mins[d][s] = NoMinutes
    <3>1. m = IF net = "up" THEN Replayed(d, s, n) ELSE NoMinutes
      BY <2>2 DEF Minutes
    <3>2. NoMinutes.n = "none"
      BY DEF NoMinutes
    <3>3. m.last = Row(d, s)
      BY <2>1, <3>1, <3>2 DEF Replayed
    <3>4. QED
      BY <1>1, <1>6, <2>1, <2>2, <3>3
  <2>3. CASE mins[d][s] # NoMinutes
    BY <1>1, <1>6, <2>1, <2>3
  <2>4. QED
    BY <2>2, <2>3
<1>7. QED
  BY <1>4, <1>5, <1>6

LEMMA TakeKeeps ==
  ASSUME IInv, NEW d \in Days, NEW s \in Symbols, NEW net, NEW n, Take(d, s, net, n)
  PROVE  IInv'
<1>1. /\ UNCHANGED <<day, phase, px, close, source, unbound, ticks, bound, torn>>
      /\ Settles(d) /\ Serve(d, s, net, n, FALSE) /\ taken' = SettleInput(d, s, net, n)
  BY DEF Take, clock, samples, run
<1>2. d <= day /\ Closed(d)
  BY <1>1 DEF Settles, Closed, IInv, Types, MarketType, Days, Ext, Eve
<1>3. BoundOK' /\ MarketType' /\ SourceType' /\ TickType' /\ CovType' /\ CovOK'
  <2>1. BoundOK' /\ MarketType' /\ SourceType' /\ TickType'
    BY <1>1 DEF IInv, BoundOK, Types, MarketType, SourceType, TickType
  <2>2. QED
    BY <1>1, <2>1, CovKept
<1>4. RowsOK' /\ RowType'
  <2>1. \/ rows' = Cached(d, s) /\ peeked' = Fetched(d, s, FALSE)
        \/ rows' = rows /\ peeked' = peeked
    BY <1>1, ServeRows
  <2>2. QED
    BY <1>1, <1>2, <2>1, RowsKept
<1>5. GapsAreMarked' /\ OfficialUnlessPeeked'
  <2> DEFINE i == Input(d, s, net, n)
  <2>1. CASE i.close = 0
    BY <1>1, <2>1 DEF SettleInput, NothingTaken, GapsAreMarked, OfficialUnlessPeeked
  <2>2. CASE i.close # 0
    <3>1. taken' = i /\ i.day = d /\ i.sym = s
      BY <1>1, <2>2 DEF SettleInput, Input
    <3>2. \A x : Covered(Count(d, s))' = Covered(Count(d, s)) /\ Deviates(d, s, x)' = Deviates(d, s, x)
      BY <1>1 DEF Count, Covered, Deviates
    <3>3. /\ i.level = "l0" => Covered(Count(d, s)) /\ (Deviates(d, s, i.close) => i.mark)
          /\ i.level = "l1" => /\ i.minutes.last = i.close /\ i.minutes.n # "few"
                               /\ i.minutes.n = "most" => i.mark
          /\ i.close = close[d][s] \/ (peeked[d][s] /\ i.level # "l2" /\ rows[d][s] # 0)
      BY <1>2, <2>2, InputLemma
    <3>5. i.level # "l2" /\ rows[d][s] # 0 => peeked' = peeked
      BY <1>1 DEF Serve
    <3> HIDE DEF i
    <3>4. QED
      BY <1>1, <3>1, <3>2, <3>3, <3>5 DEF GapsAreMarked, OfficialUnlessPeeked, Count, Covered, Deviates
  <2>3. QED
    BY <2>1, <2>2
<1>6. QED
  BY <1>3, <1>4, <1>5 DEF IInv, Types

-----------------------------------------------------------------------------
LEMMA StepIInv == IInv /\ [Next]_vars => IInv'
<1> SUFFICES ASSUME IInv, [Next]_vars PROVE IInv'
  OBVIOUS
<1>1. CASE Move \/ NewDay
  BY <1>1, MoveKeeps
<1>2. CASE Cycle
  BY <1>2, IdleKeeps, CollectKeeps DEF Cycle
<1>3. CASE Bind \/ Restart
  BY <1>3, BindKeeps, RestartKeeps
<1>4. CASE Request
  <2>1. 1..LastAsked \subseteq Days
    BY FeedAssumption DEF Days
  <2>2. PICK d \in Days, s \in Symbols, net \in {"up", "rows", "down"}, n \in Counts :
           \/ Take(d, s, net, n) \/ Value(d, s, net)
           \/ Peek(d, s, net, n) \/ PullMinute(d, s, net, n)
    BY <1>4, <2>1 DEF Request
  <2>3. QED
    BY <2>2, TakeKeeps, ValueKeeps, PeekKeeps
<1>5. CASE UNCHANGED vars
  <2>1. UNCHANGED <<day, phase, px, close, source, unbound, ticks, bound, torn, cov, rows, peeked, taken>>
    BY <1>5 DEF vars, clock, list, samples, run, cache
  <2>2. Types' /\ BoundOK'
    BY <2>1 DEF IInv, Types, MarketType, RowType, SourceType, TickType, CovType, BoundOK
  <2>3. CovOK' /\ RowsOK'
    BY <2>1 DEF IInv, CovOK, RowsOK, Closed, Over, Count
  <2>4. GapsAreMarked' /\ OfficialUnlessPeeked'
    BY <2>1 DEF IInv, GapsAreMarked, OfficialUnlessPeeked, Covered, Count, Deviates
  <2>5. QED
    BY <2>2, <2>3, <2>4 DEF IInv
<1>6. QED
  BY <1>1, <1>2, <1>3, <1>4, <1>5 DEF Next

LEMMA Inductive == Spec => []IInv
BY InitIInv, StepIInv, PTL DEF Spec

\* All the samples of a day are of one source, whatever fails and restarts, but on a
\* day on which the process died before its samples were bound (source_binding,
\* collector.py:8-9).
THEOREM OneSource == Spec => []OneSourceADay
<1>1. IInv => OneSourceADay
  BY DEF IInv, BoundOK, OneSourceADay
<1>2. QED
  BY Inductive, <1>1, PTL

\* A settlement takes whole samples or whole minutes that end on the close it uses, or
\* is marked (get_replay_series, _mark_close_deviation).
THEOREM InputIsHonest == Spec => []GapsAreMarked
<1>1. IInv => GapsAreMarked
  BY DEF IInv
<1>2. QED
  BY Inductive, <1>1, PTL

\* A settlement uses the official close of its day, unless it found the row a page cached
\* while the session was open, not replaced since (_fetch_day_rows, official_close).
THEOREM CloseIsTheDays == Spec => []OfficialUnlessPeeked
<1>1. IInv => OfficialUnlessPeeked
  BY DEF IInv
<1>2. QED
  BY Inductive, <1>1, PTL

-----------------------------------------------------------------------------
(***************************************************************************)
(* OrderReplay                                                             *)
(*                                                                         *)
(* Every loop comes down to one question per sample: is it an attempt of   *)
(* the closed form, and at the closed form's price?  If so the sample is   *)
(* tried, and if not it is passed over (AfterSample).  The local variables *)
(* are what answers the question: the trailing high is that of the samples *)
(* so far, the board was seen sealed at one of them, and the minute before *)
(* lets this minute be tried whenever it is touched.                       *)
(***************************************************************************)

Tries == Attempts(order, feed, case.day, case.cost, case.lim)
Amt(i) == AttemptAmount(order, feed, case.day, case.cost, i)
Past(n) == {i \in Tries : i < n}
OpenSamples == {i \in DOMAIN feed.bars : Eligible(order, case.day, i)}

\* ReplayMatchesRules of a fill f, n insufficient events and an amount a.
FillsAs(f, n, a) ==
    LET paid == {i \in Tries : Affordable(Amt(i))}
    IN  IF paid = {} THEN f = 0 /\ n = Cardinality(Tries)
        ELSE /\ f = Min(paid)
             /\ a = Amt(f)
             /\ n = Cardinality({i \in Tries : i < f})

\* Before sample n, of which none of the attempts so far could be paid for.
Unfilled(n) == /\ fill = 0 /\ ins = Cardinality(Past(n))
               /\ \A i \in Past(n) : ~Affordable(Amt(i))

\* The highest price of the samples up to n, RefHigh without the CHOOSE.
Heights(n) == {0} \cup {feed.bars[j].hi : j \in {k \in DOMAIN feed.bars :
                   k <= n /\ (feed.kind = "l0" => Eligible(order, case.day, k))}}
IsMax(h, S) == h \in S /\ \A x \in S : h >= x

HighKnown == order.trig.mode = "trail" => IsMax(refHigh, Heights(at - 1))
BoardKnown == order.trig.mode = "board" =>
    (pinned <=> /\ HasLimit(case.lim)
                /\ \E j \in OpenSamples : j < at /\ feed.bars[j].px = case.lim.up)
TimeKnown == order.trig.mode = "time" =>
    \A j \in OpenSamples : j < at => feed.kind # "l2" /\ ~(j >= order.trig.val)
\* A touched minute that counted was tried, and failed.
MinuteKnown == /\ seenAfter => Eligible(order, case.day, at)
               /\ seenAfter /\ touchedPrev => prevFailed

ReplayInv ==
    /\ case \in Cases /\ ~Undefined(order, feed) /\ at \in 1..(NSamples + 1)
    /\ {pinned, touchedPrev, prevFailed, seenAfter, over} \subseteq BOOLEAN
    /\ feed.kind = "l2" /\ ~over => at = 1
    /\ ~over => Unfilled(at) /\ HighKnown /\ BoardKnown /\ TimeKnown /\ MinuteKnown
    /\ over => FillsAs(fill, ins, amount)

LEMMA CaseIsFit == case \in Cases => CaseFits(case)
  BY CasesAssumption

LEMMA MaxIs ==
  ASSUME NEW S, S \subseteq Nat, NEW h, IsMax(h, S)
  PROVE  Max(S) = h
<1>1. h \in S /\ \A x \in S : h >= x
  BY DEF IsMax
<1> DEFINE m == Max(S)
<1>2. m \in S /\ \A x \in S : m >= x
  BY <1>1 DEF Max
<1> HIDE DEF m
<1>3. m \in Nat /\ h \in Nat /\ m >= h /\ h >= m
  BY <1>1, <1>2
<1>4. m = h
  BY <1>3
<1> QED BY <1>4 DEF m

LEMMA MinIs ==
  ASSUME NEW S, S \subseteq Nat, NEW h \in S, \A x \in S : h <= x
  PROVE  Min(S) = h
<1> DEFINE m == Min(S)
<1>1. m \in S /\ \A x \in S : m <= x
  BY DEF Min
<1> HIDE DEF m
<1>2. m \in Nat /\ h \in Nat /\ m <= h /\ h <= m
  BY <1>1
<1>3. m = h
  BY <1>2
<1> QED BY <1>3 DEF m

\* The samples of a feed, and the attempts among them.
LEMMA SamplesAre ==
  ASSUME case \in Cases
  PROVE  /\ DOMAIN feed.bars \subseteq 1..NSamples /\ Tries \subseteq DOMAIN feed.bars
         /\ Tries \subseteq OpenSamples
         /\ IsFiniteSet(Tries) /\ \A i \in Tries : i \in Nat \ {0}
         /\ \A i \in DOMAIN feed.bars : feed.bars[i] \in Bars
         /\ feed.kind \in {"l0", "l1"} => DOMAIN feed.bars = 1..NSamples
         /\ feed.kind = "l2" => DOMAIN feed.bars = {NSamples}
<1>1. CaseFits(case) /\ NSamples \in Nat \ {0}
  BY CaseIsFit, NSamplesAssumption
<1>2. /\ feed.kind \in {"l0", "l1"} => feed.bars \in [1..NSamples -> Bars]
      /\ feed.kind = "l2" => feed.bars \in [{NSamples} -> Bars]
      /\ feed.kind \in {"l0", "l1", "l2"}
  BY <1>1 DEF CaseFits, feed
<1>3. /\ feed.kind \in {"l0", "l1"} => DOMAIN feed.bars = 1..NSamples
      /\ feed.kind = "l2" => DOMAIN feed.bars = {NSamples}
      /\ \A i \in DOMAIN feed.bars : feed.bars[i] \in Bars
  BY <1>2
<1>4. DOMAIN feed.bars \subseteq 1..NSamples
  BY <1>1, <1>2, <1>3
<1>5. Tries \subseteq OpenSamples
  BY DEF Tries, Attempts, OpenSamples
<1>6. OpenSamples \subseteq DOMAIN feed.bars
  BY DEF OpenSamples
<1>7. IsFiniteSet(1..NSamples)
  BY <1>1, FS_Interval
<1>8. IsFiniteSet(Tries)
  BY <1>4, <1>5, <1>6, <1>7, FS_Subset
<1>9. \A i \in 1..NSamples : i \in Nat \ {0}
  BY <1>1
<1> QED BY <1>3, <1>4, <1>5, <1>6, <1>8, <1>9

-----------------------------------------------------------------------------
(* A sample is tried or passed over.                                       *)

\* The first attempt that can be paid for is the fill.
LEMMA FilledAt ==
  ASSUME case \in Cases, NEW n \in Tries, Affordable(Amt(n)),
         \A i \in Past(n) : ~Affordable(Amt(i))
  PROVE  FillsAs(n, Cardinality(Past(n)), Amt(n))
<1> DEFINE paid == {i \in Tries : Affordable(Amt(i))}
<1>1. Tries \subseteq Nat
  BY SamplesAre
<1>2. n \in paid /\ paid \subseteq Nat
  BY <1>1
<1>3. ASSUME NEW i \in paid PROVE n <= i
  <2>1. i \in Tries /\ ~(i \in Past(n)) /\ i \in Nat /\ n \in Nat
    BY <1>1, <1>3
  <2> QED BY <2>1 DEF Past
<1>4. Min(paid) = n
  <2> HIDE DEF paid
  <2> QED BY <1>2, <1>3, MinIs
<1> QED BY <1>2, <1>4 DEF FillsAs, Past

LEMMA NeverFilled ==
  ASSUME \A i \in Tries : ~Affordable(Amt(i)), NEW a
  PROVE  FillsAs(0, Cardinality(Tries), a)
BY DEF FillsAs

\* What a step makes of sample at: over with the fill the rules say, or not yet filled.
AfterSample == \/ over' /\ FillsAs(fill', ins', amount')
               \/ over' = FALSE /\ Unfilled(at)'

LEMMA PastNext ==
  ASSUME case \in Cases, at \in Nat
  PROVE  /\ at \notin Tries => Past(at + 1) = Past(at)
         /\ at \in Tries => Past(at + 1) = Past(at) \cup {at}
         /\ IsFiniteSet(Past(at)) /\ at \notin Past(at)
<1>1. Tries \subseteq Nat /\ IsFiniteSet(Tries)
  BY SamplesAre
<1>2. IsFiniteSet(Past(at)) /\ at \notin Past(at)
  BY <1>1, FS_Subset DEF Past
<1>3. ASSUME NEW i \in Tries PROVE i < at + 1 <=> (i < at \/ i = at)
  <2>1. i \in Nat
    BY <1>1
  <2> QED BY <2>1
<1> QED BY <1>2, <1>3 DEF Past

\* The closed form speaks of the case alone.
LEMMA SameCase ==
  ASSUME case' = case
  PROVE  /\ Tries' = Tries /\ order' = order /\ feed' = feed
         /\ \A i : Amt(i)' = Amt(i)
         /\ \A x : Affordable(x)' = Affordable(x)
         /\ \A f, n, a : FillsAs(f, n, a)' = FillsAs(f, n, a)
         /\ Unfilled(at)' <=> /\ fill' = 0 /\ ins' = Cardinality(Past(at'))
                              /\ \A i \in Past(at') : ~Affordable(Amt(i))
<1>1. order' = order /\ feed' = feed
  BY DEF order, feed
<1>2. Tries' = Tries
  BY <1>1 DEF Tries
<1>3. \A i : Amt(i)' = Amt(i)
  BY <1>1 DEF Amt
<1>4. \A x : Affordable(x)' = Affordable(x)
  BY <1>1 DEF Affordable
<1>5. \A f, n, a : FillsAs(f, n, a)' = FillsAs(f, n, a)
  BY <1>2, <1>3, <1>4 DEF FillsAs
<1>6. Unfilled(at)' <=> /\ fill' = 0 /\ ins' = Cardinality(Past(at'))
                        /\ \A i \in Past(at') : ~Affordable(Amt(i))
  BY <1>2, <1>3, <1>4 DEF Unfilled, Past
<1> QED BY <1>1, <1>2, <1>3, <1>4, <1>5, <1>6

Here == case \in Cases /\ at \in Nat /\ over = FALSE /\ Unfilled(at)

\* A sample that is no attempt is passed over.
LEMMA PassedOver ==
  ASSUME Here, at \notin Tries, Advance, Pass
  PROVE  AfterSample
<1>1. at' = at + 1 /\ case' = case /\ UNCHANGED <<ins, fill, amount, over>>
  BY DEF Advance, Pass
<1>2. Past(at') = Past(at)
  BY <1>1, PastNext DEF Here
<1> QED BY <1>1, <1>2, SameCase DEF Here, Unfilled, AfterSample

\* An attempt at the price of the rules fills, or counts an insufficient event.
LEMMA Tried ==
  ASSUME Here, at \in Tries, Advance, NEW price,
         RoundDiv(price.n * order.qty, price.d) = Amt(at), Try(price)
  PROVE  AfterSample
<1>1. at' = at + 1 /\ case' = case
  BY DEF Advance
<1>2. CASE Affordable(Amt(at))
  <2>1. fill' = at /\ amount' = Amt(at) /\ over' = TRUE /\ ins' = ins
    BY <1>2 DEF Try
  <2>2. FillsAs(at, Cardinality(Past(at)), Amt(at))
    BY <1>2, FilledAt DEF Here, Unfilled
  <2> QED BY <2>1, <2>2 DEF AfterSample, Here, Unfilled
<1>3. CASE ~Affordable(Amt(at))
  <2>1. ins' = ins + 1 /\ UNCHANGED <<fill, amount, over>>
    BY <1>3 DEF Try
  <2>2. Past(at') = Past(at) \cup {at} /\ IsFiniteSet(Past(at)) /\ at \notin Past(at)
    BY <1>1, PastNext DEF Here
  <2>3. Cardinality(Past(at')) = Cardinality(Past(at)) + 1
    BY <2>2, FS_AddElement
  <2> QED BY <1>1, <1>3, <2>1, <2>2, <2>3, SameCase DEF Here, Unfilled, AfterSample
<1> QED BY <1>2, <1>3

\* A time order is tried once.
LEMMA TriedOnce ==
  ASSUME Here, Tries = {at}, case' = case, NEW price,
         RoundDiv(price.n * order.qty, price.d) = Amt(at), TryOnce(price)
  PROVE  AfterSample
<1>1. Past(at) = {} /\ ins = 0 /\ fill = 0
  <2>1. Past(at) = {}
    BY DEF Past, Here
  <2> QED BY <2>1, FS_EmptySet DEF Here, Unfilled
<1>2. CASE Affordable(Amt(at))
  <2>1. fill' = at /\ amount' = Amt(at) /\ over' = TRUE /\ ins' = ins
    BY <1>2 DEF TryOnce
  <2>2. FillsAs(at, Cardinality(Past(at)), Amt(at))
    BY <1>1, <1>2, FilledAt DEF Here
  <2> QED BY <2>1, <2>2 DEF AfterSample, Here, Unfilled
<1>3. CASE ~Affordable(Amt(at))
  <2>1. ins' = ins + 1 /\ UNCHANGED <<fill, amount>> /\ over' = TRUE
    BY <1>3 DEF TryOnce
  <2>2. Cardinality(Tries) = 1
    BY FS_Singleton
  <2>3. FillsAs(0, Cardinality(Tries), amount)
    BY <1>3, NeverFilled
  <2> QED BY <1>1, <2>1, <2>2, <2>3 DEF AfterSample
<1> QED BY <1>2, <1>3

-----------------------------------------------------------------------------
(* The level of a sample and the attempts of a price order.                *)

Mode == order.trig.mode
HighAt(h, i) == Mode = "trail" => h = RefHigh(order, feed, case.day, i)
ThresholdAt(i) == Threshold(order, feed, case.day, case.cost, i)

LEMMA ModesAre ==
  ASSUME case \in Cases
  PROVE  Mode \in {"market", "px", "pct", "cost", "trail", "time", "board"}
BY CaseIsFit DEF CaseFits, Mode, order, TriggerType

LEMMA LevelIsThreshold ==
  ASSUME Mode \in {"px", "pct", "cost", "trail"}, NEW h, NEW i, HighAt(h, i)
  PROVE  LevelNow(h) = ThresholdAt(i)
<1>1. CASE Mode = "px"
  BY <1>1 DEF Mode, LevelNow, FixedLevel, ThresholdAt, Threshold
<1>2. CASE Mode = "pct"
  BY <1>2 DEF Mode, LevelNow, FixedLevel, ThresholdAt, Threshold
<1>3. CASE Mode = "cost"
  BY <1>3 DEF Mode, LevelNow, CostLevel, ThresholdAt, Threshold
<1>4. CASE Mode = "trail"
  BY <1>4 DEF Mode, HighAt, LevelNow, TrailLevel, ThresholdAt, Threshold
<1> QED BY <1>1, <1>2, <1>3, <1>4

LEMMA ReachedIsTouched ==
  ASSUME Mode \in {"market", "px", "pct", "cost", "trail"}, NEW h, HighAt(h, at)
  PROVE  ReachedOp(h) <=> Touched(order, feed, case.day, case.cost, at)
<1>1. CASE Mode = "market"
  BY <1>1 DEF Mode, ReachedOp, Touched
<1>2. CASE Mode \in {"px", "pct"}
  <2>1. LevelNow(h) = ThresholdAt(at) /\ LevelNow(h) = FixedLevel
    BY <1>2, LevelIsThreshold DEF LevelNow, Mode
  <2> QED BY <1>2, <2>1 DEF Mode, ReachedOp, Touched, ThresholdAt, bar
<1>3. CASE Mode = "cost"
  <2>1. LevelNow(h) = ThresholdAt(at) /\ LevelNow(h) = CostLevel
    BY <1>3, LevelIsThreshold DEF LevelNow, Mode
  <2> QED BY <1>3, <2>1 DEF Mode, ReachedOp, Touched, ThresholdAt, bar, HasCost
<1>4. CASE Mode = "trail"
  <2>1. LevelNow(h) = ThresholdAt(at) /\ LevelNow(h) = TrailLevel(h)
    BY <1>4, LevelIsThreshold DEF LevelNow, Mode
  <2>2. h = RefHigh(order, feed, case.day, at)
    BY <1>4 DEF HighAt
  <2> QED BY <1>4, <2>1, <2>2 DEF Mode, ReachedOp, Touched, ThresholdAt, bar
<1> QED BY <1>1, <1>2, <1>3, <1>4

LEMMA PriceTries ==
  ASSUME Mode \notin {"time", "board"}, NEW i \in DOMAIN feed.bars
  PROVE  i \in Tries <=> /\ Eligible(order, case.day, i)
                         /\ Touched(order, feed, case.day, case.cost, i)
                         /\ ~Sealed(order, feed.bars[i], case.lim)
                         /\ ~TriggerMuted(order, feed.bars[i], case.lim)
BY DEF Mode, Tries, Attempts

LEMMA TimeTries ==
  ASSUME case \in Cases, Mode = "time", TimeKnown, at \in OpenSamples,
         feed.kind = "l2" \/ at >= order.trig.val
  PROVE  Tries = {at}
<1> DEFINE due == {j \in OpenSamples : feed.kind = "l2" \/ j >= order.trig.val}
<1>1. Tries = {j \in due : \A k \in due : j <= k}
  BY DEF Mode, Tries, Attempts, OpenSamples
<1>2. at \in due /\ due \subseteq Nat
  BY SamplesAre DEF OpenSamples
<1>3. \A k \in due : at <= k
  BY <1>2 DEF TimeKnown, Mode
<1> HIDE DEF due
<1>4. \A j \in due : j <= at => j = at
  BY <1>2, <1>3
<1> QED BY <1>1, <1>2, <1>3, <1>4

LEMMA TimeNotYet ==
  ASSUME case \in Cases, Mode = "time", feed.kind # "l2", NEW i \in DOMAIN feed.bars,
         i < order.trig.val
  PROVE  i \notin Tries
<1>1. i \in Nat /\ order.trig.val \in Int
  BY SamplesAre, CaseIsFit DEF CaseFits, TriggerType, order
<1>2. Tries \subseteq {j \in OpenSamples : feed.kind = "l2" \/ j >= order.trig.val}
  BY DEF Mode, Tries, Attempts, OpenSamples
<1> QED BY <1>1, <1>2

-----------------------------------------------------------------------------
(* The highest price so far.                                               *)

LEMMA HeightsAre ==
  ASSUME case \in Cases, NEW n \in Nat
  PROVE  /\ Heights(n) \subseteq Nat /\ 0 \in Heights(n)
         /\ RefHigh(order, feed, case.day, n) = Max(Heights(n))
BY SamplesAre DEF Heights, RefHigh, Bars

\* The next sample that counts raises the high, one that does not leaves it.
LEMMA HighGrows ==
  ASSUME case \in Cases, at \in DOMAIN feed.bars, IsMax(refHigh, Heights(at - 1)),
         feed.kind = "l0" => Eligible(order, case.day, at)
  PROVE  IsMax(Greater(refHigh, feed.bars[at].hi), Heights(at))
<1> DEFINE x == feed.bars[at].hi
<1>1. at \in Nat \ {0} /\ x \in Nat /\ DOMAIN feed.bars \subseteq Nat
  BY SamplesAre DEF Bars
<1>2. \A k \in DOMAIN feed.bars : k <= at <=> (k <= at - 1 \/ k = at)
  BY <1>1
<1>3. Heights(at) = Heights(at - 1) \cup {x}
  BY <1>2 DEF Heights
<1>4. Heights(at - 1) \subseteq Nat
  BY <1>1, HeightsAre
<1> HIDE DEF x
<1>5. IsMax(Greater(refHigh, x), Heights(at - 1) \cup {x})
  BY <1>1, <1>4 DEF IsMax, Greater
<1> QED BY <1>3, <1>5 DEF x

LEMMA HighStays ==
  ASSUME case \in Cases, at \in DOMAIN feed.bars, IsMax(refHigh, Heights(at - 1)),
         feed.kind = "l0", ~Eligible(order, case.day, at)
  PROVE  IsMax(refHigh, Heights(at))
<1>1. at \in Nat \ {0} /\ DOMAIN feed.bars \subseteq Nat
  BY SamplesAre
<1>2. \A k \in DOMAIN feed.bars : k <= at <=> (k <= at - 1 \/ k = at)
  BY <1>1
<1>3. Heights(at) = Heights(at - 1)
  BY <1>2 DEF Heights
<1> QED BY <1>3

LEMMA HighIs ==
  ASSUME case \in Cases, at \in DOMAIN feed.bars, NEW h, Mode = "trail" => IsMax(h, Heights(at))
  PROVE  HighAt(h, at)
BY HeightsAre, MaxIs, SamplesAre DEF HighAt

-----------------------------------------------------------------------------
(* What one sample leaves behind for the next.                             *)

OnSample == /\ ReplayInv /\ over = FALSE /\ feed.kind \in {"l0", "l1"}
            /\ at \in DOMAIN feed.bars /\ Advance

LEMMA OnSampleFacts ==
  ASSUME OnSample
  PROVE  /\ Here /\ CaseFits(case) /\ at \in 1..NSamples /\ at \in Nat \ {0}
         /\ at' = at + 1 /\ case' = case /\ at' \in 1..(NSamples + 1)
         /\ HighKnown /\ BoardKnown /\ TimeKnown /\ MinuteKnown
         /\ isAfter <=> at \in OpenSamples
         /\ Mode \in {"market", "px", "pct", "cost", "trail", "time", "board"}
         /\ {pinned, touchedPrev, prevFailed, seenAfter, over} \subseteq BOOLEAN
<1>1. case \in Cases /\ at \in 1..NSamples /\ NSamples \in Nat
  BY SamplesAre, NSamplesAssumption DEF OnSample, ReplayInv
<1>2. at' = at + 1 /\ case' = case
  BY DEF OnSample, Advance
<1>3. HighKnown /\ BoardKnown /\ TimeKnown /\ MinuteKnown /\ Here
  BY <1>1 DEF OnSample, ReplayInv, Here
<1>4. isAfter <=> at \in OpenSamples
  BY DEF isAfter, OpenSamples, OnSample
<1>5. {pinned, touchedPrev, prevFailed, seenAfter, over} \subseteq BOOLEAN
  BY DEF OnSample, ReplayInv
<1> QED BY <1>1, <1>2, <1>3, <1>4, <1>5, CaseIsFit, ModesAre

LEMMA EligibleStays ==
  ASSUME OnSample, Eligible(order, case.day, at)
  PROVE  Eligible(order, case.day, at)'
<1>1. at' = at + 1 /\ case' = case /\ order' = order /\ at \in Nat /\ order.slot \in Int
  BY OnSampleFacts DEF CaseFits, order
<1> QED BY <1>1 DEF Eligible

LEMMA HighNext ==
  ASSUME OnSample, Mode = "trail" => IsMax(refHigh', Heights(at))
  PROVE  HighKnown'
<1>1. at' - 1 = at /\ order' = order /\ feed' = feed /\ case' = case
  BY OnSampleFacts DEF order, feed
<1> QED BY <1>1 DEF HighKnown, Heights, IsMax, Mode

LEMMA BoardNext ==
  ASSUME OnSample,
         Mode = "board" => (pinned' <=> \/ pinned
                                        \/ /\ HasLimit(case.lim) /\ isAfter
                                           /\ feed.bars[at].px = case.lim.up)
  PROVE  BoardKnown'
<1>1. /\ at' = at + 1 /\ order' = order /\ feed' = feed /\ case' = case /\ at \in Nat
      /\ OpenSamples' = OpenSamples /\ (isAfter <=> at \in OpenSamples)
  BY OnSampleFacts DEF order, feed, OpenSamples
<1>2. \A j \in OpenSamples : j < at + 1 <=> (j < at \/ j = at)
  <2>1. OpenSamples \subseteq Nat
    BY SamplesAre DEF OpenSamples, OnSample, ReplayInv
  <2> QED BY <1>1, <2>1
<1>3. BoardKnown
  BY OnSampleFacts
<1> QED BY <1>1, <1>2, <1>3 DEF BoardKnown, Mode

LEMMA TimeNext ==
  ASSUME OnSample, Mode = "time" /\ isAfter => ~(at >= order.trig.val)
  PROVE  TimeKnown'
<1>1. /\ at' = at + 1 /\ order' = order /\ feed' = feed /\ case' = case /\ at \in Nat
      /\ OpenSamples' = OpenSamples /\ (isAfter <=> at \in OpenSamples)
  BY OnSampleFacts DEF order, feed, OpenSamples
<1>2. \A j \in OpenSamples : j < at + 1 <=> (j < at \/ j = at)
  <2>1. OpenSamples \subseteq Nat
    BY SamplesAre DEF OpenSamples, OnSample, ReplayInv
  <2> QED BY <1>1, <2>1
<1>3. TimeKnown /\ feed.kind # "l2"
  BY OnSampleFacts DEF OnSample
<1> QED BY <1>1, <1>2, <1>3 DEF TimeKnown, Mode

LEMMA MinuteStays ==
  ASSUME OnSample, UNCHANGED <<touchedPrev, prevFailed, seenAfter>>
  PROVE  MinuteKnown'
BY OnSampleFacts, EligibleStays DEF MinuteKnown

LEMMA SampleDone ==
  ASSUME OnSample, AfterSample,
         {pinned', touchedPrev', prevFailed', seenAfter'} \subseteq BOOLEAN,
         over' = FALSE => HighKnown' /\ BoardKnown' /\ TimeKnown' /\ MinuteKnown'
  PROVE  ReplayInv'
<1>1. /\ case' \in Cases /\ at' \in 1..(NSamples + 1) /\ ~Undefined(order, feed)'
      /\ feed'.kind # "l2"
  BY OnSampleFacts DEF OnSample, ReplayInv, order, feed, Here
<1>2. CASE over' /\ FillsAs(fill', ins', amount')
  <2>1. FillsAs(fill, ins, amount)'
    BY <1>2, OnSampleFacts, SameCase DEF FillsAs
  <2> QED BY <1>1, <1>2, <2>1 DEF ReplayInv
<1>3. CASE over' = FALSE /\ Unfilled(at)'
  BY <1>1, <1>3 DEF ReplayInv
<1> QED BY <1>2, <1>3 DEF AfterSample

-----------------------------------------------------------------------------
(* The loops, action by action.                                            *)

LEMMA SkipKeeps == ASSUME ReplayInv, L0Skip PROVE ReplayInv'
<1>1. OnSample /\ ~isAfter /\ Pass
  BY DEF L0Skip, Running, OnSample, ReplayInv
<1>2. feed.kind = "l0" /\ UNCHANGED <<pinned, refHigh, touchedPrev, prevFailed, seenAfter>>
  BY DEF L0Skip, Running
<1>3. AfterSample
  <2>1. at \notin Tries
    BY <1>1, OnSampleFacts, SamplesAre DEF Here
  <2> QED BY <1>1, <2>1, OnSampleFacts, PassedOver DEF OnSample
<1>4. HighKnown'
  <2>1. Mode = "trail" => IsMax(refHigh', Heights(at))
    BY <1>1, <1>2, OnSampleFacts, HighStays DEF HighKnown, Mode, isAfter, OnSample, Here
  <2> QED BY <1>1, <2>1, HighNext
<1>5. BoardKnown' /\ TimeKnown' /\ MinuteKnown'
  BY <1>1, <1>2, BoardNext, TimeNext, MinuteStays
<1>6. {pinned', touchedPrev', prevFailed', seenAfter'} \subseteq BOOLEAN
  BY <1>1, <1>2, OnSampleFacts
<1> QED BY <1>1, <1>3, <1>4, <1>5, <1>6, SampleDone

LEMMA BoardKeeps == ASSUME ReplayInv, L0Board PROVE ReplayInv'
<1>1. OnSample /\ isAfter /\ Mode = "board" /\ feed.kind = "l0"
  BY DEF L0Board, Running, OnSample, ReplayInv, Mode
<1>2. /\ pinned' = (pinned \/ (HasLimit(case.lim) /\ bar.px = case.lim.up))
      /\ UNCHANGED <<refHigh, touchedPrev, prevFailed, seenAfter>>
  BY DEF L0Board
<1>3. AfterSample
  <2> DEFINE go == /\ HasLimit(case.lim) /\ bar.px # case.lim.up
                   /\ pinned /\ bar.px <= case.lim.up
  <2>1. IF go THEN Try([n |-> bar.px, d |-> 1]) ELSE Pass
    BY DEF L0Board
  <2>2. at \in Tries <=> /\ HasLimit(case.lim) /\ bar.px < case.lim.up
                         /\ \E j \in OpenSamples : j < at /\ feed.bars[j].px = case.lim.up
    BY <1>1, OnSampleFacts DEF Tries, Attempts, OpenSamples, Mode, bar
  <2>3. bar.px < case.lim.up <=> (bar.px # case.lim.up /\ bar.px <= case.lim.up)
    <3>1. bar.px \in Nat /\ case.lim.up \in Nat
      BY <1>1, OnSampleFacts, SamplesAre DEF Bars, bar, OnSample, CaseFits, Here
    <3> QED BY <3>1
  <2>4. at \in Tries <=> go
    BY <1>1, <2>2, <2>3, OnSampleFacts DEF BoardKnown, Mode
  <2>5. RoundDiv([n |-> bar.px, d |-> 1].n * order.qty, [n |-> bar.px, d |-> 1].d) = Amt(at)
    BY <1>1 DEF Amt, AttemptAmount, AttemptPrice, bar
  <2> HIDE DEF go
  <2>6. CASE go
    <3> DEFINE price == [n |-> bar.px, d |-> 1]
    <3>1. Try(price) /\ at \in Tries /\ RoundDiv(price.n * order.qty, price.d) = Amt(at)
      BY <2>1, <2>4, <2>5, <2>6
    <3> HIDE DEF price
    <3> QED BY <1>1, <3>1, OnSampleFacts, Tried DEF OnSample
  <2>7. CASE ~go
    BY <1>1, <2>1, <2>4, <2>7, OnSampleFacts, PassedOver DEF OnSample
  <2> QED BY <2>6, <2>7
<1>4. HighKnown' /\ TimeKnown' /\ MinuteKnown'
  BY <1>1, <1>2, HighNext, TimeNext, MinuteStays
<1>5. BoardKnown'
  BY <1>1, <1>2, BoardNext DEF bar
<1>6. {pinned', touchedPrev', prevFailed', seenAfter'} \subseteq BOOLEAN
  BY <1>1, <1>2, OnSampleFacts
<1> QED BY <1>1, <1>3, <1>4, <1>5, <1>6, SampleDone

\* A sample of a time order, in either loop.
LEMMA TimeSample ==
  ASSUME OnSample, Mode = "time",
         IF ~isAfter \/ at < order.trig.val THEN Pass ELSE TryOnce([n |-> bar.px, d |-> 1]),
         UNCHANGED <<pinned, refHigh, touchedPrev, prevFailed, seenAfter>>
  PROVE  ReplayInv'
<1>1. at \in Nat /\ order.trig.val \in Int
  BY OnSampleFacts DEF CaseFits, order, TriggerType
<1>2. CASE ~isAfter \/ at < order.trig.val
  <2>1. at \notin Tries
    <3>1. CASE ~isAfter
      BY <3>1, OnSampleFacts, SamplesAre DEF Here
    <3>2. CASE at < order.trig.val
      BY <3>2, OnSampleFacts, TimeNotYet DEF OnSample, Here
    <3> QED BY <1>2, <3>1, <3>2
  <2>2. AfterSample
    BY <1>2, <2>1, OnSampleFacts, PassedOver DEF OnSample
  <2>3. TimeKnown'
    BY <1>1, <1>2, TimeNext
  <2>4. HighKnown' /\ BoardKnown' /\ MinuteKnown'
    BY HighNext, BoardNext, MinuteStays
  <2> QED BY <2>2, <2>3, <2>4, OnSampleFacts, SampleDone
<1>3. CASE isAfter /\ ~(at < order.trig.val)
  <2> DEFINE price == [n |-> bar.px, d |-> 1]
  <2>1. TryOnce(price)
    BY <1>3
  <2>2. Tries = {at}
    BY <1>1, <1>3, OnSampleFacts, TimeTries DEF Here
  <2>3. RoundDiv(price.n * order.qty, price.d) = Amt(at)
    BY DEF Amt, AttemptAmount, AttemptPrice, bar, Mode, OnSample
  <2>4. over'
    BY <2>1 DEF TryOnce
  <2> HIDE DEF price
  <2>5. AfterSample
    BY <2>1, <2>2, <2>3, OnSampleFacts, TriedOnce
  <2> QED BY <2>4, <2>5, OnSampleFacts, SampleDone
<1> QED BY <1>2, <1>3

LEMMA TimeKeeps == ASSUME ReplayInv, L0Time \/ L1Time PROVE ReplayInv'
<1>1. /\ OnSample /\ Mode = "time"
      /\ UNCHANGED <<pinned, refHigh, touchedPrev, prevFailed, seenAfter>>
  BY DEF L0Time, L1Time, Running, OnSample, ReplayInv, Mode
<1>2. IF ~isAfter \/ at < order.trig.val THEN Pass ELSE TryOnce([n |-> bar.px, d |-> 1])
  BY DEF L0Time, L1Time
<1> QED BY <1>1, <1>2, TimeSample

\* With the trailing high up to date, a sample's test is the one of the rules.
LEMMA SampleTest ==
  ASSUME OnSample, Mode \notin {"time", "board"}, NEW h, Mode = "trail" => IsMax(h, Heights(at))
  PROVE  /\ HighAt(h, at)
         /\ at \in Tries <=> /\ isAfter /\ ReachedOp(h)
                             /\ ~Sealed(order, bar, case.lim) /\ ~TriggerMuted(order, bar, case.lim)
<1>1. HighAt(h, at)
  BY OnSampleFacts, HighIs DEF OnSample, Here
<1>2. ReachedOp(h) <=> Touched(order, feed, case.day, case.cost, at)
  BY <1>1, OnSampleFacts, ReachedIsTouched
<1> QED BY <1>1, <1>2, PriceTries DEF OnSample, isAfter, bar

LEMMA PriceKeeps == ASSUME ReplayInv, L0Price PROVE ReplayInv'
<1>1. /\ OnSample /\ isAfter /\ Mode \notin {"board", "time"} /\ feed.kind = "l0"
      /\ UNCHANGED <<pinned, touchedPrev, prevFailed, seenAfter>>
  BY DEF L0Price, Running, OnSample, ReplayInv, Mode
<1> DEFINE h == refHigh'
           go == /\ ReachedOp(h) /\ ~TriggerMuted(order, bar, case.lim)
                 /\ ~Sealed(order, bar, case.lim)
           price == [n |-> bar.px, d |-> 1]
<1>2. /\ h = IF Mode = "trail" THEN Greater(refHigh, bar.px) ELSE refHigh
      /\ IF go THEN Try(price) ELSE Pass
  BY DEF L0Price, Mode
<1>3. Mode = "trail" => IsMax(h, Heights(at))
  <2>1. bar.px = feed.bars[at].hi
    BY <1>1, OnSampleFacts DEF CaseFits, feed, bar
  <2>2. Mode = "trail" => h = Greater(refHigh, feed.bars[at].hi)
    BY <1>2, <2>1
  <2> HIDE DEF h
  <2> QED BY <1>1, <2>2, OnSampleFacts, HighGrows DEF HighKnown, Mode, isAfter, OnSample, Here
<1> HIDE DEF h
<1>4. at \in Tries <=> go
  BY <1>1, <1>3, SampleTest
<1>5. RoundDiv(price.n * order.qty, price.d) = Amt(at)
  BY <1>1 DEF Amt, AttemptAmount, AttemptPrice, bar
<1> HIDE DEF price, go
<1>6. AfterSample
  BY <1>1, <1>2, <1>4, <1>5, OnSampleFacts, Tried, PassedOver DEF OnSample
<1>7. HighKnown'
  BY <1>1, <1>3, HighNext DEF h
<1>8. BoardKnown' /\ TimeKnown' /\ MinuteKnown'
  BY <1>1, BoardNext, TimeNext, MinuteStays
<1> QED BY <1>1, <1>6, <1>7, <1>8, OnSampleFacts, SampleDone

\* The price of a minute is the one of the rules.
LEMMA MinutePrice ==
  ASSUME OnSample, feed.kind = "l1", Mode \in {"px", "pct", "cost", "trail"}, NEW h, HighAt(h, at)
  PROVE  RoundDiv(L1Price(h).n * order.qty, L1Price(h).d) = Amt(at)
<1>1. LevelNow(h) = ThresholdAt(at)
  BY LevelIsThreshold
<1>2. L1Price(h) = AttemptPrice(order, feed, case.day, case.cost, at)
  BY <1>1 DEF L1Price, AttemptPrice, ThresholdAt, Mode
<1> QED BY <1>2 DEF Amt, AttemptAmount

\* The rule on crossing into a minute never blocks an attempt: a touched minute
\* after one that was touched and counted comes after a failed attempt.
LEMMA MinuteKeeps == ASSUME ReplayInv, L1Minute PROVE ReplayInv'
<1>1. OnSample /\ Mode \in {"px", "pct", "cost", "trail"} /\ feed.kind = "l1"
  <2>1. OnSample /\ Mode # "time" /\ feed.kind = "l1"
    BY DEF L1Minute, Running, OnSample, ReplayInv, Mode
  <2>2. Mode # "board" /\ Mode # "market"
    BY <2>1, OnSampleFacts DEF CaseFits, ReplayInv, Undefined, order, feed, Mode
  <2> QED BY <2>1, <2>2, OnSampleFacts
<1> DEFINE h == refHigh'
           touched == /\ ReachedOp(h) /\ ~Sealed(order, bar, case.lim)
                      /\ ~TriggerMuted(order, bar, case.lim)
           tried == isAfter /\ touched /\ (~seenAfter \/ ~touchedPrev \/ prevFailed)
           price == L1Price(h)
<1>2. /\ h = IF Mode = "trail" THEN Greater(refHigh, bar.hi) ELSE refHigh
      /\ IF tried THEN Try(price) ELSE Pass
      /\ touchedPrev' = touched
      /\ prevFailed' = (touched /\ (prevFailed \/ (tried /\ ~over')))
      /\ seenAfter' = (seenAfter \/ isAfter)
      /\ pinned' = pinned
  BY DEF L1Minute, Mode
<1>3. Mode = "trail" => IsMax(h, Heights(at))
  <2>1. Mode = "trail" => h = Greater(refHigh, feed.bars[at].hi)
    BY <1>2 DEF bar
  <2> HIDE DEF h
  <2> QED BY <1>1, <2>1, OnSampleFacts, HighGrows DEF HighKnown, Mode, OnSample, Here
<1>4. touched \in BOOLEAN /\ isAfter \in BOOLEAN
  BY DEF isAfter, Eligible
<1> HIDE DEF h
<1>5. HighAt(h, at) /\ (at \in Tries <=> isAfter /\ touched)
  BY <1>1, <1>3, SampleTest
<1>6. RoundDiv(price.n * order.qty, price.d) = Amt(at)
  BY <1>1, <1>5, MinutePrice
<1> HIDE DEF price, touched
<1>7. tried <=> at \in Tries
  BY <1>5, OnSampleFacts, <1>1 DEF MinuteKnown, isAfter
<1>8. AfterSample
  BY <1>1, <1>2, <1>6, <1>7, OnSampleFacts, Tried, PassedOver DEF OnSample
<1>9. HighKnown'
  BY <1>1, <1>3, HighNext DEF h
<1>10. BoardKnown' /\ TimeKnown'
  BY <1>1, <1>2, BoardNext, TimeNext
<1>11. over' = FALSE => MinuteKnown'
  <2>1. seenAfter => isAfter
    BY <1>1, OnSampleFacts DEF MinuteKnown, isAfter
  <2>2. seenAfter' => Eligible(order, case.day, at)'
    BY <1>1, <1>2, <2>1, EligibleStays DEF isAfter
  <2>3. over' = FALSE /\ seenAfter' /\ touchedPrev' => prevFailed'
    BY <1>2, <1>5, <1>7, <2>1
  <2> QED BY <2>2, <2>3 DEF MinuteKnown
<1>12. {pinned', touchedPrev', prevFailed', seenAfter'} \subseteq BOOLEAN
  BY <1>1, <1>2, <1>4, OnSampleFacts
<1> QED BY <1>1, <1>8, <1>9, <1>10, <1>11, <1>12, SampleDone

\* The day as one judgement.
LEMMA DayKeeps == ASSUME ReplayInv, L2Day PROVE ReplayInv'
<1>0. /\ case \in Cases /\ CaseFits(case) /\ NSamples \in Nat \ {0} /\ feed.kind = "l2"
      /\ DOMAIN feed.bars = {NSamples} /\ at = 1 /\ case' = case /\ at' = NSamples
      /\ over' = TRUE /\ UNCHANGED <<pinned, touchedPrev, prevFailed, seenAfter>>
      /\ HighKnown /\ feed.bars[NSamples] \in Bars
  BY CaseIsFit, SamplesAre, NSamplesAssumption DEF ReplayInv, L2Day
<1>1. Mode \in {"px", "pct", "cost", "trail", "time"}
  BY <1>0, ModesAre DEF CaseFits, ReplayInv, Undefined, order, feed, Mode
<1> DEFINE bar2 == feed.bars[NSamples]
           h == IF Mode = "trail" THEN Greater(refHigh, bar2.hi) ELSE refHigh
           reached == CASE Mode = "trail" -> h > 0 /\ Reaches(bar2, "le", TrailLevel(h))
                        [] Mode = "cost" -> HasCost /\ Reaches(bar2, order.trig.op, CostLevel)
                        [] OTHER -> Reaches(bar2, order.trig.op, FixedLevel)
           amt == feed.close * order.qty
           go == /\ Eligible(order, case.day, NSamples)
                 /\ Mode # "board"
                 /\ \/ Mode = "time"
                    \/ reached /\ ~Sealed(order, bar2, case.lim) /\ ~TriggerMuted(order, bar2, case.lim)
<1>2. /\ fill' = IF go /\ Affordable(amt) THEN NSamples ELSE 0
      /\ amount' = IF go /\ Affordable(amt) THEN amt ELSE 0
      /\ ins' = IF go /\ ~Affordable(amt) THEN 1 ELSE 0
  BY DEF L2Day, Mode
<1>3. HighAt(h, NSamples)
  <2>1. CASE Mode = "trail"
    <3>1. Heights(0) = {0} /\ Heights(NSamples) = {0, bar2.hi}
      BY <1>0 DEF Heights
    <3>2. refHigh = 0
      <4>1. IsMax(refHigh, Heights(0))
        BY <1>0, <2>1 DEF HighKnown, Mode
      <4> QED BY <3>1, <4>1 DEF IsMax
    <3>3. bar2.hi \in Nat
      BY <1>0 DEF Bars
    <3> HIDE DEF bar2
    <3>4. h = Greater(0, bar2.hi)
      BY <2>1, <3>2
    <3>5. IsMax(h, {0, bar2.hi}) /\ {0, bar2.hi} \subseteq Nat
      BY <3>3, <3>4 DEF IsMax, Greater
    <3> HIDE DEF h
    <3>6. Max(Heights(NSamples)) = h
      BY <3>1, <3>5, MaxIs
    <3> QED BY <1>0, <2>1, <3>6, HeightsAre DEF HighAt
  <2>2. CASE Mode # "trail"
    BY <2>2 DEF HighAt
  <2> QED BY <2>1, <2>2
<1>4. NSamples \in Tries <=> go
  <2>1. CASE Mode = "time"
    <3>1. OpenSamples \subseteq {NSamples}
      BY <1>0 DEF OpenSamples
    <3>2. NSamples \in Tries <=> Eligible(order, case.day, NSamples)
      BY <1>0, <2>1, <3>1 DEF Tries, Attempts, OpenSamples, Mode
    <3> QED BY <2>1, <3>2
  <2>2. CASE Mode # "time"
    <3> HIDE DEF h, bar2
    <3>1. LevelNow(h) = ThresholdAt(NSamples)
      BY <1>1, <1>3, <2>2, LevelIsThreshold
    <3>2. reached <=> Touched(order, feed, case.day, case.cost, NSamples)
      <4>1. CASE Mode \in {"px", "pct"}
        BY <3>1, <4>1 DEF LevelNow, Mode, Touched, ThresholdAt, bar2
      <4>2. CASE Mode = "cost"
        BY <3>1, <4>2 DEF LevelNow, Mode, Touched, ThresholdAt, bar2, HasCost
      <4>3. CASE Mode = "trail"
        <5>1. h = RefHigh(order, feed, case.day, NSamples)
          BY <1>3, <4>3 DEF HighAt
        <5> QED BY <3>1, <4>3, <5>1 DEF LevelNow, Mode, Touched, ThresholdAt, bar2
      <4> QED BY <1>1, <2>2, <4>1, <4>2, <4>3
    <3> HIDE DEF reached
    <3> QED BY <1>0, <1>1, <2>2, <3>2, PriceTries DEF bar2
  <2> QED BY <2>1, <2>2
<1> HIDE DEF go, h
<1>5. Amt(NSamples) = amt
  <2> DEFINE a == feed.close * order.qty
  <2>1. a \in Nat
    <3>1. feed.close \in Nat /\ order.qty \in Nat
      BY <1>0 DEF CaseFits, feed, order
    <3> QED BY <3>1
  <2>2. Amt(NSamples) = RoundDiv(a, 1)
    BY <1>0 DEF Amt, AttemptAmount, AttemptPrice
  <2> HIDE DEF a
  <2>3. RoundDiv(a, 1) = a
    BY <2>1 DEF RoundDiv
  <2> QED BY <2>2, <2>3 DEF a
<1> HIDE DEF amt
<1>6. Tries \subseteq {NSamples} /\ Past(NSamples) = {}
  BY <1>0, SamplesAre DEF Past
<1>7. FillsAs(fill', ins', amount')
  <2>1. CASE go /\ Affordable(amt)
    <3>1. FillsAs(NSamples, Cardinality(Past(NSamples)), Amt(NSamples))
      BY <1>0, <1>4, <1>5, <1>6, <2>1, FilledAt
    <3>2. fill' = NSamples /\ ins' = Cardinality(Past(NSamples)) /\ amount' = Amt(NSamples)
      BY <1>2, <1>5, <1>6, <2>1, FS_EmptySet
    <3> QED BY <3>1, <3>2
  <2>2. CASE go /\ ~Affordable(amt)
    <3>0. Tries = {NSamples}
      BY <1>4, <1>6, <2>2
    <3>1. Tries = {NSamples} /\ Cardinality(Tries) = 1
      BY <3>0, FS_Singleton
    <3>2. fill' = 0 /\ ins' = Cardinality(Tries)
      BY <1>2, <2>2, <3>1
    <3>3. \A i \in Tries : ~Affordable(Amt(i))
      BY <1>5, <2>2, <3>1
    <3> QED BY <3>2, <3>3, NeverFilled
  <2>3. CASE ~go
    <3>1. Tries = {} /\ Cardinality(Tries) = 0
      BY <1>4, <1>6, <2>3, FS_EmptySet
    <3>2. fill' = 0 /\ ins' = Cardinality(Tries)
      BY <1>2, <2>3, <3>1
    <3>3. \A i \in Tries : ~Affordable(Amt(i))
      BY <3>1
    <3> QED BY <3>2, <3>3, NeverFilled
  <2> QED BY <2>1, <2>2, <2>3
<1>8. FillsAs(fill, ins, amount)'
  BY <1>0, <1>7, SameCase DEF FillsAs
<1> QED
  <2>1. at' \in 1..(NSamples + 1)
    BY <1>0
  <2>2. case' \in Cases /\ ~Undefined(order, feed)'
    BY <1>0 DEF ReplayInv, order, feed
  <2>3. {pinned', touchedPrev', prevFailed', seenAfter', over'} \subseteq BOOLEAN
    BY <1>0 DEF ReplayInv
  <2> QED BY <1>0, <1>8, <2>1, <2>2, <2>3 DEF ReplayInv

LEMMA EndKeeps == ASSUME ReplayInv, EndOfDay PROVE ReplayInv'
<1>1. /\ case \in Cases /\ case' = case /\ over = FALSE /\ over' = TRUE /\ at' = at
      /\ UNCHANGED <<pinned, touchedPrev, prevFailed, seenAfter, ins, fill, amount>>
      /\ Unfilled(at) /\ at \in 1..(NSamples + 1) /\ at \notin DOMAIN feed.bars
      /\ feed.kind \in {"l0", "l1"}
  BY DEF EndOfDay, ReplayInv
<1>2. at = NSamples + 1 /\ \A i \in Tries : i < at
  <2>1. NSamples \in Nat /\ DOMAIN feed.bars = 1..NSamples /\ Tries \subseteq 1..NSamples
    BY <1>1, NSamplesAssumption, SamplesAre
  <2> QED BY <1>1, <2>1
<1>3. Past(at) = Tries
  BY <1>2 DEF Past
<1>4. FillsAs(fill, ins, amount)
  BY <1>1, <1>3, NeverFilled DEF Unfilled
<1>5. FillsAs(fill, ins, amount)'
  BY <1>1, <1>4, SameCase DEF FillsAs
<1>6. case' \in Cases /\ ~Undefined(order, feed)'
  BY <1>1 DEF ReplayInv, order, feed
<1> QED BY <1>1, <1>5, <1>6 DEF ReplayInv

-----------------------------------------------------------------------------
LEMMA ReplayStarts == ReplayInit => ReplayInv
<1> SUFFICES ASSUME ReplayInit PROVE ReplayInv
  OBVIOUS
<1>1. case \in Cases /\ at = 1 /\ at \in 1..(NSamples + 1) /\ ~Undefined(order, feed)
  BY NSamplesAssumption DEF ReplayInit, order, feed
<1>2. Past(at) = {} /\ \A j \in OpenSamples : ~(j < at)
  BY <1>1, SamplesAre DEF Past, OpenSamples
<1>3. Unfilled(at) /\ BoardKnown /\ TimeKnown /\ MinuteKnown
  BY <1>2, FS_EmptySet DEF ReplayInit, Unfilled, BoardKnown, TimeKnown, MinuteKnown
<1>4. HighKnown
  <2>1. Heights(at - 1) = {0}
    BY <1>1, SamplesAre DEF Heights
  <2> QED BY <2>1 DEF HighKnown, IsMax, ReplayInit
<1> QED BY <1>1, <1>3, <1>4 DEF ReplayInit, ReplayInv

LEMMA ReplayGoes == ASSUME ReplayInv, [ReplayNext]_replayVars PROVE ReplayInv'
<1>1. CASE UNCHANGED replayVars
  BY <1>1 DEF replayVars, ReplayInv, Undefined, order, feed, FillsAs, Tries, Amt, Affordable, Unfilled,
    Past, HighKnown, BoardKnown, TimeKnown, MinuteKnown, OpenSamples, Heights, IsMax
<1> QED
  BY <1>1, SkipKeeps, BoardKeeps, TimeKeeps, PriceKeeps, MinuteKeeps, DayKeeps, EndKeeps
  DEF ReplayNext

\* ReplayIsRules: for every order, series, price limit and purse the three loops of
\* settle_account fill at the first attempt of OrderRules that can be paid for, at
\* its price, and count the attempts before it.  EodSettlement may use the closed
\* form because of this.
THEOREM ReplayIsRules == ReplaySpec => []ReplayMatchesRules
<1>1. ReplayInv => ReplayMatchesRules
  BY DEF ReplayInv, ReplayMatchesRules, FillsAs, Tries, Amt
<1> QED BY <1>1, ReplayStarts, ReplayGoes, PTL DEF ReplaySpec

=============================================================================
