----------------------------- MODULE MarketFeed -----------------------------
(***************************************************************************)
(* Where a settlement's prices come from: the collector that samples the   *)
(* watch list every three seconds (core/collector.py over l0store.py and   *)
(* source_chain.py), and the data service that gives a security's day as   *)
(* samples, minutes or a daily range, with two caches (market_data.py over *)
(* quotes_tencent.py), to the settlement (settle_day._build_feeds) and to  *)
(* the pages (market_routes.py).                                           *)
(*                                                                         *)
(* A half day is one sample, so a day is covered when no sample is missing *)
(* but those of a suspension.  Collector and settlement share the event    *)
(* loop: a settlement is one step, a cycle is one but for the transactions *)
(* between which the process may die.  A process that is down makes none.  *)
(***************************************************************************)
EXTENDS Integers, FiniteSets

CONSTANTS Symbols, Sources, None,
          MaxDay, MaxRestarts,
          LastAsked,   \* samples are taken, and requests made, of days up to this
          MaxPeeks     \* requests of the pages

ASSUME FeedAssumption == /\ MaxDay \in Nat \ {0} /\ MaxRestarts \in Nat /\ MaxPeeks \in Nat
                         /\ LastAsked \in 1..MaxDay
                         /\ Sources # {} /\ None \notin Sources

Days == 1..MaxDay
Prices == 1..2       \* two prices lie more than CLOSE_DEV_TOL apart

\* The phases of a day: before 9:25, the sessions, until 15:02:30, the evening.
Pre == 0
Am == 1
Pm == 2
Ext == 3
Eve == 4

VARIABLES day, phase,
          px,        \* the price of now
          close,     \* the official closes, 0 until there is one
          source,    \* the first source of the configuration
          coll,      \* the fields of MarketCollector
          unbound,   \* the source of samples written and not yet bound, or None
          watch,     \* collector_watchlist
          ticks,     \* l0_ticks
          bound,     \* source_binding: the source of the day
          cov,       \* l0_coverage
          rows,      \* daily_cache: a close for each day, 0 for no row
          mins,      \* minute_cache
          taken,     \* the input a settlement took in the last step, if it took one
          torn,      \* days on which the process died before binding its samples
          peeked,    \* whether the row cached is one a page fetched in its session
          restarts, peeks

clock == <<day, phase, px, close>>
list == <<watch, coll>>
samples == <<unbound, ticks, bound>>
run == <<source, torn, restarts>>
cache == <<rows, mins>>
vars == <<clock, list, samples, run, cov, cache, taken, peeked, peeks>>

Fresh(d) == [day |-> d, am |-> FALSE, pm |-> FALSE, fin |-> FALSE]
NoCover == [actual |-> 0, expected |-> 0, quality |-> "none"]
NoMinutes == [n |-> "none", last |-> 0]
NothingTaken == [day |-> 0, sym |-> None, level |-> "none", close |-> 0,
                 minutes |-> NoMinutes, mark |-> FALSE]
Quiet == taken' = NothingTaken
ByDay(v) == [d \in Days |-> [s \in Symbols |-> v]]

Init == /\ day = 1 /\ phase = Pre /\ px = [s \in Symbols |-> 1] /\ close = ByDay(0)
        /\ source \in Sources /\ coll = Fresh(0) /\ unbound = None
        /\ watch = [d \in Days |-> {}] /\ ticks = ByDay({})
        /\ bound = [d \in Days |-> None] /\ cov = ByDay(NoCover)
        /\ rows = ByDay(0) /\ mins = ByDay(NoMinutes) /\ taken = NothingTaken
        /\ torn = {} /\ peeked = ByDay(FALSE) /\ restarts = 0 /\ peeks = 0

-----------------------------------------------------------------------------
(* The market.  The closing auction may move the price once more.          *)

Move == /\ phase < Eve /\ unbound = None /\ phase' = phase + 1
        /\ px' \in [Symbols -> Prices] /\ (phase' = Eve => px' = px)
        /\ close' = IF phase' = Ext THEN [close EXCEPT ![day] = px'] ELSE close
        /\ UNCHANGED <<day, list, samples, run, cov, cache, peeked, peeks>> /\ Quiet

NewDay == /\ phase = Eve /\ day < MaxDay /\ unbound = None
          /\ day' = day + 1 /\ phase' = Pre
          /\ UNCHANGED <<px, close, list, samples, run, cov, cache, peeked, peeks>> /\ Quiet

-----------------------------------------------------------------------------
(* MarketCollector.cycle.                                                  *)

\* refresh_coverage: a suspended sample leaves the denominator, one taken
\* after the close too; the other samples after the close count nowhere.
Count(d, s) ==
  LET n == Cardinality({t \in ticks[d][s] : t.st = "suspended"})
  IN [actual |-> Cardinality({t \in ticks[d][s] : t.st = "normal" /\ t.at # Ext}),
      expected |-> IF n > 2 THEN 0 ELSE 2 - n]
Covered(c) == IF c.expected = 0 THEN c.actual > 0 ELSE 10 * c.actual >= 9 * c.expected

\* _reset_day, then _maybe_watchlist: rebuilt after 9:25, and by a later
\* cycle after 13:00, with w the orders and holdings found then.
Today == IF coll.day = day THEN coll ELSE Fresh(day)
Sampled == day <= LastAsked
Rebuilds == IF Today.am THEN ~Today.pm /\ phase >= Pm ELSE phase >= Am
Seen == [Today EXCEPT !.am = @ \/ Rebuilds, !.pm = @ \/ (Today.am /\ Rebuilds)]
Watches(w) == /\ Rebuilds \/ w = watch[day]
              /\ watch' = [watch EXCEPT ![day] = w]

\* _finalize_symbol
Verdict(s) ==
  LET c == Count(day, s)
  IN [actual |-> c.actual, expected |-> c.expected,
      quality |-> IF c.actual > 0 /\ Covered(c) THEN "ok" ELSE "degraded"]

\* update_coverage of every watched security.
Finalized(w) == [s \in Symbols |-> IF s \in w THEN Verdict(s) ELSE cov[day][s]]

\* A cycle that takes no sample: outside the sessions, with an empty list, with
\* a source that fails, or backing off.  The first one after 15:02:30 closes
\* the day.
Closes == phase = Eve /\ ~Today.fin
Idle(w) ==
  /\ Sampled /\ unbound = None /\ Watches(w)
  /\ coll' = [Seen EXCEPT !.fin = @ \/ Closes]
  /\ cov' = IF Closes THEN [cov EXCEPT ![day] = Finalized(w)] ELSE cov
  /\ UNCHANGED <<clock, samples, run, cache, peeked, peeks>> /\ Quiet

\* _resolve_source: the source the day is bound to, else the router's first.
SourceMutRouter == source
Source == IF bound[day] # None THEN bound[day] ELSE source

\* session_of
InSession == phase \in {Am, Pm, Ext}

\* _sample.  The price is kept of those after the close, the close candidates.
Sample(s, st) == [at |-> phase, st |-> st, src |-> Source,
                  px |-> IF phase = Ext /\ st = "normal" THEN px[s] ELSE 0]

\* upsert_l0_ticks: the samples of a batch, in one transaction.
Upserted(got) ==
  [s \in Symbols |-> IF s \notin DOMAIN got \/ (\E t \in ticks[day][s] : t.at = phase)
                        \/ got[s] = "absent"
                     THEN ticks[day][s] ELSE ticks[day][s] \cup {Sample(s, got[s])}]

\* A cycle in a session whose batch came back.
Collect(w, got) ==
  /\ InSession /\ Sampled /\ unbound = None /\ Watches(w)
  /\ got \in [w -> {"absent", "normal", "suspended"}]
  /\ \E s \in w : got[s] # "absent"
  /\ ticks' = [ticks EXCEPT ![day] = Upserted(got)]
  /\ unbound' = Source /\ coll' = Seen
  /\ UNCHANGED <<clock, bound, run, cov, cache, peeked, peeks>> /\ Quiet

\* set_source_binding, in transactions of their own; the first one stays.
Bind == /\ unbound # None /\ unbound' = None
        /\ bound' = [bound EXCEPT ![day] = IF @ = None THEN unbound ELSE @]
        /\ UNCHANGED <<clock, list, ticks, run, cov, cache, peeked, peeks>> /\ Quiet

\* The process dies and comes back, perhaps with other sources configured.
Restart == /\ restarts < MaxRestarts /\ restarts' = restarts + 1
           /\ source' \in Sources /\ coll' = Fresh(0) /\ unbound' = None
           /\ torn' = IF unbound = None THEN torn ELSE torn \cup {day}
           /\ UNCHANGED <<clock, watch, ticks, bound, cov, cache, peeked, peeks>> /\ Quiet

-----------------------------------------------------------------------------
(* The data service.  net is what can be reached: everything ("up"), the   *)
(* daily rows only ("rows"), or nothing ("down").                          *)

\* day_rows: the row of the session that runs holds the price of now.
Row(d, s) == IF d < day \/ (d = day /\ phase >= Ext) THEN close[d][s]
             ELSE IF d = day /\ phase \in {Am, Pm} THEN px[s] ELSE 0

\* minute_session knows the latest session only; n says whether the minutes
\* so far are fewer than the 228 wanted of 240.
Session(s, n) ==
  IF phase >= Ext THEN [n |-> "all", last |-> close[day][s]]
  ELSE IF phase # Pre THEN [n |-> IF phase = Am THEN "few" ELSE n, last |-> px[s]]
  ELSE IF day > 1 THEN [n |-> "all", last |-> close[day - 1][s]] ELSE NoMinutes

\* replay_day: the session, if its last price is the close of d.
Replayed(d, s, n) ==
  LET m == Session(s, n) IN IF m # NoMinutes /\ m.last = Row(d, s) THEN m ELSE NoMinutes

\* pull_minute: the cache, else the source.
Minutes(d, s, net, n) ==
  IF mins[d][s] # NoMinutes THEN mins[d][s]
  ELSE IF net = "up" THEN Replayed(d, s, n) ELSE NoMinutes
\* minute_cache_put
PutMinutes(d, s, m) == mins' = [mins EXCEPT ![d][s] = m]

\* official_close: the cache, else the rows.
CloseOf(d, s, net) ==
  IF rows[d][s] # 0 THEN rows[d][s] ELSE IF net = "down" THEN 0 ELSE Row(d, s)

\* get_replay_series: the level chosen.
Ready(d, s) == cov[d][s].quality # "none" /\ Covered(cov[d][s])
LevelMutUnaligned(d, s, net, n) ==
  IF Ready(d, s) THEN "l0"
  ELSE IF Minutes(d, s, net, n).n \in {"none", "few"} THEN "l2" ELSE "l1"
Level(d, s, net, n) ==
  LET m == Minutes(d, s, net, n)
  IN IF Ready(d, s) THEN "l0"
     ELSE IF m.n \in {"none", "few"} THEN "l2"
     ELSE IF CloseOf(d, s, net) \notin {0, m.last} /\ mins[d][s] # NoMinutes THEN "l2"
     ELSE "l1"

\* _close_candidates: the last sample after the close is off the close.
Deviates(d, s, c) == \E t \in ticks[d][s] : t.at = Ext /\ t.st = "normal" /\ t.px # c

\* The input; its close is 0 when there is none and the service refuses.
Input(d, s, net, n) ==
  LET lv == Level(d, s, net, n)
      m == Minutes(d, s, net, n)
      c == IF lv = "l2" THEN IF net = "down" THEN 0 ELSE Row(d, s)
           ELSE IF lv = "l1" /\ mins[d][s] = NoMinutes THEN Row(d, s)
           ELSE CloseOf(d, s, net)
  IN [day |-> d, sym |-> s, level |-> lv, close |-> c,
      minutes |-> IF lv = "l1" THEN m ELSE NoMinutes,
      mark |-> \/ lv = "l0" /\ (Deviates(d, s, c) \/ cov[d][s].quality = "degraded")
               \/ lv = "l1" /\ m.n = "most"]

\* _fetch_day_rows puts every row of the window into the cache, whatever it
\* wants of it.
PutDailyMutKeep(row, e, s) == IF Row(e, s) = 0 \/ row[s] # 0 THEN row ELSE [row EXCEPT ![s] = Row(e, s)]
PutDaily(row, e, s) == IF Row(e, s) = 0 THEN row ELSE [row EXCEPT ![s] = Row(e, s)]
Cached(d, s) == [e \in Days |-> IF e <= d THEN PutDaily(rows[e], e, s) ELSE rows[e]]
\* The rows a fetch has put are those of a page in the session, or no longer.
Fetched(d, s, early) == [e \in Days |-> IF e <= d /\ Row(e, s) # 0
                                        THEN [peeked[e] EXCEPT ![s] = early /\ e = day]
                                        ELSE peeked[e]]

\* _mark_close_deviation
Marked(d, s, c) == IF Deviates(d, s, c) THEN [cov EXCEPT ![d][s].quality = "degraded"] ELSE cov

\* What a request leaves in the caches and in the coverage row; early says that
\* a page makes it while the session runs.
Serve(d, s, net, n, early) ==
  LET i == Input(d, s, net, n)
      fetches == /\ net # "down"
                 /\ \/ i.level = "l2"
                    \/ rows[d][s] = 0 /\ (i.level = "l0" \/ mins[d][s] # NoMinutes)
  IN /\ IF i.level = "l0" THEN UNCHANGED mins ELSE PutMinutes(d, s, Minutes(d, s, net, n))
     /\ rows' = IF fetches THEN Cached(d, s) ELSE rows
     /\ peeked' = IF fetches THEN Fetched(d, s, early) ELSE peeked
     /\ cov' = IF i.level = "l0" /\ i.close # 0 THEN Marked(d, s, i.close) ELSE cov

\* _build_feeds: settlements are of a day that is over.
Settles(d) == unbound = None /\ (d < day \/ (d = day /\ phase = Eve))

\* settle_input: a series without an official close is refused.
SettleInput(d, s, net, n) ==
  LET i == Input(d, s, net, n) IN IF i.close = 0 THEN NothingTaken ELSE i

\* An ordered security.
Take(d, s, net, n) ==
  /\ Settles(d) /\ Serve(d, s, net, n, FALSE) /\ taken' = SettleInput(d, s, net, n)
  /\ UNCHANGED <<clock, list, samples, run, peeks>>

\* daily_pair: the close alone, from the cache or the rows.
DailyPair(d, s, net) ==
  /\ CloseOf(d, s, net) # 0
  /\ rows' = IF rows[d][s] = 0 THEN Cached(d, s) ELSE rows
  /\ peeked' = IF rows[d][s] = 0 THEN Fetched(d, s, FALSE) ELSE peeked
  /\ taken' = [NothingTaken EXCEPT !.day = d, !.sym = s, !.level = "pair",
                                   !.close = CloseOf(d, s, net)]

\* A security that is only held.
Value(d, s, net) ==
  /\ Settles(d) /\ DailyPair(d, s, net)
  /\ UNCHANGED <<clock, list, samples, run, cov, mins, peeks>>

\* GET /replay/{symbol}: of today unless a day is given, at any time.
Peek(d, s, net, n) ==
  /\ peeks < MaxPeeks /\ peeks' = peeks + 1 /\ d <= day
  /\ Serve(d, s, net, n, phase \in {Am, Pm})
  /\ UNCHANGED <<clock, list, samples, run>> /\ Quiet

\* POST /pull-minute
PullMinute(d, s, net, n) ==
  /\ peeks < MaxPeeks /\ peeks' = peeks + 1 /\ d <= day
  /\ PutMinutes(d, s, Minutes(d, s, net, n))
  /\ UNCHANGED <<clock, list, samples, run, cov, rows, peeked>> /\ Quiet

-----------------------------------------------------------------------------
Cycle == \E w \in SUBSET Symbols :
           \/ Idle(w)
           \/ \E got \in [w -> {"absent", "normal", "suspended"}] : Collect(w, got)
Counts == IF phase = Pm THEN {"few", "most"} ELSE {"few"}
Request == \E d \in 1..LastAsked, s \in Symbols, net \in {"up", "rows", "down"}, n \in Counts :
             \/ Take(d, s, net, n) \/ Value(d, s, net)
             \/ Peek(d, s, net, n) \/ PullMinute(d, s, net, n)
Next == Move \/ NewDay \/ Cycle \/ Bind \/ Restart \/ Request
Spec == Init /\ [][Next]_vars

-----------------------------------------------------------------------------
Cover == [actual : 0..2, expected : 0..2, quality : {"none", "ok", "degraded"}]
MinuteRows == [n : {"none", "few", "most", "all"}, last : 0..2]
TypeOK ==
  /\ day \in Days /\ phase \in Pre..Eve /\ px \in [Symbols -> Prices]
  /\ close \in [Days -> [Symbols -> 0..2]] /\ rows \in [Days -> [Symbols -> 0..2]]
  /\ source \in Sources /\ unbound \in Sources \cup {None}
  /\ coll \in [day : 0..MaxDay, am : BOOLEAN, pm : BOOLEAN, fin : BOOLEAN]
  /\ watch \in [Days -> SUBSET Symbols] /\ bound \in [Days -> Sources \cup {None}]
  /\ cov \in [Days -> [Symbols -> Cover]] /\ mins \in [Days -> [Symbols -> MinuteRows]]
  /\ taken \in [day : 0..MaxDay, sym : Symbols \cup {None},
                level : {"none", "pair", "l0", "l1", "l2"},
                close : 0..2, minutes : MinuteRows, mark : BOOLEAN]
  /\ torn \subseteq Days /\ peeked \in [Days -> [Symbols -> BOOLEAN]]
  /\ restarts \in 0..MaxRestarts /\ peeks \in 0..MaxPeeks
  /\ \A d \in Days, s \in Symbols : \A t \in ticks[d][s] :
        t \in [at : {Am, Pm, Ext}, st : {"normal", "suspended"}, src : Sources, px : 0..2]

\* All the samples of a day are of one source, over failures and restarts with
\* other sources configured (collector.py:8-9, source_binding), but on a day
\* on which the process died between its first samples and their binding.
OneSourceADay ==
  \A d \in Days \ torn, s, r \in Symbols :
    \A t \in ticks[d][s], u \in ticks[d][r] : t.src = u.src

\* What a settlement takes is whole or says that it is not: samples only of a
\* covered day, marked when the last quote after the close is off the close
\* used, even if a restart closed the day again; minutes only when the last
\* is the close used, wherever the two were cached, and marked when some are
\* missing (get_replay_series).
GapsAreMarked ==
  /\ taken.level = "l0" => /\ Covered(Count(taken.day, taken.sym))
                           /\ Deviates(taken.day, taken.sym, taken.close) => taken.mark
  /\ taken.level = "l1" => /\ taken.minutes.last = taken.close /\ taken.minutes.n # "few"
                           /\ taken.minutes.n = "most" => taken.mark

\* A settlement uses the official close of its day, whichever level serves it
\* and whatever was cached, unless a page asked for the day's replay while
\* the session was open and no fetch has replaced the row it cached since
\* (official_close and _fetch_day_rows, market_data.py:75-103).
OfficialUnlessPeeked ==
  taken.level # "none" => \/ taken.close = close[taken.day][taken.sym]
                          \/ peeked[taken.day][taken.sym]

\* market_data.py:7 says the close is that of the authoritative daily source,
\* bound to its day: a settlement never uses another.
CloseIsOfficial ==
  taken.level # "none" => taken.close = close[taken.day][taken.sym]
=============================================================================
