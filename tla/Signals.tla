------------------------------ MODULE Signals ------------------------------
(***************************************************************************)
(* The register of signals and the tracking of sales over their forward    *)
(* window of N trading days: core/signalstore.py, settle_exits and the two *)
(* registrations of core/eodengine.py, and the part of                     *)
(* core/settle_scheduler.py that advances them, live and in the catch-up   *)
(* after a start.                                                          *)
(*                                                                         *)
(* All rows are of one account and one symbol, every day is a trading day, *)
(* and a price is named by the day whose close it is; 0 is none.  The      *)
(* settlement of the day itself is EodSettlement's: here it registers its  *)
(* trades and succeeds or leaves a gap.                                    *)
(***************************************************************************)
EXTENDS Integers, Sequences

CONSTANTS Rows,        \* rows of signal_registry and exit_trackings
          Keys, NoKey, \* what a row is evidence for: concept_tag or pitfall_id
          N, MaxDay, MaxStarts

ASSUME WindowAssumption == {N, MaxDay, MaxStarts} \subseteq Nat \ {0} /\ NoKey \notin Keys

Days == 1..MaxDay

VARIABLES day,
          row,    \* the rows
          th,     \* the settlement: what it does, of which day, live or catching up
          done,   \* _done_dates
          starts,
          adv     \* history: the days each row was advanced on

registerVars == <<day, row, th, done, starts, adv>>

Kinds == {"exit", "signal"}
Unregistered == [kind |-> "signal", reg |-> 0, key |-> NoKey, trial |-> FALSE, ref |-> 0,
                 last |-> 0, sess |-> 0, seen |-> 0, end |-> 0, stale |-> FALSE]
Down == [pc |-> "down", d |-> 1, live |-> FALSE]
Idle == [Down EXCEPT !.pc = "idle"]

RegisterInit == /\ day = 1 /\ row = [r \in Rows |-> Unregistered] /\ th = Down /\ done = FALSE
                /\ starts = 0 /\ adv = [r \in Rows |-> <<>>]

-----------------------------------------------------------------------------
(* Registration.                                                           *)

Register(r, kind, d, key, trial, ref) ==
    /\ row[r].reg = 0
    /\ row' = [row EXCEPT ![r] = [kind |-> kind, reg |-> d, key |-> key, trial |-> trial,
                                  ref |-> ref, last |-> ref, sess |-> 0, seen |-> 0,
                                  end |-> 0, stale |-> FALSE]]
\* write_trade of the day being settled: the close, else the price of the trade,
\* and no concept_tag.  A sale is tracked as well, from its own price.
RegisterTrade(r) == /\ th.pc = "run"
                    /\ \E kind \in Kinds : Register(r, kind, th.d, NoKey, FALSE, th.d)
                    /\ UNCHANGED <<day, th, done, starts, adv>>
\* register_candidate, register_pitfall: the caller may not know the close.
RegisterKey(r, k) == /\ th.pc # "down"
                     /\ \E trial \in BOOLEAN, ref \in {0, day} : Register(r, "signal", day, k, trial, ref)
                     /\ UNCHANGED <<day, th, done, starts, adv>>

-----------------------------------------------------------------------------
(* One day's advance: every row of an earlier day that is still open.      *)

Due(kind, d) == {r \in Rows : row[r].kind = kind /\ row[r].reg \in 1..(d - 1) /\ row[r].end = 0}

\* A row steps to day d, with the close when there is one; the N-th step settles it.
Stepped(w, d, close) ==
    [w EXCEPT !.sess = @ + 1, !.seen = d, !.last = IF close THEN d ELSE @,
              !.end = IF w.sess + 1 >= N THEN d ELSE 0,
              !.stale = w.sess + 1 >= N /\ ~close]

\* _signal_base_prices: per symbol, so one of the registration days stands for all.
Bases(d) == {0} \cup {row[r].reg : r \in {q \in Due("signal", d) : row[q].ref = 0}}
WithBase(w, base) == IF w.ref = 0 THEN [w EXCEPT !.ref = base] ELSE w

StepsMutReplaysOldDays(w, d) == w.seen # d
Steps(w, d) == w.seen < d

\* settle_exits: with neither the close nor the benchmark the day does not count.
AdvanceExits ==
    LET moved(close, bench) == {r \in Due("exit", th.d) : Steps(row[r], th.d) /\ (close \/ bench)}
    IN  /\ th.pc = "exits"
        /\ \E close, bench \in BOOLEAN :
              /\ row' = [r \in Rows |-> IF r \in moved(close, bench)
                                        THEN Stepped(row[r], th.d, close) ELSE row[r]]
              /\ adv' = [r \in Rows |-> IF r \in moved(close, bench)
                                        THEN Append(adv[r], th.d) ELSE adv[r]]
        /\ th' = [th EXCEPT !.pc = "signals"]
        /\ UNCHANGED <<day, done, starts>>
\* settle_due: without a base, or with neither a close nor an earlier one, it does not.
AdvanceSignals ==
    LET based(r, base) == IF r \in Due("signal", th.d) THEN WithBase(row[r], base) ELSE row[r]
        moved(close, base) == {r \in Due("signal", th.d) :
                                 /\ based(r, base).ref > 0 /\ Steps(row[r], th.d)
                                 /\ close \/ row[r].last > 0}
    IN  /\ th.pc = "signals"
        /\ \E close \in BOOLEAN, base \in Bases(th.d) :
              /\ row' = [r \in Rows |-> IF r \in moved(close, base)
                                        THEN Stepped(based(r, base), th.d, close) ELSE based(r, base)]
              /\ adv' = [r \in Rows |-> IF r \in moved(close, base)
                                        THEN Append(adv[r], th.d) ELSE adv[r]]
        /\ th' = [th EXCEPT !.pc = "run"]
        /\ UNCHANGED <<day, done, starts>>

-----------------------------------------------------------------------------
(* The days.  The catch-up runs once, after a start, over the days before  *)
(* that day; without the axis of trading days it is skipped.               *)

NewDay == /\ th.pc \in {"down", "idle"} /\ day < MaxDay /\ day' = day + 1 /\ done' = FALSE
          /\ UNCHANGED <<row, th, starts, adv>>
Start == /\ th.pc = "down" /\ starts < MaxStarts /\ starts' = starts + 1
         /\ \/ day > 1 /\ th' = [Down EXCEPT !.pc = "exits"]
            \/ th' = Idle
         /\ UNCHANGED <<day, row, done, adv>>
Stop == /\ th.pc # "down" /\ th' = Down /\ done' = FALSE
        /\ UNCHANGED <<day, row, starts, adv>>
\* _settle_once, inside its window.
Live == /\ th = Idle /\ ~done
        /\ th' = [pc |-> "exits", d |-> day, live |-> TRUE]
        /\ UNCHANGED <<day, row, done, starts, adv>>
\* run_day ends: a live day with a gap is tried again, a caught-up one is not.
DayEnds == /\ th.pc = "run"
           /\ \/ th.live /\ th' = Idle /\ UNCHANGED done
              \/ /\ done' = th.live
                 /\ th' = IF ~th.live /\ th.d + 1 < day
                          THEN [th EXCEPT !.pc = "exits", !.d = @ + 1]
                          ELSE [Down EXCEPT !.pc = "kb"]
           /\ UNCHANGED <<day, row, starts, adv>>

RegisterNext == \/ NewDay \/ Start \/ Live \/ AdvanceExits \/ AdvanceSignals \/ DayEnds
                \/ \E r \in Rows : RegisterTrade(r) \/ \E k \in Keys : RegisterKey(r, k)

-----------------------------------------------------------------------------
(* Properties.                                                             *)

RegisterTypeOK ==
    /\ day \in Days /\ starts \in 0..MaxStarts /\ done \in BOOLEAN
    /\ row \in [Rows -> [kind : Kinds, reg : 0..MaxDay, key : Keys \cup {NoKey}, trial : BOOLEAN,
                         ref : 0..MaxDay, last : 0..MaxDay, sess : 0..MaxDay, seen : 0..MaxDay,
                         end : 0..MaxDay, stale : BOOLEAN]]
    /\ th \in [pc : {"down", "idle", "exits", "signals", "run", "kb"}, d : Days, live : BOOLEAN]
    /\ adv \in [Rows -> Seq(Days)]

\* The forward window of a row (settle_due, settle_exits) is counted on distinct
\* days after its registration, each once and in order, whatever days are retried,
\* skipped and caught up: sessions_done is their number, the row is settled on the
\* N-th of them and not before, and a settlement with the close of another day is
\* marked stale_close.
WindowIsForward ==
    \A r \in Rows : LET w == row[r]  n == Len(adv[r]) IN
        /\ w.sess = n /\ n <= N
        /\ \A i \in 1..n : adv[r][i] > w.reg /\ (i < n => adv[r][i] < adv[r][i + 1])
        /\ w.end = (IF n = N THEN adv[r][n] ELSE 0)
        /\ w.end > 0 => w.ref > 0 /\ w.stale = (w.last # w.end)

\* A price once taken as the base stays the base, and a settled row is never
\* written again (the settle_due and settle_exits filters on open rows).
ResultsStand == [][\A r \in Rows : /\ row[r].end > 0 => row'[r] = row[r]
                                   /\ row[r].ref > 0 => row'[r].ref = row[r].ref]_registerVars

\* The window ends on the N-th trading day after the registration.  It does not when
\* a day was skipped before a later one was advanced: last_seen refuses the day when
\* the catch-up comes to it.
EndsOnTheNthDay == \A r \in Rows : row[r].end > 0 => row[r].end = row[r].reg + N

\* The return is measured from the close of the registration day.  It is not when
\* two signals of one symbol wait for their base: _signal_base_prices keeps one
\* price a symbol.
BaseIsRegistration == \A r \in Rows : row[r].ref \in {0, row[r].reg}
=============================================================================
