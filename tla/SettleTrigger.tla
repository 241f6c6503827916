--------------------------- MODULE SettleTrigger ---------------------------
(***************************************************************************)
(* What triggers the settlement of a day and what a day leaves behind:     *)
(* core/settle_scheduler.py (the thread of run_forever with catchup_missed *)
(* at the start), core/settle_day.py, the daily reports and their delivery *)
(* (core/reporting.py) and the absent reports of core/reconcile.py, which  *)
(* the scheduler's tick writes from another thread.                        *)
(*                                                                         *)
(* The settlement of one account is EodSettlement's; here it succeeds, is  *)
(* refused for want of data, or finds no work.  Every day is a trading day.*)
(***************************************************************************)
EXTENDS Integers, Sequences

CONSTANTS Accounts,    \* main accounts of running agents, granularity eod_replay
          Switched,    \* those the user pauses and resumes
          MaxDay, MaxRestarts, NoAccount

ASSUME BoundsAssumption == MaxDay \in Nat \ {0} /\ MaxRestarts \in Nat
ASSUME NoAccountAssumption == NoAccount \notin Accounts /\ Switched \subseteq Accounts

Days == 1..MaxDay

VARIABLES day, clock,  \* clock: before 15:35, in the window, after 16:35
          mode,        \* accounts.status
          orders,      \* the days of an account's active orders
          held,        \* whether it holds a security
          log,         \* settlement_log
          rep,         \* daily_reports, the status of each version
          chat,        \* delivered reports <<account, day, status>>
          th,          \* the settlement thread
          done, gaps,  \* _done_dates, _gap_accounts
          tick,        \* the absent report the scheduler's tick is writing
          restarts

env == <<day, clock>>
tables == <<mode, orders, held, log, rep, chat>>
triggerVars == <<env, tables, th, done, gaps, tick, restarts>>

\* pc; ctx, catch-up or live; d, the day at hand; until, the day of the start;
\* queue, accounts to settle or to fill; errs, those without a settlement;
\* a, the account whose report is being filled; dates, days to deliver.
Thread == [pc |-> "down", ctx |-> "live", d |-> 1, until |-> 1, queue |-> {}, errs |-> {},
           a |-> NoAccount, dates |-> {}]
NoTick == <<NoAccount, 1>>

TriggerInit == /\ day = 1 /\ clock = "before"
               /\ mode = [a \in Accounts |-> "normal"]
               /\ orders = [a \in Accounts |-> {}] /\ held = [a \in Accounts |-> FALSE]
               /\ log = [a \in Accounts |-> {}] /\ rep = [a \in Accounts |-> [d \in Days |-> <<>>]]
               /\ chat = {} /\ th = Thread /\ done = {} /\ gaps = [d \in Days |-> {}]
               /\ tick = NoTick /\ restarts = 0

Eligible == {a \in Accounts : mode[a] = "normal"}
HasWork(a, d) == d \in orders[a] \/ held[a]
PendingAny(d) == \E a \in Eligible : HasWork(a, d)

-----------------------------------------------------------------------------
(* The day and the user.                                                   *)

DayClock == /\ \/ clock = "before" /\ clock' = "window" /\ day' = day
               \/ clock = "window" /\ clock' = "after" /\ day' = day
               \/ clock = "after" /\ day < MaxDay /\ clock' = "before" /\ day' = day + 1
            /\ UNCHANGED <<tables, th, done, gaps, tick, restarts>>
PlaceOrder(a) == /\ mode[a] = "normal"
                 /\ orders' = [orders EXCEPT ![a] = @ \cup {day}]
                 /\ UNCHANGED <<env, mode, held, log, rep, chat, th, done, gaps, tick, restarts>>
\* control_agent: pause, resume
Switch(a) == /\ a \in Switched
             /\ mode' = [mode EXCEPT ![a] = IF @ = "normal" THEN "paused_buy" ELSE "normal"]
             /\ UNCHANGED <<env, orders, held, log, rep, chat, th, done, gaps, tick, restarts>>
\* control_all: all of them at once
SwitchAll(m) == /\ mode' = [a \in Accounts |-> IF a \in Switched THEN m ELSE mode[a]]
                /\ UNCHANGED <<env, orders, held, log, rep, chat, th, done, gaps, tick, restarts>>

-----------------------------------------------------------------------------
(* The daily reports.                                                      *)

\* fill_absent_report, second part: version 1, under UNIQUE(agent, date, version);
\* its error is logged.
InsertAbsentMutNextVersion(a, d) == rep' = [rep EXCEPT ![a][d] = Append(@, "absent")]
InsertAbsent(a, d) ==
    rep' = [rep EXCEPT ![a][d] = IF @ = <<>> THEN <<"absent">> ELSE @]

\* push_pending_report_deliveries: a first version without a later one.
Delivered(d) == {<<a, d, rep[a][d][1]>> : a \in {b \in Accounts : Len(rep[b][d]) = 1}}

\* expire_decision_tasks of the tick, for a report task of a day or a slot that
\* is over: the existence check, then the insert.
TickCheck(a, d) == /\ tick = NoTick /\ (d < day \/ (d = day /\ clock # "before"))
                   /\ rep[a][d] = <<>>
                   /\ tick' = <<a, d>>
                   /\ UNCHANGED <<env, tables, th, done, gaps, restarts>>
TickInsert == /\ tick # NoTick /\ InsertAbsent(tick[1], tick[2]) /\ tick' = NoTick
              /\ UNCHANGED <<env, mode, orders, held, log, chat, th, done, gaps, restarts>>

-----------------------------------------------------------------------------
(* Starting, and the catch-up of the days before today.                    *)

Start == /\ th.pc = "down"
         /\ th' = [Thread EXCEPT !.pc = "axis", !.ctx = "catchup", !.until = day]
         /\ UNCHANGED <<env, tables, done, gaps, tick, restarts>>
RestartThread == /\ restarts < MaxRestarts /\ restarts' = restarts + 1
                 /\ th' = Thread /\ done' = {} /\ gaps' = [d \in Days |-> {}] /\ tick' = NoTick
                 /\ UNCHANGED <<env, tables>>

\* The trading days of the look-back; without them the catch-up is skipped.
FetchAxis == /\ th.pc = "axis"
             /\ \E ok \in BOOLEAN : th' = IF ok THEN [th EXCEPT !.pc = "day"] ELSE [Thread EXCEPT !.pc = "tick"]
             /\ UNCHANGED <<env, tables, done, gaps, tick, restarts>>
CatchupDayMutShort ==
    /\ th.pc = "day"
    /\ th' = IF th.d + 1 < th.until
             THEN [th EXCEPT !.pc = "account", !.queue = Eligible, !.errs = {}]
             ELSE [Thread EXCEPT !.pc = "tick"]
    /\ UNCHANGED <<env, tables, done, gaps, tick, restarts>>
CatchupDay == /\ th.pc = "day"
              /\ th' = IF th.d < th.until
                       THEN [th EXCEPT !.pc = "account", !.queue = Eligible, !.errs = {}]
                       ELSE [Thread EXCEPT !.pc = "tick"]
              /\ UNCHANGED <<env, tables, done, gaps, tick, restarts>>

-----------------------------------------------------------------------------
(* run_day: one account after the other, of those eligible at its start.   *)

NoWork(a) == /\ th.pc = "account" /\ a \in th.queue /\ ~HasWork(a, th.d)
             /\ th' = [th EXCEPT !.queue = @ \ {a}]
             /\ UNCHANGED <<env, tables, done, gaps, tick, restarts>>
DataRefused(a) == /\ th.pc = "account" /\ a \in th.queue /\ HasWork(a, th.d)
                  /\ th' = [th EXCEPT !.queue = @ \ {a}, !.errs = @ \cup {a}]
                  /\ UNCHANGED <<env, tables, done, gaps, tick, restarts>>
\* One transaction with the report's next version; a settled day is left alone.
Settle(a) ==
    /\ th.pc = "account" /\ a \in th.queue /\ HasWork(a, th.d)
    /\ th' = [th EXCEPT !.queue = @ \ {a}]
    /\ IF th.d \in log[a] THEN UNCHANGED <<orders, held, log, rep>>
       ELSE /\ log' = [log EXCEPT ![a] = @ \cup {th.d}]
            /\ rep' = [rep EXCEPT ![a][th.d] = Append(@, "normal")]
            /\ orders' = [orders EXCEPT ![a] = @ \ {th.d}]
            /\ \E h \in BOOLEAN : held' = [held EXCEPT ![a] = h]
    /\ UNCHANGED <<env, mode, chat, done, gaps, tick, restarts>>

\* _fill_catchup_absent fills what is missing.
CatchupDayRun ==
    /\ th.pc = "account" /\ th.queue = {} /\ th.ctx = "catchup"
    /\ th' = [th EXCEPT !.pc = "fill", !.queue = th.errs, !.errs = {}]
    /\ UNCHANGED <<env, tables, done, gaps, tick, restarts>>
\* _record_gap_outcome keeps the gaps; the live run is tried again.
LiveDayRun ==
    /\ th.pc = "account" /\ th.queue = {} /\ th.ctx = "live"
    /\ th' = [Thread EXCEPT !.pc = "close", !.dates = {th.d}]
    /\ gaps' = [gaps EXCEPT ![th.d] = th.errs]
    /\ done' = IF th.errs = {} THEN done \cup {th.d} ELSE done
    /\ UNCHANGED <<env, tables, tick, restarts>>

\* fill_absent_report of catch-up and close_day_gaps, first part: the check.
FillCheck(a) == /\ th.pc = "fill" /\ a \in th.queue
                /\ th' = [th EXCEPT !.queue = @ \ {a},
                                    !.a = IF rep[a][th.d] = <<>> THEN a ELSE NoAccount,
                                    !.pc = IF rep[a][th.d] = <<>> THEN "insert" ELSE "fill"]
                /\ UNCHANGED <<env, tables, done, gaps, tick, restarts>>
FillInsert == /\ th.pc = "insert" /\ InsertAbsent(th.a, th.d)
              /\ th' = [th EXCEPT !.pc = "fill", !.a = NoAccount]
              /\ UNCHANGED <<env, mode, orders, held, log, chat, done, gaps, tick, restarts>>
Filled == /\ th.pc = "fill" /\ th.queue = {}
          /\ IF th.ctx = "catchup"
             THEN /\ th' = [th EXCEPT !.pc = "day", !.d = @ + 1]
                  /\ chat' = chat \cup Delivered(th.d)
                  /\ done' = done \cup {th.d} /\ UNCHANGED gaps
             ELSE /\ th' = [th EXCEPT !.pc = "close", !.d = 1, !.dates = @ \cup {th.d}]
                  /\ gaps' = [gaps EXCEPT ![th.d] = {}]
                  /\ UNCHANGED <<chat, done>>
          /\ UNCHANGED <<env, mode, orders, held, log, rep, tick, restarts>>

-----------------------------------------------------------------------------
(* One round of run_forever: settle_once, close_day_gaps, the deliveries.  *)

\* settle_once without a settlement: done, outside the window, or no quotes of
\* today.  The outcome has no errors and the day's gaps are dropped.
SettleOnceIdle ==
    /\ th.pc = "tick"
    /\ th' = [Thread EXCEPT !.pc = "close"]
    /\ gaps' = [gaps EXCEPT ![day] = {}]
    /\ UNCHANGED <<env, tables, done, tick, restarts>>
\* Trackings, signals or a validation window advance; the day is done.
SettleOnceTracking ==
    /\ th.pc = "tick" /\ clock = "window" /\ day \notin done /\ ~PendingAny(day)
    /\ th' = [Thread EXCEPT !.pc = "close"]
    /\ gaps' = [gaps EXCEPT ![day] = {}] /\ done' = done \cup {day}
    /\ UNCHANGED <<env, tables, tick, restarts>>
SettleOnceRun ==
    /\ th.pc = "tick" /\ clock = "window" /\ day \notin done /\ PendingAny(day)
    /\ th' = [Thread EXCEPT !.pc = "account", !.d = day, !.queue = Eligible]
    /\ UNCHANGED <<env, tables, done, gaps, tick, restarts>>

\* close_day_gaps: the gaps of an earlier day, or of today after the window.
Closable(d) == gaps[d] # {} /\ (d # day \/ clock = "after")
CloseDay(d) == /\ th.pc = "close" /\ Closable(d)
               /\ th' = [th EXCEPT !.pc = "fill", !.d = d, !.queue = gaps[d]]
               /\ UNCHANGED <<env, tables, done, gaps, tick, restarts>>
Push == /\ th.pc = "close" /\ \A d \in Days : ~Closable(d)
        /\ chat' = chat \cup UNION {Delivered(d) : d \in th.dates}
        /\ th' = [Thread EXCEPT !.pc = "tick"]
        /\ UNCHANGED <<env, mode, orders, held, log, rep, done, gaps, tick, restarts>>

-----------------------------------------------------------------------------
Step == \/ FetchAxis \/ CatchupDay \/ CatchupDayRun \/ LiveDayRun \/ FillInsert \/ Filled
        \/ \E a \in Accounts : NoWork(a) \/ DataRefused(a) \/ Settle(a) \/ FillCheck(a)
        \/ SettleOnceIdle \/ SettleOnceTracking \/ SettleOnceRun
        \/ \E d \in Days : CloseDay(d)
        \/ Push
TriggerNext == \/ DayClock \/ \E a \in Accounts : PlaceOrder(a) \/ Switch(a)
               \/ \E m \in {"normal", "paused_buy"} : SwitchAll(m)
               \/ \E a \in Accounts, d \in Days : TickCheck(a, d)
               \/ TickInsert \/ Start \/ RestartThread \/ Step
\* The thread runs; nothing else is assumed.
TriggerSpec == TriggerInit /\ [][TriggerNext]_triggerVars /\ WF_triggerVars(Step)

-----------------------------------------------------------------------------
TriggerTypeOK ==
    /\ day \in Days /\ clock \in {"before", "window", "after"}
    /\ mode \in [Accounts -> {"normal", "paused_buy"}]
    /\ orders \in [Accounts -> SUBSET Days] /\ held \in [Accounts -> BOOLEAN]
    /\ log \in [Accounts -> SUBSET Days]
    /\ chat \subseteq Accounts \X Days \X {"normal", "absent"}
    /\ th \in [pc : {"down", "axis", "day", "account", "fill", "insert", "tick", "close"},
               ctx : {"catchup", "live"}, d : Days, until : Days, queue : SUBSET Accounts,
               errs : SUBSET Accounts, a : Accounts \cup {NoAccount}, dates : SUBSET Days]
    /\ done \subseteq Days /\ gaps \in [Days -> SUBSET Accounts]
    /\ tick \in (Accounts \cup {NoAccount}) \X Days /\ restarts \in 0..MaxRestarts
    /\ (th.pc = "insert" => th.a # NoAccount)

\* The reports of a day tell its settlement: one normal report when the day is
\* settled and none otherwise, with at most one absent report, before it.  Two
\* threads write absent reports after a check of their own, settlements run
\* again after a crash (reporting.py:339-414); and the chat shows one report,
\* the first version.
ReportsTellTheSettlement == \A a \in Accounts, d \in Days :
    /\ rep[a][d] \in IF d \in log[a] THEN {<<"normal">>, <<"absent", "normal">>}
                                     ELSE {<<>>, <<"absent">>}
    /\ \A s \in {"normal", "absent"} : <<a, d, s>> \in chat => rep[a][d] # <<>> /\ s = rep[a][d][1]

\* A start makes up for what was missed: once the trading days are known, the
\* day of an order left over from before the start is settled or reported
\* absent, unless the program stops again, the account is paused or the order
\* is gone (catchup_missed, settle_scheduler.py:345-398).
CatchupServes == \A a \in Accounts, d \in Days :
    (th.pc = "day" /\ th.d <= d /\ d < th.until /\ d \in orders[a] /\ mode[a] = "normal")
        ~> (rep[a][d] # <<>> \/ th.pc = "down" \/ mode[a] # "normal")

\* A gap of the day ends with a settlement, a retry in the window or a report:
\* "once the window is closed, an account without a report gets an absent one"
\* (settle_scheduler.py:414-423, test_settle_scheduler.py:320-338).
GapsAreClosed == [][\A a \in Accounts, d \in Days :
    a \in gaps[d] /\ a \notin gaps'[d] =>
        rep[a][d] # <<>> \/ th.pc = "account" \/ th'.pc = "down"
        \/ (clock = "window" /\ d = day)]_triggerVars
=============================================================================
