----------------------------- MODULE TaskQueue -----------------------------
(***************************************************************************)
(* The task table and the threads that work on it (core/tasks.py, the tick *)
(* of core/scheduler.py), with the approval a suspended task waits for     *)
(* (core/approval.py).  Two threads execute tasks: the scheduler's tick    *)
(* and a user's POST /tasks/run.  Each statement of theirs is a step of    *)
(* its own: a SELECT outside the write transaction, a row's UPDATE, the    *)
(* start and the end of a handler.                                         *)
(*                                                                         *)
(* Time is counted in units of the 30 minutes after which both a heartbeat *)
(* and an approval wait are overdue.  A handler may take any time.         *)
(***************************************************************************)
EXTENDS Integers, SequencesExt

CONSTANTS Tasks,      \* the tasks, all of them deferrable
          Heavy,      \* the llm-heavy ones, which make way in autonomous mode
          Asking,     \* those that wait for an approval
          Priority,   \* claims go by priority, then by creation
          Limit,      \* rows of one claim
          Threads,    \* "tick" and the routes
          MaxTime,
          None        \* no task

ASSUME HeavyAssumption == Heavy \subseteq Tasks /\ Asking \subseteq Tasks
ASSUME LimitAssumption == Limit \in Nat \ {0}
ASSUME ThreadsAssumption == "tick" \in Threads
ASSUME NoneAssumption == None \notin Tasks

VARIABLES now,
          status,     \* task_schedule.status, "absent" before the row exists
          beat,       \* heartbeat_ts, the time of the claim
          since,      \* interrupt_entered_ts, or Never
          appr,       \* approval_requests.status of the task's approval
          deciding,   \* approvals a decision request has read as pending
          pc,         \* where each thread is
          batch,      \* what it claimed and has not started
          current,    \* the task whose handler it is running, or None
          tickNow,    \* the time the tick works with
          victims,    \* rows the tick's SELECT returned and its loop has not reached
          closing     \* the row whose approval it has just closed, or None

rows == <<status, beat, since>>
vars == <<now, rows, appr, deciding, pc, batch, current, tickNow, victims, closing>>

Never == MaxTime + 1
\* "recovered" is status failed with the last_error of recover_crashed.
Ended == {"done", "failed", "recovered", "partial"}

Running == {t \in Tasks : status[t] = "running"}
Pending == {t \in Tasks : status[t] = "pending"}
Hand(th) == ToSet(batch[th]) \cup ({current[th]} \ {None})

Init == /\ now = 0
        /\ status = [t \in Tasks |-> "absent"]
        /\ beat = [t \in Tasks |-> 0] /\ since = [t \in Tasks |-> Never]
        /\ appr = [t \in Tasks |-> "none"] /\ deciding = {}
        /\ pc = [th \in Threads |-> "free"]
        /\ batch = [th \in Threads |-> <<>>] /\ current = [th \in Threads |-> None]
        /\ tickNow = 0 /\ victims = {} /\ closing = None

-----------------------------------------------------------------------------
Clock == /\ now < MaxTime /\ now' = now + 1
         /\ UNCHANGED <<rows, appr, deciding, pc, batch, current, tickNow, victims, closing>>

\* enqueue is idempotent: a row of any status, a failed one too, blocks its dedup key
\* for good.
Enqueue(t) == /\ status[t] = "absent"
              /\ status' = [status EXCEPT ![t] = "pending"]
              /\ UNCHANGED <<now, beat, since, appr, deciding, pc, batch, current, tickNow, victims, closing>>

-----------------------------------------------------------------------------
(* Claiming and running a batch.                                           *)

\* The Limit first of the rows S, priority before age; rows of one priority in any order.
FirstOnes(S) == {ids \in SeqOf(S, Limit) :
    /\ Len(ids) = Limit \/ ToSet(ids) = S
    /\ \A i, j \in DOMAIN ids : i < j => ids[i] # ids[j] /\ Priority[ids[i]] <= Priority[ids[j]]
    /\ \A i \in DOMAIN ids, t \in S \ ToSet(ids) : Priority[ids[i]] <= Priority[t]}

\* claim_due: the SELECT and the UPDATEs are one write transaction.
Claim(th, time, next) == \E ids \in FirstOnes(Pending) :
    /\ status' = [t \in Tasks |-> IF t \in ToSet(ids) THEN "running" ELSE status[t]]
    /\ beat' = [t \in Tasks |-> IF t \in ToSet(ids) THEN time ELSE beat[t]]
    /\ batch' = [batch EXCEPT ![th] = ids]
    /\ pc' = [pc EXCEPT ![th] = next]
    /\ UNCHANGED since

RouteRun(th) == /\ th # "tick" /\ pc[th] = "free"
                /\ Claim(th, now, "claimed")
                /\ UNCHANGED <<now, appr, deciding, current, tickNow, victims, closing>>

\* is_degraded is read once, after the claim, for the whole batch.
ReadMode(th) == /\ pc[th] = "claimed"
                /\ \E degraded \in BOOLEAN : pc' = [pc EXCEPT ![th] = IF degraded THEN "defer" ELSE "run"]
                /\ UNCHANGED <<now, rows, appr, deciding, batch, current, tickNow, victims, closing>>

\* requeue: one heavy row back to pending, unless it is no longer running.
Defer(th) ==
    /\ pc[th] = "defer"
    /\ \E i \in DOMAIN batch[th] : LET t == batch[th][i] IN
         /\ t \in Heavy
         /\ batch' = [batch EXCEPT ![th] = RemoveAt(@, i)]
         /\ status' = [status EXCEPT ![t] = IF @ = "running" THEN "pending" ELSE @]
    /\ UNCHANGED <<now, beat, since, appr, deciding, pc, current, tickNow, victims, closing>>
Deferred(th) == /\ pc[th] = "defer" /\ ToSet(batch[th]) \cap Heavy = {}
                /\ pc' = [pc EXCEPT ![th] = "run"]
                /\ UNCHANGED <<now, rows, appr, deciding, batch, current, tickNow, victims, closing>>

\* _dispatch calls the handler without looking at the row again.
StartTask(th) ==
    /\ pc[th] = "run" /\ current[th] = None /\ batch[th] # <<>>
    /\ current' = [current EXCEPT ![th] = Head(batch[th])]
    /\ batch' = [batch EXCEPT ![th] = Tail(@)]
    /\ UNCHANGED <<now, rows, appr, deciding, pc, tickNow, victims, closing>>

\* finish writes the outcome whatever the row says by now.
FinishTask(th) ==
    /\ current[th] # None
    /\ \E final \in {"done", "failed"} : status' = [status EXCEPT ![current[th]] = final]
    /\ current' = [current EXCEPT ![th] = None]
    /\ UNCHANGED <<now, beat, since, appr, deciding, pc, batch, tickNow, victims, closing>>

EndBatch(th) == /\ pc[th] = "run" /\ current[th] = None /\ batch[th] = <<>>
                /\ pc' = [pc EXCEPT ![th] = "free"]
                /\ UNCHANGED <<now, rows, appr, deciding, batch, current, tickNow, victims, closing>>

-----------------------------------------------------------------------------
(* The tick: recover_crashed, then scan_interrupt_timeouts, then the batch. *)

Overdue(t, ts) == ts[t] + 1 <= tickNow'

\* The SELECT of recover_crashed; the tick keeps the time it began at.
TickBegin == /\ pc["tick"] = "free"
             /\ tickNow' = now
             /\ victims' = {t \in Running : Overdue(t, beat)}
             /\ pc' = [pc EXCEPT !["tick"] = "recover"]
             /\ UNCHANGED <<now, rows, appr, deciding, batch, current, closing>>

RecoverRowMutPending ==
    /\ pc["tick"] = "recover"
    /\ \E t \in victims :
         /\ victims' = victims \ {t}
         /\ status' = [status EXCEPT ![t] = IF @ = "running" THEN "pending" ELSE @]
    /\ UNCHANGED <<now, beat, since, appr, deciding, pc, batch, current, tickNow, closing>>
\* Mutant: the UPDATE of _recover without its AND status='running'.
RecoverRowMutBlind ==
    /\ pc["tick"] = "recover"
    /\ \E t \in victims :
         /\ victims' = victims \ {t}
         /\ status' = [status EXCEPT ![t] = "recovered"]
    /\ UNCHANGED <<now, beat, since, appr, deciding, pc, batch, current, tickNow, closing>>
RecoverRow ==
    /\ pc["tick"] = "recover"
    /\ \E t \in victims :
         /\ victims' = victims \ {t}
         /\ status' = [status EXCEPT ![t] = IF @ = "running" THEN "recovered" ELSE @]
    /\ UNCHANGED <<now, beat, since, appr, deciding, pc, batch, current, tickNow, closing>>

\* The SELECT of scan_interrupt_timeouts.
TickScan == /\ pc["tick"] = "recover" /\ victims = {}
            /\ victims' = {t \in Running : since[t] + 1 <= tickNow}
            /\ pc' = [pc EXCEPT !["tick"] = "scan"]
            /\ UNCHANGED <<now, rows, appr, deciding, batch, current, tickNow, closing>>

\* close_for_interrupt expires the approval if it is still pending; then the
\* task ends as partial if it is still running.
CloseApproval(t) ==
    /\ pc["tick"] = "scan" /\ closing = None /\ t \in victims
    /\ closing' = t /\ victims' = victims \ {t}
    /\ appr' = [appr EXCEPT ![t] = IF @ = "pending" THEN "expired" ELSE @]
    /\ UNCHANGED <<now, rows, deciding, pc, batch, current, tickNow>>
EndWait ==
    /\ closing # None /\ closing' = None
    /\ IF status[closing] = "running" /\ since[closing] # Never
       THEN /\ status' = [status EXCEPT ![closing] = "partial"]
            /\ since' = [since EXCEPT ![closing] = Never]
       ELSE UNCHANGED <<status, since>>
    /\ UNCHANGED <<now, beat, appr, deciding, pc, batch, current, tickNow, victims>>

\* idle_window counts the running rows; the claim that follows does not look again.
TickIdle == /\ pc["tick"] = "scan" /\ victims = {} /\ closing = None /\ Running = {}
            /\ pc' = [pc EXCEPT !["tick"] = "idle"]
            /\ UNCHANGED <<now, rows, appr, deciding, batch, current, tickNow, victims, closing>>
TickRun == /\ pc["tick"] = "idle"
           /\ Claim("tick", now, "claimed")
           /\ UNCHANGED <<now, appr, deciding, current, tickNow, victims, closing>>
\* Otherwise a row runs, the market is open or the machine is short of resources.
TickBusy == /\ pc["tick"] = "scan" /\ victims = {} /\ closing = None
            /\ pc' = [pc EXCEPT !["tick"] = "free"]
            /\ UNCHANGED <<now, rows, appr, deciding, batch, current, tickNow, victims, closing>>

-----------------------------------------------------------------------------
\* submit_approval: the approval of what the task proposes.
Submit(t) == /\ t \in Asking /\ status[t] # "absent" /\ appr[t] = "none"
             /\ appr' = [appr EXCEPT ![t] = "pending"]
             /\ UNCHANGED <<now, rows, deciding, pc, batch, current, tickNow, victims, closing>>

\* enter_interrupt (POST /tasks/{id}/interrupt): the first one counts, in
\* whatever status the row is.
EnterInterrupt(t) ==
    /\ status[t] # "absent" /\ appr[t] # "none" /\ since[t] = Never
    /\ since' = [since EXCEPT ![t] = now]
    /\ UNCHANGED <<now, status, beat, appr, deciding, pc, batch, current, tickNow, victims, closing>>

\* decide_approval reads the status outside its write transaction and updates by
\* id alone.
DecideRead(t) == /\ appr[t] = "pending" /\ t \notin deciding
                 /\ deciding' = deciding \cup {t}
                 /\ UNCHANGED <<now, rows, appr, pc, batch, current, tickNow, victims, closing>>
DecideWrite(t) == /\ t \in deciding
                  /\ deciding' = deciding \ {t}
                  /\ appr' = [appr EXCEPT ![t] = "approved"]
                  /\ UNCHANGED <<now, rows, pc, batch, current, tickNow, victims, closing>>

\* The process dies and starts again: recover_on_startup fails whatever runs.
RestartMutNoRecovery ==
    /\ pc' = [th \in Threads |-> "free"]
    /\ batch' = [th \in Threads |-> <<>>] /\ current' = [th \in Threads |-> None]
    /\ victims' = {} /\ deciding' = {} /\ closing' = None
    /\ UNCHANGED <<now, rows, appr, tickNow>>
Restart == /\ status' = [t \in Tasks |-> IF t \in Running THEN "failed" ELSE status[t]]
           /\ pc' = [th \in Threads |-> "free"]
           /\ batch' = [th \in Threads |-> <<>>] /\ current' = [th \in Threads |-> None]
           /\ victims' = {} /\ deciding' = {} /\ closing' = None
           /\ UNCHANGED <<now, beat, since, appr, tickNow>>

Next == \/ Clock \/ TickBegin \/ RecoverRow \/ TickScan \/ TickIdle \/ TickRun \/ TickBusy \/ EndWait \/ Restart
        \/ \E th \in Threads : \/ RouteRun(th) \/ ReadMode(th) \/ Defer(th) \/ Deferred(th)
                               \/ StartTask(th) \/ FinishTask(th) \/ EndBatch(th)
        \/ \E t \in Tasks : Enqueue(t) \/ CloseApproval(t) \/ Submit(t) \/ EnterInterrupt(t)
                          \/ DecideRead(t) \/ DecideWrite(t)

Spec == Init /\ [][Next]_vars

-----------------------------------------------------------------------------
TypeOK ==
    /\ now \in 0..MaxTime /\ tickNow \in 0..MaxTime
    /\ status \in [Tasks -> {"absent", "pending", "running"} \cup Ended]
    /\ beat \in [Tasks -> 0..MaxTime] /\ since \in [Tasks -> 0..Never]
    /\ appr \in [Tasks -> {"none", "pending", "approved", "expired"}]
    /\ deciding \subseteq {t \in Tasks : appr[t] # "none"}
    /\ pc \in [Threads -> {"free", "claimed", "defer", "run", "recover", "scan", "idle"}]
    /\ batch \in [Threads -> Seq(Tasks)] /\ current \in [Threads -> Tasks \cup {None}]
    /\ victims \subseteq Tasks /\ closing \in Tasks \cup {None}

\* OneRunner (claim_due, "no double delivery"): no task is in the hands of two
\* threads, although a slow one may meanwhile be declared crashed.
OneRunner == \A th, other \in Threads : th # other => Hand(th) \cap Hand(other) = {}

\* What a step leaves of a task that is done.
LeavesDone == \A t \in Tasks : status[t] = "done" =>
    status'[t] = "done" /\ \A th \in Threads : current'[th] # t
\* DoneIsFinal (_recover, requeue and scan_interrupt_timeouts write running rows only):
\* a task that is done stays done, whatever a thread read of it before, and no thread
\* that may still have it in a batch starts its handler once more.
DoneIsFinal == [][LeavesDone]_vars

\* NoOrphan (recover_on_startup): a running row is in the hands of a thread, so
\* nothing stays running for ever after a crash.
NoOrphan == \A t \in Running : \E th \in Threads : t \in Hand(th)

\* LateDecisionHasNoEffect (spec-04 3.3: when the wait times out the approval is
\* closed, and a late decision only leaves a trace): no request finds an approval
\* pending after the tick has given up the task whose wait for it was overdue.
GivenUp(t) == status[t] \in {"recovered", "partial"} /\ since[t] + 1 <= tickNow
LateDecisionHasNoEffect == [][\A t \in deciding' \ deciding : ~GivenUp(t)]_vars

\* FailedCanRunAgain (tasks.py:303, :312, :331 and spec-04 2.3: a row that failed with a
\* crash "can be run again"): it can be queued again.  It does not hold: enqueue
\* ignores a key it has seen and nothing else sets a row to pending.
FailedCanRunAgain ==
    \A t \in Tasks : status[t] \in {"failed", "recovered"} => ENABLED Enqueue(t)

=============================================================================
