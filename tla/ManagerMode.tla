---------------------------- MODULE ManagerMode ----------------------------
(***************************************************************************)
(* The manager agent's autonomous mode (core/manager.py) and its           *)
(* heartbeat, the periodic health check, which is itself a deferrable task *)
(* of the queue that the mode makes wait (run_deferrable, core/tasks.py).  *)
(*                                                                         *)
(* A task is only a number here: the llm-heavy tasks more urgent than the  *)
(* health check (summaries, cards), and the health checks.  TaskQueue has  *)
(* the rows.  The counters saturate at their thresholds, which is all they *)
(* are compared with.                                                      *)
(***************************************************************************)
EXTENDS Integers, FiniteSets, Functions

CONSTANTS Limit,         \* rows of one claim
          DegradeAfter,  \* DEGRADE_AFTER_FAILURES
          RecoverAfter,  \* RECOVER_AFTER_SUCCESSES
          Threads,       \* "tick" and the routes
          MaxHeavy,      \* llm-heavy tasks owed at a time
          MaxChecks      \* health checks waiting at a time

ASSUME ThresholdsAssumption == {Limit, DegradeAfter, RecoverAfter} \subseteq Nat \ {0}
ASSUME CapsAssumption == MaxHeavy \in Nat /\ MaxChecks \in Nat
ASSUME ThreadsAssumption == "tick" \in Threads /\ IsFiniteSet(Threads)

VARIABLES mode, fails, succs, resume,  \* the manager_state row
          llm,      \* whether the provider answers
          heavy,    \* pending llm-heavy tasks
          checks,   \* pending health checks
          owed,     \* llm-heavy tasks enqueued and not yet executed
          pc, work,  \* each thread's place and the rows it has claimed
          snap,     \* the row as the thread's record_health read it, and the outcome
          sent,     \* whether a message with a failed check's text exists
          told      \* whether the last degradation sent a message

row == <<mode, fails, succs, resume>>
news == <<sent, told>>
managerVars == <<row, llm, heavy, checks, owed, pc, work, snap, news>>

Least(a, b) == IF a < b THEN a ELSE b
NoWork == [heavy |-> 0, checks |-> 0]
NoSnap == [mode |-> "active", fails |-> 0, succs |-> 0, ok |-> TRUE]

ManagerInit == /\ mode = "active" /\ fails = 0 /\ succs = 0 /\ resume = 0
               /\ llm = TRUE
               /\ heavy = 0 /\ checks = 0 /\ owed = 0
               /\ pc = [th \in Threads |-> "free"]
               /\ work = [th \in Threads |-> NoWork]
               /\ snap = [th \in Threads |-> NoSnap]
               /\ sent = FALSE /\ told = TRUE

-----------------------------------------------------------------------------
(* The world: the provider fails and heals, work arrives.                  *)
LlmFlip == /\ llm' = ~llm
           /\ UNCHANGED <<row, heavy, checks, owed, pc, work, snap, news>>
EnqueueHeavy == /\ owed < MaxHeavy
                /\ heavy' = heavy + 1 /\ owed' = owed + 1
                /\ UNCHANGED <<row, llm, checks, pc, work, snap, news>>
\* ensure_health_task: one per half hour, each with a key of its own.
EnsureHealth == /\ checks < MaxChecks
                /\ checks' = checks + 1
                /\ UNCHANGED <<row, llm, heavy, owed, pc, work, snap, news>>

-----------------------------------------------------------------------------
(* run_deferrable by a thread.                                             *)

\* claim_due: heavy tasks first, the health checks with what is left of Limit;
\* the tick only claims while no row is running.
Claim(th) ==
    LET h == Least(heavy, Limit)
        c == Least(checks, Limit - h)
    IN  /\ pc[th] = "free" /\ h + c > 0
        /\ th = "tick" => \A other \in Threads : work[other] = NoWork
        /\ heavy' = heavy - h /\ checks' = checks - c
        /\ work' = [work EXCEPT ![th] = [heavy |-> h, checks |-> c]]
        /\ pc' = [pc EXCEPT ![th] = "claimed"]
        /\ UNCHANGED <<row, llm, owed, snap, news>>

\* is_degraded, once for the batch: in autonomous mode the heavy rows go back.
ReadModeMutAlways(th) ==
    /\ pc[th] = "claimed"
    /\ pc' = [pc EXCEPT ![th] = "run"]
    /\ heavy' = heavy + work[th].heavy
    /\ work' = [work EXCEPT ![th].heavy = 0]
    /\ UNCHANGED <<row, llm, checks, owed, snap, news>>
ReadModeMutDrop(th) ==
    /\ pc[th] = "claimed"
    /\ pc' = [pc EXCEPT ![th] = "run"]
    /\ work' = [work EXCEPT ![th].heavy = IF mode = "autonomous" THEN 0 ELSE @]
    /\ UNCHANGED <<row, llm, heavy, checks, owed, snap, news>>
ReadMode(th) ==
    /\ pc[th] = "claimed"
    /\ pc' = [pc EXCEPT ![th] = "run"]
    /\ IF mode = "autonomous"
       THEN /\ heavy' = heavy + work[th].heavy
            /\ work' = [work EXCEPT ![th].heavy = 0]
       ELSE UNCHANGED <<heavy, work>>
    /\ UNCHANGED <<row, llm, checks, owed, snap, news>>

RunHeavy(th) == /\ pc[th] = "run" /\ work[th].heavy > 0
                /\ work' = [work EXCEPT ![th].heavy = @ - 1]
                /\ owed' = owed - 1
                /\ UNCHANGED <<row, llm, heavy, checks, pc, snap, news>>

\* health_check pings the provider, record_health reads the row ...
Ping(th) == /\ pc[th] = "run" /\ work[th].heavy = 0 /\ work[th].checks > 0
            /\ snap' = [snap EXCEPT ![th] = [mode |-> mode, fails |-> fails,
                                             succs |-> succs, ok |-> llm]]
            /\ pc' = [pc EXCEPT ![th] = "record"]
            /\ UNCHANGED <<row, llm, heavy, checks, owed, work, news>>

\* ... and writes it back in a transaction of its own.  _notify sends nothing if
\* a message with the same text is there: the text of a failed check is always
\* the same, that of a failed resume call names the task.
RecordOkMutNeedsActive(s) ==
    /\ succs' = Least(s.succs + 1, RecoverAfter) /\ fails' = 0
    /\ UNCHANGED <<mode, resume, news>>
RecordOk(s) ==
    LET n == Least(s.succs + 1, RecoverAfter) IN
    /\ succs' = n /\ fails' = 0
    /\ IF s.mode = "autonomous" /\ n >= RecoverAfter
       THEN mode' = "active" /\ resume' = 0
       ELSE UNCHANGED <<mode, resume>>
    /\ UNCHANGED news
RecordFailure(s) ==
    LET n == Least(s.fails + 1, DegradeAfter) IN
    /\ fails' = n /\ succs' = 0
    /\ IF s.mode = "active" /\ n >= DegradeAfter
       THEN /\ mode' = "autonomous" /\ sent' = TRUE
            /\ told' = IF mode = "active" THEN ~sent ELSE told
       ELSE UNCHANGED <<mode, news>>
    /\ UNCHANGED resume
Record(th) == /\ pc[th] = "record"
              /\ IF snap[th].ok THEN RecordOk(snap[th]) ELSE RecordFailure(snap[th])
              /\ snap' = [snap EXCEPT ![th] = NoSnap]
              /\ work' = [work EXCEPT ![th].checks = @ - 1]
              /\ pc' = [pc EXCEPT ![th] = "run"]
              /\ UNCHANGED <<llm, heavy, checks, owed>>

Rest(th) == /\ pc[th] = "run" /\ work[th] = NoWork
            /\ pc' = [pc EXCEPT ![th] = "free"]
            /\ UNCHANGED <<row, llm, heavy, checks, owed, work, snap, news>>

\* record_resume_call, from the tick's scan of the interrupted tasks, before its
\* batch: DegradeAfter failures in a row degrade too.
ResumeCall ==
    /\ pc["tick"] = "free"
    /\ \/ resume' = 0 /\ UNCHANGED <<mode, told>>
       \/ /\ resume' = Least(resume + 1, DegradeAfter)
          /\ IF mode = "active" /\ resume + 1 >= DegradeAfter
             THEN mode' = "autonomous" /\ told' = TRUE
             ELSE UNCHANGED <<mode, told>>
    /\ UNCHANGED <<fails, succs, llm, heavy, checks, owed, pc, work, snap, sent>>

-----------------------------------------------------------------------------
Work(th) == ReadMode(th) \/ RunHeavy(th) \/ Ping(th) \/ Record(th) \/ Rest(th)

ManagerNext == \/ LlmFlip \/ EnqueueHeavy \/ EnsureHealth \/ ResumeCall
               \/ \E th \in Threads : Claim(th) \/ Work(th)

\* The tick comes back every minute and buckets follow each other; a thread that
\* has claimed goes on to the end.  Nothing makes a user press "run".
Fairness == /\ WF_managerVars(EnsureHealth) /\ WF_managerVars(Claim("tick"))
            /\ \A th \in Threads : WF_managerVars(Work(th))

ManagerSpec == ManagerInit /\ [][ManagerNext]_managerVars /\ Fairness

-----------------------------------------------------------------------------
InHand == SumFunction([th \in Threads |-> work[th].heavy])

ManagerTypeOK ==
    /\ mode \in {"active", "autonomous"} /\ llm \in BOOLEAN
    /\ fails \in 0..DegradeAfter /\ succs \in 0..RecoverAfter /\ resume \in 0..DegradeAfter
    /\ heavy \in 0..MaxHeavy /\ owed \in 0..MaxHeavy /\ checks \in 0..MaxChecks
    /\ pc \in [Threads -> {"free", "claimed", "run", "record"}]
    /\ work \in [Threads -> [heavy : 0..Limit, checks : 0..Limit]]
    /\ snap \in [Threads -> [mode : {"active", "autonomous"}, fails : 0..DegradeAfter,
                             succs : 0..RecoverAfter, ok : BOOLEAN]]
    /\ sent \in BOOLEAN /\ told \in BOOLEAN

\* BacklogIsKept (spec-04 9.1, "LLM duties are delayed, not dropped"): every
\* llm-heavy task not yet executed is pending or in a thread's hands, however
\* often it is claimed and put back.
BacklogIsKept == owed = heavy + InHand

\* RecoversOrStarves (spec-04 9.1; run_deferrable, tasks.py:431-442): once the provider
\* answers for good, the manager leaves autonomous mode, unless the llm-heavy tasks put
\* back fill a claim for ever and the health check behind them is never claimed.
RecoversOrStarves ==
    <>[]llm => [](mode = "autonomous" => <>(mode = "active") \/ <>[](owed >= Limit))

\* BacklogIsServed (spec-04 9.1, the backlog is made up after recovery): once the
\* provider answers for good and no degradation comes from elsewhere, what
\* autonomous mode put off gets executed.
BacklogIsServed == <>[](llm /\ mode = "active") => (owed = MaxHeavy ~> owed < MaxHeavy)

\* DegradationIsNotified (spec-04 9.1, "degradation and recovery events are pushed
\* to the user"): in autonomous mode the user has been told so.
DegradationIsNotified == mode = "autonomous" => told

\* RecoversWhenHealthy (spec-04 9.1): the same without the exception.  It does not hold
\* once as many llm-heavy tasks are owed as one claim takes, and no run asserts it.
RecoversWhenHealthy == <>[]llm => (mode = "autonomous" ~> mode = "active")

=============================================================================
