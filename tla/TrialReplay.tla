---------------------------- MODULE TrialReplay ----------------------------
(***************************************************************************)
(* The trial of a strategy agent: opened with a trial account and a replay *)
(* record, replayed by the settlement thread over the latest trading days  *)
(* (run_trial_backfill, core/settle_scheduler.py; settle_day in its replay *)
(* mode), and accepted or refused by the user, which archives the account  *)
(* as evidence (core/accountstore.py).  The routes run beside the thread.  *)
(*                                                                         *)
(* Every day is a trading day; a settlement is EodSettlement's, and here   *)
(* succeeds or is refused.  The report on a refused agent is left out.     *)
(***************************************************************************)
EXTENDS Integers, FiniteSets

CONSTANTS Agents, Nobody,
          Window,     \* window_days
          FirstDay,   \* the look-back reaches this many days when all begins
          LastDay, MaxRestarts

ASSUME TrialWindowAssumption == Window \in Nat \ {0}
ASSUME DaysAssumption == FirstDay \in Nat /\ LastDay \in Nat /\ MaxRestarts \in Nat
                         /\ Window < FirstDay /\ FirstDay <= LastDay
ASSUME NobodyAssumption == Nobody \notin Agents

Days == 1..LastDay

VARIABLES day,
          agent,      \* agents.status
          acct,       \* the trial account's status
          ordered,    \* the days on which the trial account placed an order
          active,     \* those whose order is still to be settled
          held,       \* whether it holds a security
          log,        \* settlement_log of the trial account
          replay,     \* trial_replays.status
          sess,       \* replay_sessions
          archive,    \* trial_archives
          th,         \* the settlement thread in run_trial_backfill
          restarts

book == <<ordered, active, held, log>>
status == <<agent, acct, archive>>
trialVars == <<day, status, book, replay, sess, th, restarts>>

\* a, d, the account and the day at hand; todo, the days picked and not yet done.
Idle == [pc |-> "next", a |-> Nobody, d |-> 1, todo |-> [a \in Agents |-> {}]]
NotArchived == [decision |-> "none", ordered |-> {}, log |-> {}, sess |-> {}]

TrialInit == /\ day = FirstDay
             /\ agent = [a \in Agents |-> "none"] /\ acct = [a \in Agents |-> "none"]
             /\ ordered = [a \in Agents |-> {}] /\ active = [a \in Agents |-> {}]
             /\ held = [a \in Agents |-> FALSE] /\ log = [a \in Agents |-> {}]
             /\ replay = [a \in Agents |-> "none"] /\ sess = [a \in Agents |-> {}]
             /\ archive = [a \in Agents |-> NotArchived]
             /\ th = Idle /\ restarts = 0

-----------------------------------------------------------------------------
(* The day, the user and the agent.                                        *)

TrialNewDay == /\ day < LastDay /\ day' = day + 1
               /\ UNCHANGED <<status, book, replay, sess, th, restarts>>

\* create_trial_agent: agent, main and trial account, replay record.
Create(a) == /\ agent[a] = "none"
             /\ agent' = [agent EXCEPT ![a] = "trial"]
             /\ acct' = [acct EXCEPT ![a] = "trial"]
             /\ replay' = [replay EXCEPT ![a] = "in_progress"]
             /\ UNCHANGED <<day, archive, book, sess, th, restarts>>

PlaceOrderMutAnyone(a) ==
    /\ agent[a] # "none"
    /\ ordered' = [ordered EXCEPT ![a] = @ \cup {day}]
    /\ active' = [active EXCEPT ![a] = @ \cup {day}]
    /\ UNCHANGED <<day, status, held, log, replay, sess, th, restarts>>
\* place_order on the trial account; an order bears the time it is placed.
PlaceOrder(a) == /\ agent[a] = "trial" /\ acct[a] = "trial"
                 /\ ordered' = [ordered EXCEPT ![a] = @ \cup {day}]
                 /\ active' = [active EXCEPT ![a] = @ \cup {day}]
                 /\ UNCHANGED <<day, status, held, log, replay, sess, th, restarts>>

\* The gates of a launch: the window is full, something was ordered, and no
\* session of a day with an order lacks its settlement.
Abnormal(a) == (sess[a] \cap ordered[a]) \ log[a]
MayLaunch(a) == replay[a] = "done" /\ ordered[a] # {} /\ Abnormal(a) = {}

\* trial_progress: the gates as the page shows them, the window counted in days.
Preview(a) == [window |-> replay[a] = "done" /\ Cardinality(sess[a]) >= Window,
               attempt |-> ordered[a] # {}, abnormal |-> Abnormal(a)]

\* finish_trial, one transaction.
Finish(a, decision) ==
    /\ agent[a] = "trial" /\ acct[a] = "trial"
    /\ decision = "launch" => MayLaunch(a)
    /\ agent' = [agent EXCEPT ![a] = IF decision = "launch" THEN "running" ELSE "archived"]
    /\ acct' = [acct EXCEPT ![a] = "archived"]
    /\ archive' = [archive EXCEPT ![a] = [decision |-> decision, ordered |-> ordered[a],
                                          log |-> log[a], sess |-> sess[a]]]
    /\ replay' = [replay EXCEPT ![a] = "done"]
    /\ UNCHANGED <<day, book, sess, th, restarts>>

-----------------------------------------------------------------------------
(* run_trial_backfill                                                      *)

OpenTrial(a) == agent[a] = "trial" /\ replay[a] = "in_progress"
Need(a) == Window - Cardinality(sess[a])
Latest(S, n) == {d \in S : Cardinality({e \in S : e > d}) < n}
IsFirst(d, S) == d \in S /\ \A e \in S : d <= e
PicksMutShort(a) == IF OpenTrial(a) THEN Latest((1..(day - 1)) \ sess[a], Need(a) - 1) ELSE {}
\* The latest missing days before today.
Picks(a) == IF OpenTrial(a) THEN Latest((1..(day - 1)) \ sess[a], Need(a)) ELSE {}

\* The rows are read once, for all agents.
Round == /\ th.pc = "next" /\ \A a \in Agents : th.todo[a] = {}
         /\ th' = [Idle EXCEPT !.todo = [a \in Agents |-> Picks(a)]]
         /\ th' # th
         /\ UNCHANGED <<day, status, book, replay, sess, restarts>>

HasWork(a, d) == d \in active[a] \/ held[a]
\* run_day reads whether the account may be replayed.  An account that may not,
\* or has no work that day, leaves an empty session.
BeginDay(a) == /\ th.pc = "next"
               /\ th.a \in Agents \ {a} => th.todo[th.a] = {}
               /\ \E d \in Days :
                     /\ IsFirst(d, th.todo[a])
                     /\ th' = [th EXCEPT !.a = a, !.d = d,
                                   !.pc = IF OpenTrial(a) /\ Need(a) > 0 THEN "settle" ELSE "count"]
               /\ UNCHANGED <<day, status, book, replay, sess, restarts>>

NextPick == [th EXCEPT !.pc = "next", !.d = 1, !.todo[th.a] = @ \ {th.d}]

\* One transaction, which does not look at the agent again; a settled day is
\* left alone.
Settle == /\ th.pc = "settle"
          /\ IF HasWork(th.a, th.d) /\ th.d \notin log[th.a]
             THEN /\ log' = [log EXCEPT ![th.a] = @ \cup {th.d}]
                  /\ active' = [active EXCEPT ![th.a] = @ \ {th.d}]
                  /\ \E h \in BOOLEAN : held' = [held EXCEPT ![th.a] = h]
             ELSE UNCHANGED <<log, active, held>>
          /\ th' = [th EXCEPT !.pc = "count"]
          /\ UNCHANGED <<day, status, ordered, replay, sess, restarts>>
DayFailsMutCounts == /\ th.pc = "settle" /\ HasWork(th.a, th.d)
                     /\ th' = [th EXCEPT !.pc = "count"]
                     /\ UNCHANGED <<day, status, book, replay, sess, restarts>>
\* Data missing or books that do not balance: no session.
DayFails == /\ th.pc = "settle" /\ HasWork(th.a, th.d)
            /\ th' = NextPick
            /\ UNCHANGED <<day, status, book, replay, sess, restarts>>

CountMutEarly ==
    /\ th.pc = "count"
    /\ IF OpenTrial(th.a)
       THEN /\ sess' = [sess EXCEPT ![th.a] = @ \cup {th.d}]
            /\ replay' = [replay EXCEPT ![th.a] =
                              IF Cardinality(sess[th.a] \cup {th.d}) + 1 >= Window
                              THEN "done" ELSE @]
            /\ th' = NextPick
       ELSE th' = Idle /\ UNCHANGED <<sess, replay>>
    /\ UNCHANGED <<day, status, book, restarts>>
\* add_trial_session; a trial decided meanwhile raises and ends the round.
CountSession == /\ th.pc = "count"
                /\ IF OpenTrial(th.a)
                   THEN /\ sess' = [sess EXCEPT ![th.a] = @ \cup {th.d}]
                        /\ replay' = [replay EXCEPT ![th.a] =
                                          IF Cardinality(sess[th.a] \cup {th.d}) >= Window
                                          THEN "done" ELSE @]
                        /\ th' = NextPick
                   ELSE th' = Idle /\ UNCHANGED <<sess, replay>>
                /\ UNCHANGED <<day, status, book, restarts>>

RestartReplay == /\ restarts < MaxRestarts /\ restarts' = restarts + 1 /\ th' = Idle
                 /\ UNCHANGED <<day, status, book, replay, sess>>

-----------------------------------------------------------------------------
Backfill == Round \/ (\E a \in Agents : BeginDay(a)) \/ Settle \/ DayFails \/ CountSession
TrialNext == \/ TrialNewDay \/ RestartReplay \/ Backfill
             \/ \E a \in Agents : \/ Create(a) \/ PlaceOrder(a)
                                  \/ \E d \in {"launch", "reject"} : Finish(a, d)
\* The thread runs, and an account tried again and again gets a day settled.
Fairness == /\ WF_trialVars(Backfill)
            /\ \A a \in Agents : SF_trialVars(th.a = a /\ Settle)
TrialSpec == TrialInit /\ [][TrialNext]_trialVars /\ Fairness

-----------------------------------------------------------------------------
TrialTypeOK ==
    /\ day \in Days /\ restarts \in 0..MaxRestarts
    /\ agent \in [Agents -> {"none", "trial", "running", "archived"}]
    /\ acct \in [Agents -> {"none", "trial", "archived"}]
    /\ \A f \in {ordered, active, log, sess} : f \in [Agents -> SUBSET Days]
    /\ held \in [Agents -> BOOLEAN]
    /\ replay \in [Agents -> {"none", "in_progress", "done"}]
    /\ archive \in [Agents -> [decision : {"none", "launch", "reject"}, ordered : SUBSET Days,
                               log : SUBSET Days, sess : SUBSET Days]]
    /\ th \in [pc : {"next", "settle", "count"}, a : Agents \cup {Nobody}, d : Days,
               todo : [Agents -> SUBSET Days]]
    /\ th.pc # "next" => th.a # Nobody /\ th.d \in th.todo[th.a]

\* A session stands for a day that is over and was settled whenever the agent
\* had ordered something on it, and no more are counted than the window asks
\* for, whatever failed days, restarts and decisions come in between
\* (run_trial_backfill, add_trial_session): so the gate against abnormal days
\* never refuses a trial whose orders came through place_order.
SessionsAreHonest == \A a \in Agents :
    /\ \A d \in sess[a] : d < day /\ d \notin active[a]
    /\ Abnormal(a) = {} /\ Cardinality(sess[a]) <= Window

\* The evidence a launch rests on is the trial: a full window, an order, and
\* the books as they are ever after ("archived as immutable evidence",
\* accountstore.py:509-638): no order, no settlement and no session follows.
LaunchStandsOnEvidence == \A a \in Agents : agent[a] = "running" =>
    /\ archive[a] = [decision |-> "launch", ordered |-> ordered[a], log |-> log[a],
                     sess |-> sess[a]]
    /\ Cardinality(sess[a]) >= Window /\ ordered[a] # {}

\* What the page says of an open trial is what the decision does: all its gates
\* are green exactly when a launch would be accepted, although the page counts
\* the sessions and the decision trusts the replay's status (trial_progress is
\* "a read-only snapshot by the rules of finish_trial", accountstore.py:433).
PreviewTellsTheGate == \A a \in Agents : agent[a] = "trial" =>
    (MayLaunch(a) <=> Preview(a).window /\ Preview(a).attempt /\ Preview(a).abnormal = {})

\* A trial gets its sessions: with enough trading days behind it the replay
\* completes, however often days fail or the program restarts, unless it is
\* decided first.  Failed days are picked again by count, not by date
\* (settle_scheduler.py:511-513).
ReplayCompletes == \A a \in Agents : agent[a] = "trial" ~> replay[a] = "done"
=============================================================================
