----------------------------- MODULE Evolution -----------------------------
(***************************************************************************)
(* The validation windows of one running agent (core/evoquant.py), its     *)
(* strategy versions (core/strategy_versions.py) and the validation        *)
(* accounts (core/accountstore.py).  Callers of open_validation race with  *)
(* each other; the settlement thread advances the windows day by day and   *)
(* closes a full one; a restart loses everything but the tables and        *)
(* replays the days of the look-back.  Every transaction is a step.        *)
(*                                                                         *)
(* Trades, orders and reports of the window are abstracted to the evidence *)
(* its verdict reads, which is any of Evidence.                            *)
(***************************************************************************)
EXTENDS Integers, Sequences, FiniteSets

CONSTANTS Versions,        \* version numbers
          Callers,         \* callers of open_validation
          WindowDays,      \* window_days
          Evidence,        \* [n, ev, base : Int, fuse, viol : BOOLEAN]
          MaxDay, MaxCrashes

ASSUME VersionsAssumption == "none" \notin Versions /\ IsFiniteSet(Versions)
ASSUME WindowAssumption == WindowDays \in Nat \ {0} /\ MaxDay \in Nat \ {0} /\ MaxCrashes \in Nat
ASSUME EvidenceAssumption ==
    Evidence \subseteq [n : Nat, ev : Int, base : Int, fuse : BOOLEAN, viol : BOOLEAN]

VARIABLES today,
          nextDay,    \* the day the settlement thread advances the windows with next
          vst,        \* strategy_versions.status, "none" before the row
          created,    \* version numbers in the order of created_ts
          wins,       \* strategy_validation_windows with their sessions, by version
          accts,      \* the validation accounts: [st, ver]
          mainVer,    \* accounts.active_version_no of the main account, "none" for ''
          call,       \* what each caller is doing
          adj,        \* what the settlement thread is doing
          memory,     \* versions whose rejection is in the agent's memory
          crashes

tables == <<vst, created, wins, accts, mainVer, memory>>
vars == <<today, nextDay, tables, call, adj, crashes>>

FailEv == -2
NoWindow == [st |-> "none", acct |-> 0, sess |-> {}, start |-> 0, opened |-> 0, decision |-> "none"]
FreeCall == [pc |-> "free", v |-> "none", acct |-> 0]
IdleAdj == [pc |-> "idle", v |-> "none", d |-> 0, verdict |-> "none"]

Active == {v \in Versions : vst[v] = "active"}
InProgress == {v \in Versions : wins[v].st = "in_progress"}

\* A running agent starts without a version; its first activation gives it one.
Init == /\ today = 1 /\ nextDay = 1
        /\ vst = [v \in Versions |-> "none"] /\ created = <<>>
        /\ wins = [v \in Versions |-> NoWindow]
        /\ accts = <<>> /\ mainVer = "none" /\ memory = {}
        /\ call = [c \in Callers |-> FreeCall] /\ adj = IdleAdj /\ crashes = 0

-----------------------------------------------------------------------------
(* open_validation, one transaction per step.                              *)

\* The window check, a SELECT outside any transaction.
Ask(c, v) == /\ call[c].pc = "free" /\ InProgress = {}
             /\ call' = [call EXCEPT ![c] = [pc |-> "draft", v |-> v, acct |-> 0]]
             /\ UNCHANGED <<today, nextDay, tables, adj, crashes>>

\* checkpoint; a version number that exists is refused.
Checkpoint(c) ==
    LET v == call[c].v IN
    /\ call[c].pc = "draft"
    /\ IF vst[v] = "none"
       THEN /\ vst' = [vst EXCEPT ![v] = "draft"] /\ created' = Append(created, v)
            /\ call' = [call EXCEPT ![c].pc = "account"]
       ELSE /\ call' = [call EXCEPT ![c] = FreeCall]
            /\ UNCHANGED <<vst, created>>
    /\ UNCHANGED <<today, nextDay, wins, accts, mainVer, memory, adj, crashes>>

\* provision_validation_account: a new account each time.
Provision(c) ==
    /\ call[c].pc = "account"
    /\ accts' = Append(accts, [st |-> "trial", ver |-> "none"])
    /\ call' = [call EXCEPT ![c].pc = "register", ![c].acct = Len(accts) + 1]
    /\ UNCHANGED <<today, nextDay, vst, created, wins, mainVer, memory, adj, crashes>>
\* ... refused while the agent or its main account is not running: the draft stays.
ProvisionRefused(c) ==
    /\ call[c].pc = "account"
    /\ call' = [call EXCEPT ![c] = FreeCall]
    /\ UNCHANGED <<today, nextDay, tables, adj, crashes>>

\* The insert, under the partial unique index on windows in progress.
OpenWindow(c) ==
    LET v == call[c].v IN
    /\ wins' = [wins EXCEPT ![v] = [st |-> "in_progress", acct |-> call[c].acct, sess |-> {},
                                    start |-> 0, opened |-> today, decision |-> "none"]]
    /\ accts' = [accts EXCEPT ![call[c].acct].ver = v]
RegisterMutNoIndex(c) ==
    /\ call[c].pc = "register" /\ OpenWindow(c)
    /\ call' = [call EXCEPT ![c] = FreeCall]
    /\ UNCHANGED <<today, nextDay, vst, created, mainVer, memory, adj, crashes>>
Register(c) ==
    /\ call[c].pc = "register"
    /\ IF InProgress = {} THEN OpenWindow(c) ELSE UNCHANGED <<wins, accts>>
    /\ call' = [call EXCEPT ![c] = FreeCall]
    /\ UNCHANGED <<today, nextDay, vst, created, mainVer, memory, adj, crashes>>

-----------------------------------------------------------------------------
(* The settlement thread: advance_windows, advance_one, decide.            *)

NewDay == /\ today < MaxDay /\ adj.pc = "idle" /\ nextDay >= today
          /\ today' = today + 1 /\ nextDay' = today + 1
          /\ UNCHANGED <<tables, call, adj, crashes>>

\* A day without a window, or whose settlement left a gap.
SkipDay == /\ adj.pc = "idle" /\ nextDay <= today
           /\ nextDay' = nextDay + 1
           /\ UNCHANGED <<today, tables, call, adj, crashes>>

\* INSERT OR IGNORE INTO validation_sessions
AddSession(v) == /\ adj.pc = "idle" /\ nextDay <= today /\ v \in InProgress
                 /\ wins' = [wins EXCEPT ![v].sess = @ \cup {nextDay}]
                 /\ adj' = [pc |-> "count", v |-> v, d |-> nextDay, verdict |-> "none"]
                 /\ UNCHANGED <<today, nextDay, vst, created, accts, mainVer, memory, call, crashes>>

Start(w, d) == IF w.start = 0 THEN d ELSE w.start
\* The account has trades from the opening on; the statistics read them from
\* the window's first session to d.
CanHaveTrades(w, d) == d >= w.opened /\ d >= Start(w, d)

\* _ev_stats: the expectation is a mean over the sales with a cost, None of none.
HasExpectation(e) == e.n > 0
\* decide
Verdict(e) ==
    IF e.fuse \/ e.viol \/ (HasExpectation(e) /\ e.ev < FailEv) THEN "rollback"
    ELSE IF HasExpectation(e) /\ (e.ev >= e.base \/ e.ev > 0) THEN "activate"
    ELSE "sealed"

\* enough: the trade samples reach trade_target.
Count(enough, e) ==
    LET w == wins[adj.v]
        reached == Cardinality(w.sess) >= WindowDays \/ enough
    IN
    /\ adj.pc = "count"
    /\ enough \/ e.n > 0 \/ e.viol => CanHaveTrades(w, adj.d)
    /\ IF reached
       THEN /\ adj' = [adj EXCEPT !.pc = "apply", !.verdict = Verdict(e)]
            /\ UNCHANGED <<wins, nextDay>>
       ELSE /\ wins' = [wins EXCEPT ![adj.v].start = Start(w, adj.d)]
            /\ adj' = IdleAdj /\ nextDay' = nextDay + 1
    /\ UNCHANGED <<today, vst, created, accts, mainVer, memory, call, crashes>>

\* strategy_versions.activate
Promote(v) == [u \in Versions |-> IF u = v THEN "active"
                                  ELSE IF vst[u] = "active" THEN "validated" ELSE vst[u]]
ActivateMutNoDemote ==
    /\ adj.pc = "apply" /\ adj.verdict = "activate"
    /\ vst' = [vst EXCEPT ![adj.v] = "active"] /\ adj' = [adj EXCEPT !.pc = "close"]
    /\ UNCHANGED <<nextDay, today, created, wins, accts, mainVer, memory, call, crashes>>
Activate ==
    /\ adj.pc = "apply" /\ adj.verdict = "activate"
    /\ CASE vst[adj.v] = "active" -> /\ adj' = [adj EXCEPT !.pc = "close"]
                                     /\ UNCHANGED <<vst, nextDay>>
         [] vst[adj.v] \in {"draft", "validated"} -> /\ vst' = Promote(adj.v)
                                                     /\ adj' = [adj EXCEPT !.pc = "close"]
                                                     /\ UNCHANGED nextDay
         [] OTHER -> \* ValueError: the window stays in progress
                     adj' = IdleAdj /\ nextDay' = nextDay + 1 /\ UNCHANGED vst
    /\ UNCHANGED <<today, created, wins, accts, mainVer, memory, call, crashes>>

\* The candidate is rejected; one that is no candidate any more seals the window.
RejectMutNoMemo ==
    /\ adj.pc = "apply" /\ adj.verdict = "rollback"
    /\ IF vst[adj.v] \in {"draft", "validated"}
       THEN vst' = [vst EXCEPT ![adj.v] = "rolled_back"] /\ adj' = [adj EXCEPT !.pc = "close"]
       ELSE adj' = [adj EXCEPT !.pc = "close", !.verdict = "sealed"] /\ UNCHANGED vst
    /\ UNCHANGED <<today, nextDay, created, wins, accts, mainVer, memory, call, crashes>>
Reject ==
    /\ adj.pc = "apply" /\ adj.verdict = "rollback"
    /\ IF vst[adj.v] \in {"draft", "validated"}
       THEN /\ vst' = [vst EXCEPT ![adj.v] = "rolled_back"]
            /\ adj' = [adj EXCEPT !.pc = "memo"]
       ELSE /\ adj' = [adj EXCEPT !.pc = "close", !.verdict = "sealed"]
            /\ UNCHANGED vst
    /\ UNCHANGED <<today, nextDay, created, wins, accts, mainVer, memory, call, crashes>>
Memo == /\ adj.pc = "memo"
        /\ memory' = memory \cup {adj.v} /\ adj' = [adj EXCEPT !.pc = "close"]
        /\ UNCHANGED <<today, nextDay, vst, created, wins, accts, mainVer, call, crashes>>
Seal == /\ adj.pc = "apply" /\ adj.verdict = "sealed"
        /\ adj' = [adj EXCEPT !.pc = "close"]
        /\ UNCHANGED <<today, nextDay, tables, call, crashes>>

CloseMutPointer ==
    /\ adj.pc = "close"
    /\ wins' = [wins EXCEPT ![adj.v].st = "done", ![adj.v].decision = adj.verdict]
    /\ accts' = [accts EXCEPT ![wins[adj.v].acct].st = "archived"]
    /\ mainVer' = adj.v
    /\ adj' = IdleAdj /\ nextDay' = nextDay + 1
    /\ UNCHANGED <<today, vst, created, memory, call, crashes>>
Close == /\ adj.pc = "close"
         /\ wins' = [wins EXCEPT ![adj.v].st = "done", ![adj.v].decision = adj.verdict]
         /\ accts' = [accts EXCEPT ![wins[adj.v].acct].st = "archived"]
         /\ mainVer' = IF adj.verdict = "activate" THEN adj.v ELSE mainVer
         /\ adj' = IdleAdj /\ nextDay' = nextDay + 1
         /\ UNCHANGED <<today, vst, created, memory, call, crashes>>

-----------------------------------------------------------------------------
\* rollback by hand, to the newest validated version.  Without an active version, or
\* without a validated one, it is refused and changes nothing here.
Rollback == \E old \in Active, new \in Versions :
    /\ vst[new] = "validated"
    /\ \A v \in Versions : vst[v] = "validated" =>
           \E i, j \in DOMAIN created : i <= j /\ created[i] = v /\ created[j] = new
    /\ vst' = [vst EXCEPT ![old] = "rolled_back", ![new] = "active"]
    /\ UNCHANGED <<today, nextDay, created, wins, accts, mainVer, memory, call, adj, crashes>>

\* A restart; catchup_missed starts with the first day of the look-back.
Restart == /\ crashes < MaxCrashes /\ crashes' = crashes + 1
           /\ nextDay' = 1 /\ adj' = IdleAdj
           /\ call' = [c \in Callers |-> FreeCall]
           /\ UNCHANGED <<today, tables>>

Open(c) == \/ \E v \in Versions : Ask(c, v)
           \/ Checkpoint(c) \/ Provision(c) \/ ProvisionRefused(c) \/ Register(c)
Advance == \/ \E v \in Versions : AddSession(v)
           \/ \E enough \in BOOLEAN, e \in Evidence : Count(enough, e)
           \/ Activate \/ Reject \/ Memo \/ Seal \/ Close
Next == (\E c \in Callers : Open(c)) \/ NewDay \/ SkipDay \/ Advance \/ Rollback \/ Restart
Spec == Init /\ [][Next]_vars

-----------------------------------------------------------------------------
\* TypeOK: every variable has its type, and an account number belongs to an account.
TypeOK ==
    /\ today \in 1..MaxDay /\ nextDay \in 1..(MaxDay + 1) /\ crashes \in 0..MaxCrashes
    /\ vst \in [Versions -> {"none", "draft", "validated", "active", "rolled_back"}]
    /\ created \in Seq(Versions) /\ mainVer \in Versions \cup {"none"} /\ memory \subseteq Versions
    /\ wins \in [Versions -> [st : {"none", "in_progress", "done"}, acct : 0..Len(accts),
                              sess : SUBSET (1..MaxDay), start : 0..MaxDay, opened : 0..MaxDay,
                              decision : {"none", "activate", "rollback", "sealed"}]]
    /\ accts \in Seq([st : {"trial", "archived"}, ver : Versions \cup {"none"}])
    /\ call \in [Callers -> [pc : {"free", "draft", "account", "register"},
                             v : Versions \cup {"none"}, acct : 0..Len(accts)]]
    /\ adj \in [pc : {"idle", "count", "apply", "memo", "close"},
                v : Versions \cup {"none"}, d : 0..MaxDay,
                verdict : {"none", "activate", "rollback", "sealed"}]

\* An agent has one window in progress at most although its opening is a
\* check, two transactions and an insert, and callers race; each window has an
\* account of its own that trades with the window's version, live as long as
\* the window is (open_validation, evoquant.py:113-187).
WindowsAreSeparate ==
    /\ Cardinality(InProgress) <= 1
    /\ \A v \in Versions : wins[v].st # "none" =>
           /\ accts[wins[v].acct] = [ver |-> v, st |-> IF wins[v].st = "done" THEN "archived" ELSE "trial"]
           /\ \A c \in Callers : call[c].acct # wins[v].acct

\* The agent has at most one active version (strategy_versions.py:15), and one as soon
\* as a window ended with an activation and for good: whatever verdicts, crashes
\* between a verdict and the window's closing, and rollbacks by hand come in between,
\* it is without one only while no version was ever promoted and the account points at
\* none (activate, rollback, decide).
OneActive ==
    /\ Cardinality(Active) <= 1
    /\ Active = {} => /\ mainVer = "none"
                      /\ \A v \in Versions : vst[v] # "validated" /\ wins[v].decision # "activate"

\* A version whose window was closed with a rejection stays out for good, and
\* the reason is in the agent's memory (decide, evoquant.py:331-354): the memory
\* is written before the window is closed, and nothing promotes it again.
RejectedStaysOut == \A v \in Versions :
    wins[v].decision = "rollback" => vst[v] = "rolled_back" /\ v \in memory

\* The main account's pointer names no version, or one whose window was closed with
\* an activation and which had been active before (decide, evoquant.py:401-405).
PointerIsEarned ==
    mainVer # "none" => /\ wins[mainVer].decision = "activate"
                        /\ vst[mainVer] \in {"active", "validated", "rolled_back"}

\* A window counts sessions from its opening on ("by real settlement days",
\* evoquant.py:11).  The replay after a restart counts earlier days too.
SessionsAfterOpening == \A v \in Versions : \A d \in wins[v].sess : d >= wins[v].opened
=============================================================================
