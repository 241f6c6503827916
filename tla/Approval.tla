------------------------------ MODULE Approval ------------------------------
(***************************************************************************)
(* The approval requests of one agent (core/approval.py, approval_routes)  *)
(* with the configuration their effects write and the capability bindings  *)
(* (core/capability_center.py).  Requests are submitted and decided by     *)
(* concurrent route threads, whose SELECTs precede their transaction; two  *)
(* sweeps (the scheduler's tick, the settlement loop) expire requests.     *)
(* A sweep's SELECT and its guarded UPDATE are one step: an overdue request*)
(* stays overdue, and the UPDATE tests the status again.                   *)
(***************************************************************************)
EXTENDS Integers, FiniteSets

CONSTANTS Requests, Payloads, NoPayload, Capabilities,
          Submitters, Deciders,  \* route threads
          PendingLimit,          \* PENDING_LIMIT
          Cooldown, Expiry,      \* COOLDOWN_SECONDS, DEFAULT_EXPIRES_SECONDS
          MaxTime

ASSUME TimesAssumption == Cooldown \in Nat /\ Expiry \in Nat /\ MaxTime \in Nat
ASSUME LimitAssumption == PendingLimit \in Nat \ {0}
ASSUME PayloadAssumption == NoPayload \notin Payloads
ASSUME FiniteAssumption == IsFiniteSet(Requests) /\ IsFiniteSet(Submitters)

VARIABLES now,
          payload, status, created,  \* approval_requests
          decided,     \* decided_ts, which only a rejection's cooldown reads
          applied,     \* the requests an audit row calls approved
          cfg, deprecated,
          notice,      \* the status the decision's chat message reports
          sub, dec     \* what the threads are doing

rows == <<payload, status, created, decided>>
config == <<cfg, deprecated, applied>>
vars == <<now, rows, config, notice, sub, dec>>

Config == INSTANCE AccountConfig WITH asked <- payload, granted <- applied

FreeSub == [pc |-> "free", p |-> NoPayload]
FreeDec == [pc |-> "free", r |-> "none"]

Init == /\ now = 0
        /\ payload = [r \in Requests |-> NoPayload]
        /\ status = [r \in Requests |-> "none"]
        /\ created = [r \in Requests |-> 0] /\ decided = [r \in Requests |-> 0]
        /\ applied = {} /\ cfg = Config!InitialConfig /\ deprecated = {}
        /\ notice = [r \in Requests |-> "none"]
        /\ sub = [s \in Submitters |-> FreeSub] /\ dec = [d \in Deciders |-> FreeDec]

OfType(t, st) == {r \in Requests : payload[r] # NoPayload /\ payload[r].type = t /\ status[r] = st}
Overdue(r) == created[r] + Expiry < now

-----------------------------------------------------------------------------
(* submit_approval *)

HashHit(p) == \E r \in Requests : payload[r] = p /\ status[r] \in {"approved", "rejected"}
CoolingDown(t) == \E r \in OfType(t, "rejected") : decided[r] + Cooldown > now
QuotaFullMutOff(t) == Cardinality(OfType(t, "pending")) > PendingLimit
QuotaFull(t) == Cardinality(OfType(t, "pending")) >= PendingLimit

\* The three checks, outside any transaction.
Check(s, p, exempt) ==
    /\ sub[s].pc = "free"
    /\ ~HashHit(p) /\ (exempt \/ ~CoolingDown(p.type)) /\ ~QuotaFull(p.type)
    /\ sub' = [sub EXCEPT ![s] = [pc |-> "insert", p |-> p]]
    /\ UNCHANGED <<now, rows, config, notice, dec>>

Insert(s, r) ==
    /\ sub[s].pc = "insert" /\ payload[r] = NoPayload
    /\ payload' = [payload EXCEPT ![r] = sub[s].p]
    /\ status' = [status EXCEPT ![r] = "pending"]
    /\ created' = [created EXCEPT ![r] = now]
    /\ sub' = [sub EXCEPT ![s] = FreeSub]
    /\ UNCHANGED <<now, decided, config, notice, dec>>

-----------------------------------------------------------------------------
(* decide_approval: the row is read, then written by id. A request that is *)
(* not pending when it is read only leaves an audit row.                   *)

Read(d, r) ==
    /\ dec[d].pc = "free" /\ status[r] = "pending"
    /\ \E decision \in {"approve", "reject"} :
           dec' = [dec EXCEPT ![d] = [pc |-> IF Overdue(r) THEN "late" ELSE decision, r |-> r]]
    /\ UNCHANGED <<now, rows, config, notice, sub>>

Write(d, st) ==
    /\ status' = [status EXCEPT ![dec[d].r] = st]
    /\ decided' = [decided EXCEPT ![dec[d].r] = IF st = "rejected" THEN now ELSE 0]
    /\ dec' = [dec EXCEPT ![d].pc = "tell"]
    /\ UNCHANGED <<now, payload, created, notice, sub>>

Late(d) == dec[d].pc = "late" /\ Write(d, "expired") /\ UNCHANGED config

\* The effect and the decision in one transaction.
ApproveMutNoEffect(d) ==
    /\ dec[d].pc = "approve" /\ Write(d, "approved")
    /\ applied' = applied \cup {dec[d].r}
    /\ cfg' = IF Config!Refused(payload[dec[d].r]) THEN cfg ELSE Config!Effect(payload[dec[d].r])
    /\ UNCHANGED deprecated
Approve(d) ==
    LET p == payload[dec[d].r] IN
    /\ dec[d].pc = "approve" /\ ~Config!Refused(p)
    /\ Write(d, "approved")
    /\ cfg' = Config!Effect(p) /\ applied' = applied \cup {dec[d].r}
    /\ UNCHANGED deprecated
\* effect_failed: the transaction is rolled back, the request stays as it is.
EffectFails(d) ==
    /\ dec[d].pc = "approve" /\ Config!Refused(payload[dec[d].r])
    /\ dec' = [dec EXCEPT ![d] = FreeDec]
    /\ UNCHANGED <<now, rows, config, notice, sub>>

Reject(d) == dec[d].pc = "reject" /\ Write(d, "rejected") /\ UNCHANGED config

\* The receipt: the row is read again, and one message per request is kept.
Tell(d) ==
    /\ dec[d].pc = "tell"
    /\ notice' = [notice EXCEPT ![dec[d].r] = IF @ = "none" THEN status[dec[d].r] ELSE @]
    /\ dec' = [dec EXCEPT ![d] = FreeDec]
    /\ UNCHANGED <<now, rows, config, sub>>

-----------------------------------------------------------------------------
\* expire_overdue
Expire(r) == /\ status[r] = "pending" /\ Overdue(r)
             /\ status' = [status EXCEPT ![r] = "expired"]
             /\ UNCHANGED <<now, payload, created, decided, config, notice, sub, dec>>
\* close_for_interrupt, when the task that waits for the request times out
CloseForInterrupt(r) ==
    /\ status[r] = "pending"
    /\ status' = [status EXCEPT ![r] = "expired"]
    /\ UNCHANGED <<now, payload, created, decided, config, notice, sub, dec>>

\* capability_center.unbind and deprecate, from their routes
Unbind(k) == /\ k \in cfg.bound /\ cfg' = [cfg EXCEPT !.bound = @ \ {k}]
             /\ UNCHANGED <<now, rows, applied, deprecated, notice, sub, dec>>
Deprecate(k) == /\ k \notin deprecated /\ deprecated' = deprecated \cup {k}
                /\ UNCHANGED <<now, rows, applied, cfg, notice, sub, dec>>

Clock == /\ now < MaxTime /\ now' = now + 1
         /\ UNCHANGED <<rows, config, notice, sub, dec>>
Restart == /\ sub' = [s \in Submitters |-> FreeSub] /\ dec' = [d \in Deciders |-> FreeDec]
           /\ UNCHANGED <<now, rows, config, notice>>

Submit(s) == \/ \E p \in Payloads, exempt \in BOOLEAN : Check(s, p, exempt)
             \/ \E r \in Requests : Insert(s, r)
Decide(d) == \/ \E r \in Requests : Read(d, r)
             \/ Late(d) \/ Approve(d) \/ EffectFails(d) \/ Reject(d) \/ Tell(d)
Next == \/ \E s \in Submitters : Submit(s)
        \/ \E d \in Deciders : Decide(d)
        \/ \E r \in Requests : Expire(r) \/ CloseForInterrupt(r)
        \/ \E k \in Capabilities : Unbind(k) \/ Deprecate(k)
        \/ Clock \/ Restart
Spec == Init /\ [][Next]_vars

-----------------------------------------------------------------------------
Values == {p.value : p \in Payloads}
ConfigType == [cap : Values \cup {"full"}, gran : Values \cup {"eod_replay"},
               exempt : SUBSET Values, bound : SUBSET Values]
\* TypeOK: every variable has its type, and a row has a payload from its insert on.
TypeOK ==
    /\ now \in 0..MaxTime
    /\ payload \in [Requests -> Payloads \cup {NoPayload}]
    /\ status \in [Requests -> {"none", "pending", "approved", "rejected", "expired"}]
    /\ created \in [Requests -> 0..MaxTime] /\ decided \in [Requests -> 0..MaxTime]
    /\ \A r \in Requests : status[r] = "none" <=> payload[r] = NoPayload
    /\ cfg \in ConfigType /\ applied \subseteq Requests /\ deprecated \subseteq Capabilities
    /\ notice \in [Requests -> {"none", "approved", "rejected", "expired"}]
    /\ sub \in [Submitters -> [pc : {"free", "insert"}, p : Payloads \cup {NoPayload}]]
    /\ dec \in [Deciders -> [pc : {"free", "late", "approve", "reject", "tell"},
                             r : Requests \cup {"none"}]]

\* The configuration changes only by granting a request that was made, by its
\* whole effect, whatever decisions, sweeps and restarts race, and a deprecated
\* capability is never bound (decide_approval, approval.py:352-381).
ImplementsAccountConfig == Config!Spec

\* What was granted is kept: no later effect drops an exemption, and the
\* record never calls a request approved, nor does the user's receipt, without
\* its effect (_effect_exemption, approval.py:86-111, a read-modify-write of a
\* JSON column by concurrent decisions; the receipt reads the row again).
NothingGrantedIsLost == \A r \in Requests :
    /\ r \in applied /\ payload[r].type = "exemption" => payload[r].value \in cfg.exempt
    /\ "approved" \in {status[r], notice[r]} => r \in applied

\* The quota is checked before the insert, so racing submissions exceed it, but
\* only by those that had passed the check (submit_approval, approval.py:268-290).
InFlight(t) == {s \in Submitters : sub[s].pc = "insert" /\ sub[s].p.type = t}
QuotaOverrun == \A p \in Payloads :
    Cardinality(OfType(p.type, "pending")) + Cardinality(InFlight(p.type))
        <= PendingLimit + Cardinality(Submitters) - 1

\* A decided request keeps its status: "a decision that arrives after another
\* or after the expiry is recorded and takes no effect" (approval.py:325).
DecisionIsFinal == [][\A r \in Requests :
    status[r] \notin {"none", "pending"} => status'[r] = status[r]]_vars
=============================================================================
