----------------------------- MODULE Knowledge -----------------------------
(***************************************************************************)
(* The knowledge base: core/kb.py and its routes, over the register of     *)
(* signals, with the recomputation of its statistics after a settlement    *)
(* (core/settle_scheduler.py) and by the task that makes up for a failed   *)
(* one (core/tasks.py).                                                    *)
(*                                                                         *)
(* Texts, the specification checked on entry and the returns are left out, *)
(* and so are the edit of an entry and the manual correction of a          *)
(* statistic; the environment buckets of an entry are independent, and one *)
(* stands for all.                                                         *)
(***************************************************************************)
EXTENDS Signals, FiniteSets

CONSTANTS Entries,     \* kb_entries, in the order of their ids
          Name,        \* the concept_tag an entry is named by; a pitfall's own id
          Pitfalls,    \* the entries of type pitfall
          Clients, MaxCards, NoEntry

ASSUME EntriesAssumption == /\ Name \in [Entries -> Keys] /\ Pitfalls \subseteq Entries
                            /\ NoEntry \notin Entries /\ MaxCards \in Nat
                            /\ IsFiniteSet(Rows)

VARIABLES ent,     \* kb_entries
          alias,   \* kb_tag_aliases
          stats,   \* kb_stats, a row per entry
          rec,     \* the recomputations under way: of the settlement, of the task
          queued,  \* whether the task of the failed recomputation is in the queue
          req,     \* what a request has read and has not written yet
          shown    \* history: the cards whose dispatch was committed

kbVars == <<ent, alias, stats, rec, queued, req, shown>>
vars == <<registerVars, kbVars>>

Statuses == {"none", "observing", "validating", "valid", "invalid", "sealed"}
Recomputers == {"engine", "task"}
NoRow == [there |-> FALSE, n |-> 0, dispatched |-> 0]
Resting == [on |-> FALSE, todo |-> {}, e |-> NoEntry, n |-> 0, dispatched |-> 0]
NoRequest == [op |-> "none", e |-> NoEntry]

Init == /\ RegisterInit
        /\ ent = [e \in Entries |-> [status |-> "none", gone |-> FALSE, reviewed |-> FALSE]]
        /\ alias = [k \in Keys |-> NoEntry] /\ stats = [e \in Entries |-> NoRow]
        /\ rec = [t \in Recomputers |-> Resting] /\ queued = FALSE
        /\ req = [u \in Clients |-> NoRequest] /\ shown = [e \in Entries |-> 0]

-----------------------------------------------------------------------------
(* Entries and their life.                                                 *)

Create(e) == /\ ent[e].status = "none"
             /\ ent' = [ent EXCEPT ![e].status = "observing"]
             /\ UNCHANGED <<registerVars, alias, stats, rec, queued, req, shown>>

\* TRANSITIONS
Moves == [start_validation |-> [from |-> {"observing", "invalid", "sealed"}, to |-> "validating"],
          approve_valid |-> [from |-> {"validating"}, to |-> "valid"],
          invalidate |-> [from |-> {"observing", "validating", "valid"}, to |-> "invalid"],
          seal |-> [from |-> {"validating"}, to |-> "sealed"]]
\* transition_kb: the status is read, then the target is written whatever it is by now.
TransitionRead(u, e, a) ==
    /\ req[u] = NoRequest /\ ent[e].status \in Moves[a].from /\ ~ent[e].gone
    /\ req' = [req EXCEPT ![u] = [op |-> a, e |-> e]]
    /\ UNCHANGED <<registerVars, ent, alias, stats, rec, queued, shown>>
TransitionWrite(u) ==
    /\ req[u].op \in DOMAIN Moves /\ req' = [req EXCEPT ![u] = NoRequest]
    /\ ent' = [ent EXCEPT ![req[u].e].status = Moves[req[u].op].to,
                          ![req[u].e].reviewed = @ \/ req[u].op = "start_validation"]
    /\ UNCHANGED <<registerVars, alias, stats, rec, queued, shown>>
\* update_entry: neither touches the status, though a restored entry's audit row says it.
Delete(e) == /\ ent[e].status # "none" /\ ~ent[e].gone
             /\ ent' = [ent EXCEPT ![e].gone = TRUE]
             /\ UNCHANGED <<registerVars, alias, stats, rec, queued, req, shown>>
Restore(e) == /\ ent[e].gone /\ ent' = [ent EXCEPT ![e].gone = FALSE]
              /\ UNCHANGED <<registerVars, alias, stats, rec, queued, req, shown>>

\* merge_tag: a tag becomes another name of a positive entry, once.
MergeTag(k, e) ==
    /\ ent[e].status # "none" /\ e \notin Pitfalls /\ k # Name[e] /\ alias[k] = NoEntry
    /\ alias' = [alias EXCEPT ![k] = e]
    /\ UNCHANGED <<registerVars, ent, stats, rec, queued, req, shown>>

-----------------------------------------------------------------------------
(* The statistics: every entry there was at the start, one after the       *)
(* other, each read outside the transaction that writes it.                *)

\* _canonical_tags
Tags(e) == {Name[e]} \cup {k \in Keys : alias[k] = e}
EvidenceMutOpen(e) == {r \in Rows : /\ row[r].reg > 0 /\ row[r].kind = "signal"
                                    /\ ~row[r].trial /\ row[r].key \in Tags(e)}
Evidence(e) == {r \in Rows : /\ row[r].end > 0 /\ row[r].kind = "signal"
                             /\ ~row[r].trial /\ row[r].key \in Tags(e)}

Begin(t) == rec' = [rec EXCEPT ![t] = [Resting EXCEPT !.on = TRUE,
                                         !.todo = {e \in Entries : ent[e].status # "none"}]]
RecomputeEngine == /\ th.pc = "kb" /\ ~rec["engine"].on /\ Begin("engine")
                   /\ UNCHANGED <<registerVars, ent, alias, stats, queued, req, shown>>
RecomputeTask == /\ queued /\ ~rec["task"].on /\ Begin("task") /\ queued' = FALSE
                 /\ UNCHANGED <<registerVars, ent, alias, stats, req, shown>>
ReadEntry(t) == /\ rec[t].e = NoEntry
                /\ \E e \in rec[t].todo :
                      rec' = [rec EXCEPT ![t].e = e, ![t].n = Cardinality(Evidence(e)),
                                         ![t].dispatched = stats[e].dispatched]
                /\ UNCHANGED <<registerVars, ent, alias, stats, queued, req, shown>>
\* upsert_stats: the columns not given keep what the row holds now.
WriteEntryMutStaleRow(t) ==
    /\ rec[t].e # NoEntry
    /\ stats' = [stats EXCEPT ![rec[t].e] = [there |-> TRUE, n |-> rec[t].n,
                                             dispatched |-> rec[t].dispatched]]
    /\ rec' = [rec EXCEPT ![t] = [Resting EXCEPT !.on = TRUE, !.todo = rec[t].todo \ {rec[t].e}]]
    /\ UNCHANGED <<registerVars, ent, alias, queued, req, shown>>
WriteEntry(t) ==
    /\ rec[t].e # NoEntry
    /\ stats' = [stats EXCEPT ![rec[t].e].there = TRUE, ![rec[t].e].n = rec[t].n]
    /\ rec' = [rec EXCEPT ![t] = [Resting EXCEPT !.on = TRUE, !.todo = rec[t].todo \ {rec[t].e}]]
    /\ UNCHANGED <<registerVars, ent, alias, queued, req, shown>>
\* It ends, or fails at any entry: the settlement then leaves it to a task.
EndEngine == /\ rec["engine"].on
             /\ queued' = (queued \/ rec["engine"].todo # {})
             /\ rec' = [rec EXCEPT !["engine"] = Resting] /\ th' = Idle
             /\ UNCHANGED <<day, row, done, starts, adv, ent, alias, stats, req, shown>>
EndTask == /\ rec["task"].on /\ rec' = [rec EXCEPT !["task"] = Resting]
           /\ UNCHANGED <<registerVars, ent, alias, stats, queued, req, shown>>

-----------------------------------------------------------------------------
(* Reference cards, one at a time: what was never shown comes first.       *)

Eligible == {e \in Entries : /\ ent[e].status \notin {"none", "invalid", "sealed"} /\ ~ent[e].gone
                             /\ stats[e].there}
DispatchRead(u) ==
    /\ req[u] = NoRequest
    /\ \E e \in Eligible :
          /\ stats[e].dispatched > 0 => \A f \in Eligible : stats[f].dispatched > 0
          /\ shown[e] < MaxCards
          /\ req' = [req EXCEPT ![u] = [op |-> "show", e |-> e]]
    /\ UNCHANGED <<registerVars, ent, alias, stats, rec, queued, shown>>
DispatchWrite(u) ==
    /\ req[u].op = "show" /\ req' = [req EXCEPT ![u] = NoRequest]
    /\ stats' = [stats EXCEPT ![req[u].e].dispatched = @ + 1]
    /\ shown' = [shown EXCEPT ![req[u].e] = @ + 1]
    /\ UNCHANGED <<registerVars, ent, alias, rec, queued>>

-----------------------------------------------------------------------------

\* The process ends: the threads and the requests with it.
Crash == /\ Stop /\ rec' = [t \in Recomputers |-> Resting] /\ req' = [u \in Clients |-> NoRequest]
         /\ UNCHANGED <<ent, alias, stats, queued, shown>>

Running == th.pc # "down"
Life == \E e \in Entries : Create(e) \/ Delete(e) \/ Restore(e) \/ \E k \in Keys : MergeTag(k, e)
Request(u) == \/ \E e \in Entries, a \in DOMAIN Moves : TransitionRead(u, e, a)
              \/ TransitionWrite(u) \/ DispatchRead(u) \/ DispatchWrite(u)
Recompute(t) == ReadEntry(t) \/ WriteEntry(t)
Next == \/ RegisterNext /\ UNCHANGED kbVars
        \/ Running /\ Life
        \/ Running /\ \E u \in Clients : Request(u)
        \/ RecomputeEngine \/ (Running /\ RecomputeTask) \/ EndEngine \/ EndTask
        \/ \E t \in Recomputers : Recompute(t)
        \/ Crash
Spec == Init /\ [][Next]_vars

-----------------------------------------------------------------------------
(* Properties.                                                             *)

\* Types of the knowledge base (migrations 19 and 30 of db.py).
TypeOK == /\ RegisterTypeOK
          /\ ent \in [Entries -> [status : Statuses, gone : BOOLEAN, reviewed : BOOLEAN]]
          /\ alias \in [Keys -> Entries \cup {NoEntry}] /\ queued \in BOOLEAN
          /\ stats \in [Entries -> [there : BOOLEAN, n : Nat, dispatched : Nat]]
          /\ shown \in [Entries -> Nat]

\* dispatch_n, by which the cards are ranked, is the number of dispatches: a
\* recomputation that read before a dispatch and writes after it (upsert_stats
\* replaces the whole row) loses none.
DispatchIsKept == \A e \in Entries : stats[e].dispatched = shown[e]

\* The sample size an entry shows never exceeds the settled signals of its names,
\* trial accounts excluded: whatever recomputations overlap with settlements, merges
\* and each other, no signal is counted before its window has ended (recompute_stats).
EvidenceIsReal ==
    \A e \in Entries : stats[e].n <= Cardinality(
        {r \in Rows : /\ row[r].end > 0 /\ ~row[r].trial
                      /\ row[r].key = Name[e] \/ (row[r].key \in Keys /\ alias[row[r].key] = e)})

\* A tag merged into an entry stays merged into it (kb_tag_aliases is append-only),
\* and an entry is valid only if a review had started its validation, also when two
\* requests read the status before either writes (transition_kb).
LifeIsLawful == [][/\ \A k \in Keys : alias[k] # NoEntry => alias'[k] = alias[k]
                   /\ \A e \in Entries : ent'[e].status = "valid" => ent'[e].reviewed]_vars

\* The status moves along the state machine.  It does not when two requests read it
\* before either writes: a sealed entry becomes valid.
MovesAlongTheMachine ==
    [][\A e \in Entries : ent'[e].status # ent[e].status =>
          ent[e].status = "none" \/ \E a \in DOMAIN Moves :
             ent[e].status \in Moves[a].from /\ ent'[e].status = Moves[a].to]_vars
=============================================================================
