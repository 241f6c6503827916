----------------------------- MODULE AgentProof -----------------------------
(***************************************************************************)
(* Theorems about what the agents keep.  Signals and Knowledge: the window *)
(* of a signal, its result, and the statistics and the life of an entry.   *)
(* Conversation: the receipts of the user's messages, and paging.          *)
(***************************************************************************)
EXTENDS Knowledge, Conversation, SumTheorems, SequenceTheorems

-----------------------------------------------------------------------------
(***************************************************************************)
(* Signals and Knowledge                                                   *)
(***************************************************************************)

RowFields == [kind : Kinds, reg : 0..MaxDay, key : Keys \cup {NoKey}, trial : BOOLEAN,
              ref : 0..MaxDay, last : 0..MaxDay, sess : Nat, seen : 0..MaxDay,
              end : 0..MaxDay, stale : BOOLEAN]
\* A row w that was advanced on the days s.
RowOK(w, s) ==
    /\ w \in RowFields /\ s \in Seq(Days)
    /\ w.sess = Len(s) /\ Len(s) <= N
    /\ \A i \in 1..Len(s) : s[i] > w.reg /\ (i < Len(s) => s[i] < s[i + 1])
    /\ w.end = (IF Len(s) = N THEN s[Len(s)] ELSE 0)
    /\ w.end > 0 => w.ref > 0 /\ w.stale = (w.last # w.end)
    /\ w.seen = (IF Len(s) = 0 THEN 0 ELSE s[Len(s)])
    /\ w.last <= w.reg \/ w.last <= w.seen
    /\ w.kind = "exit" /\ w.reg > 0 => w.ref > 0
    /\ w.reg = 0 => s = <<>> /\ w.ref = 0
RowsOK == /\ row \in [Rows -> RowFields] /\ adv \in [Rows -> Seq(Days)]
          /\ \A r \in Rows : RowOK(row[r], adv[r])
DayOK == day \in Days /\ th \in [pc : {"down", "idle", "exits", "signals", "run", "kb"}, d : Days, live : BOOLEAN]

\* What the settled signals of an entry's names are.
Settled(e) == {r \in Rows : /\ row[r].end > 0 /\ ~row[r].trial
                            /\ row[r].key = Name[e] \/ (row[r].key \in Keys /\ alias[row[r].key] = e)}

EntriesOK == /\ ent \in [Entries -> [status : Statuses, gone : BOOLEAN, reviewed : BOOLEAN]]
             /\ alias \in [Keys -> Entries \cup {NoEntry}]
             /\ \A e \in Entries : ent[e].status \in {"validating", "valid"} => ent[e].reviewed
RequestsOK == /\ req \in [Clients -> [op : {"none", "show"} \cup DOMAIN Moves, e : Entries \cup {NoEntry}]]
              /\ \A u \in Clients : /\ req[u].op # "none" => req[u].e \in Entries
                                    /\ req[u].op = "approve_valid" => ent[req[u].e].reviewed
StatsOK == /\ stats \in [Entries -> [there : BOOLEAN, n : Nat, dispatched : Nat]]
           /\ shown \in [Entries -> Nat]
           /\ rec \in [Recomputers -> [on : BOOLEAN, todo : SUBSET Entries, e : Entries \cup {NoEntry},
                                       n : Nat, dispatched : Nat]]
           /\ \A e \in Entries : stats[e].n <= Cardinality(Settled(e))
           /\ \A t \in Recomputers : rec[t].e # NoEntry => rec[t].n <= Cardinality(Settled(rec[t].e))

IInv == RowsOK /\ DayOK /\ EntriesOK /\ RequestsOK /\ StatsOK /\ DispatchIsKept

-----------------------------------------------------------------------------
(* The rows.                                                               *)

LEMMA DayOne == 1 \in Days /\ N \in Nat \ {0} /\ MaxDay \in Nat \ {0} /\ Days = 1..MaxDay
BY WindowAssumption DEF Days

LEMMA NewRow ==
  ASSUME NEW kind \in Kinds, NEW d \in Days, NEW key \in Keys \cup {NoKey}, NEW trial \in BOOLEAN,
         NEW ref \in {0, d}, kind = "exit" => ref = d
  PROVE  RowOK([kind |-> kind, reg |-> d, key |-> key, trial |-> trial, ref |-> ref,
                last |-> ref, sess |-> 0, seen |-> 0, end |-> 0, stale |-> FALSE], <<>>)
<1> DEFINE w == [kind |-> kind, reg |-> d, key |-> key, trial |-> trial, ref |-> ref,
                 last |-> ref, sess |-> 0, seen |-> 0, end |-> 0, stale |-> FALSE]
<1>2. d \in Nat /\ d > 0 /\ d \in 0..MaxDay /\ ref \in 0..MaxDay /\ 0 \in 0..MaxDay
  BY DayOne
<1>3. w \in RowFields
  BY <1>2 DEF RowFields
<1>4. <<>> \in Seq(Days) /\ Len(<<>>) = 0
  OBVIOUS
<1>5. /\ w.sess = 0 /\ w.end = 0 /\ w.seen = 0 /\ w.reg = d /\ w.kind = kind
      /\ w.ref = ref /\ w.last = ref
  OBVIOUS
<1> HIDE DEF w
<1>6. RowOK(w, <<>>)
  BY <1>2, <1>3, <1>4, <1>5, DayOne DEF RowOK
<1>7. QED
  BY <1>6 DEF w

LEMMA StepRow ==
  ASSUME NEW w, NEW s, RowOK(w, s), NEW d \in Days, NEW close \in BOOLEAN,
         w.reg \in 1..(d - 1), w.end = 0, w.seen < d, w.ref > 0
  PROVE  RowOK(Stepped(w, d, close), Append(s, d))
<1> DEFINE v == Stepped(w, d, close)
           t == Append(s, d)
<1>1. w \in RowFields /\ s \in Seq(Days) /\ Len(s) \in Nat /\ d \in 1..MaxDay
  BY DayOne DEF RowOK
<1>2. /\ t \in Seq(Days) /\ Len(t) = Len(s) + 1 /\ t[Len(s) + 1] = d
      /\ \A i \in 1..Len(s) : t[i] = s[i]
  BY <1>1, AppendProperties
<1>3. /\ v.sess = w.sess + 1 /\ v.seen = d /\ v.last = (IF close THEN d ELSE w.last)
      /\ v.end = (IF w.sess + 1 >= N THEN d ELSE 0)
      /\ v.stale = (w.sess + 1 >= N /\ ~close)
      /\ v.ref = w.ref /\ v.reg = w.reg /\ v.kind = w.kind
  BY <1>1 DEF Stepped, RowFields
<1>4. v \in RowFields
  <2>1. w.sess + 1 \in Nat /\ d \in 0..MaxDay /\ w.last \in 0..MaxDay /\ 0 \in 0..MaxDay
    BY <1>1, DayOne DEF RowFields
  <2>2. (IF close THEN d ELSE w.last) \in 0..MaxDay /\ (IF w.sess + 1 >= N THEN d ELSE 0) \in 0..MaxDay
    BY <2>1
  <2>3. (w.sess + 1 >= N /\ ~close) \in BOOLEAN
    OBVIOUS
  <2>4. QED
    BY <1>1, <2>1, <2>2, <2>3 DEF Stepped, RowFields
<1>5. /\ \A i \in 1..Len(s) : s[i] \in Nat
      /\ w.seen \in Nat /\ w.last \in Nat /\ w.reg \in Nat /\ w.ref \in Nat
  BY <1>1, DayOne DEF RowFields
<1> HIDE DEF v, t
<1>6. w.sess = Len(s) /\ Len(s) < N
  <2>1. Len(s) = N => s[Len(s)] = 0
    BY DEF RowOK
  <2>2. Len(s) > 0 => s[Len(s)] > 0
    BY <1>1, DayOne
  <2>3. QED
    BY <1>1, <2>1, <2>2, DayOne DEF RowOK
<1>7. \A i \in 1..Len(t) : t[i] > v.reg /\ (i < Len(t) => t[i] < t[i + 1])
  <2> SUFFICES ASSUME NEW i \in 1..Len(t)
               PROVE  t[i] > v.reg /\ (i < Len(t) => t[i] < t[i + 1])
    OBVIOUS
  <2>1. CASE i = Len(t)
    BY <1>1, <1>2, <1>3, <1>5, <2>1
  <2>2. CASE i < Len(s)
    <3>1. i \in 1..Len(s) /\ i + 1 \in 1..Len(s)
      BY <1>1, <2>2
    <3>2. t[i] = s[i] /\ t[i + 1] = s[i + 1]
      BY <1>2, <3>1
    <3>3. s[i] > w.reg /\ s[i] < s[i + 1]
      BY <2>2, <3>1 DEF RowOK
    <3>4. QED
      BY <1>3, <3>2, <3>3
  <2>3. CASE i = Len(s)
    <3>1. i \in 1..Len(s) /\ t[i] = s[i] /\ t[i + 1] = d
      BY <1>1, <1>2, <2>3
    <3>2. s[i] > w.reg /\ s[i] = w.seen
      BY <2>3, <3>1 DEF RowOK
    <3>3. QED
      BY <1>3, <3>1, <3>2
  <2>4. QED
    BY <1>1, <1>2, <2>1, <2>2, <2>3
<1>8. v.end = (IF Len(t) = N THEN t[Len(t)] ELSE 0)
  BY <1>1, <1>2, <1>3, <1>6, DayOne
<1>9. v.end > 0 => v.ref > 0 /\ v.stale = (v.last # v.end)
  <2>1. w.last < d
    BY <1>1, <1>5 DEF RowOK
  <2>2. QED
    BY <1>1, <1>3, <1>5, <2>1
<1>10. v.last <= v.reg \/ v.last <= v.seen
  BY <1>1, <1>3, <1>5 DEF RowOK
<1>11. Len(t) # 0 /\ v.sess = Len(t) /\ Len(t) <= N /\ v.reg # 0
  BY <1>1, <1>2, <1>3, <1>6, DayOne
<1>12. QED
  BY <1>2, <1>3, <1>4, <1>7, <1>8, <1>9, <1>10, <1>11 DEF RowOK, v, t

LEMMA BaseRow ==
  ASSUME NEW w, NEW s, RowOK(w, s), NEW base \in 0..MaxDay, w.end = 0, w.reg > 0
  PROVE  /\ RowOK(WithBase(w, base), s)
         /\ WithBase(w, base).ref = (IF w.ref = 0 THEN base ELSE w.ref)
         /\ WithBase(w, base).reg = w.reg /\ WithBase(w, base).end = w.end
         /\ WithBase(w, base).seen = w.seen
<1> DEFINE v == WithBase(w, base)
<1>1. w \in RowFields
  BY DEF RowOK
<1>2. /\ v \in RowFields /\ v.ref = (IF w.ref = 0 THEN base ELSE w.ref) /\ v.reg = w.reg
      /\ v.end = w.end /\ v.seen = w.seen /\ v.sess = w.sess /\ v.kind = w.kind
      /\ v.last = w.last /\ v.stale = w.stale
  BY <1>1 DEF WithBase, RowFields
<1> HIDE DEF v
<1>3. v.kind = "exit" /\ v.reg > 0 => v.ref > 0
  BY <1>1, <1>2 DEF RowOK, RowFields
<1>4. RowOK(v, s)
  BY <1>2, <1>3 DEF RowOK
<1>5. QED
  BY <1>2, <1>4 DEF v

\* A settled row is not written again, and a base stays.
Stands == \A r \in Rows : /\ row[r].end > 0 => row'[r] = row[r]
                          /\ row[r].ref > 0 => row'[r].ref = row[r].ref

LEMMA RegisterKeeps ==
  ASSUME IInv, NEW r \in Rows, NEW kind \in Kinds, NEW d \in Days, NEW key \in Keys \cup {NoKey},
         NEW trial \in BOOLEAN, NEW ref \in {0, d}, kind = "exit" => ref = d,
         Register(r, kind, d, key, trial, ref), adv' = adv
  PROVE  RowsOK' /\ Stands
<1> DEFINE new == [kind |-> kind, reg |-> d, key |-> key, trial |-> trial, ref |-> ref,
                   last |-> ref, sess |-> 0, seen |-> 0, end |-> 0, stale |-> FALSE]
<1>1. row[r].reg = 0 /\ row' = [row EXCEPT ![r] = new]
  BY DEF Register
<1>2. RowOK(new, <<>>)
  BY NewRow
<1> HIDE DEF new
<1>3. RowOK(row[r], adv[r]) /\ row \in [Rows -> RowFields] /\ adv \in [Rows -> Seq(Days)]
  BY DEF IInv, RowsOK
<1>4. adv[r] = <<>> /\ row[r].end = 0
  BY <1>1, <1>3, DayOne DEF RowOK
<1>5. new \in RowFields
  BY <1>2 DEF RowOK
<1>6. row' \in [Rows -> RowFields] /\ \A q \in Rows : row'[q] = IF q = r THEN new ELSE row[q]
  BY <1>1, <1>3, <1>5
<1>7. RowsOK'
  BY <1>2, <1>3, <1>4, <1>6 DEF IInv, RowsOK
<1>8. row[r].ref = 0
  BY <1>1, <1>3 DEF RowOK
<1>9. QED
  BY <1>4, <1>6, <1>7, <1>8 DEF Stands

LEMMA AdvanceExitsKeeps ==
  ASSUME IInv, AdvanceExits
  PROVE  RowsOK' /\ Stands
<1> DEFINE D == th.d
<1>1. PICK close \in BOOLEAN, bench \in BOOLEAN :
        LET moved == {r \in Due("exit", th.d) : Steps(row[r], th.d) /\ (close \/ bench)}
        IN  /\ row' = [r \in Rows |-> IF r \in moved THEN Stepped(row[r], th.d, close) ELSE row[r]]
            /\ adv' = [r \in Rows |-> IF r \in moved THEN Append(adv[r], th.d) ELSE adv[r]]
  BY DEF AdvanceExits
<1>2. PICK moved \in SUBSET Rows :
        /\ \A r \in moved : /\ row[r].kind = "exit" /\ row[r].reg \in 1..(th.d - 1)
                            /\ row[r].end = 0 /\ row[r].seen < th.d
        /\ row' = [r \in Rows |-> IF r \in moved THEN Stepped(row[r], th.d, close) ELSE row[r]]
        /\ adv' = [r \in Rows |-> IF r \in moved THEN Append(adv[r], th.d) ELSE adv[r]]
  BY <1>1 DEF Due, Steps
<1>3. th.d \in Days
  BY DEF IInv, DayOK
<1>4. ASSUME NEW r \in Rows
      PROVE  /\ RowOK(row'[r], adv'[r]) /\ (row[r].end > 0 => row'[r] = row[r])
             /\ row[r].ref > 0 => row'[r].ref = row[r].ref
  <2>1. RowOK(row[r], adv[r])
    BY DEF IInv, RowsOK
  <2>2. CASE r \notin moved
    BY <1>2, <2>1, <2>2
  <2>3. CASE r \in moved
    <3>1. row'[r] = Stepped(row[r], th.d, close) /\ adv'[r] = Append(adv[r], th.d)
      BY <1>2, <2>3
    <3>2. row[r].ref > 0 /\ row[r].reg \in 1..(th.d - 1) /\ row[r].end = 0 /\ row[r].seen < th.d
      BY <1>2, <1>3, <2>1, <2>3, DayOne DEF RowOK
    <3>3. RowOK(row'[r], adv'[r])
      BY <1>3, <2>1, <3>1, <3>2, StepRow
    <3>4. row'[r].ref = row[r].ref
      BY <2>1, <3>1 DEF Stepped, RowOK, RowFields
    <3>5. QED
      BY <3>2, <3>3, <3>4
  <2>4. QED
    BY <2>2, <2>3
<1>5. row' \in [Rows -> RowFields] /\ adv' \in [Rows -> Seq(Days)]
  BY <1>2, <1>4 DEF RowOK
<1>6. QED
  BY <1>4, <1>5 DEF RowsOK, Stands

LEMMA AdvanceSignalsKeeps ==
  ASSUME IInv, AdvanceSignals
  PROVE  RowsOK' /\ Stands
<1>1. th.d \in Days /\ row \in [Rows -> RowFields]
  BY DEF IInv, DayOK, RowsOK
<1>2. PICK close \in BOOLEAN, base \in Bases(th.d) :
        LET based(r) == IF r \in Due("signal", th.d) THEN WithBase(row[r], base) ELSE row[r]
            moved == {r \in Due("signal", th.d) : /\ based(r).ref > 0 /\ Steps(row[r], th.d)
                                                  /\ close \/ row[r].last > 0}
        IN  /\ row' = [r \in Rows |-> IF r \in moved THEN Stepped(based(r), th.d, close) ELSE based(r)]
            /\ adv' = [r \in Rows |-> IF r \in moved THEN Append(adv[r], th.d) ELSE adv[r]]
  BY DEF AdvanceSignals
<1>3. base \in 0..MaxDay
  BY <1>1, DayOne DEF Bases, Due, RowFields
<1>4. ASSUME NEW r \in Rows
      PROVE  /\ RowOK(row'[r], adv'[r]) /\ (row[r].end > 0 => row'[r] = row[r])
             /\ row[r].ref > 0 => row'[r].ref = row[r].ref
  <2>1. RowOK(row[r], adv[r]) /\ row[r] \in RowFields
    BY DEF IInv, RowsOK
  <2>2. CASE r \notin Due("signal", th.d)
    BY <1>2, <2>1, <2>2
  <2>3. CASE r \in Due("signal", th.d)
    <3> DEFINE b == WithBase(row[r], base)
    <3>1. row[r].reg \in 1..(th.d - 1) /\ row[r].end = 0
      BY <2>3 DEF Due
    <3>2. /\ RowOK(b, adv[r]) /\ b.ref = (IF row[r].ref = 0 THEN base ELSE row[r].ref)
          /\ b.reg = row[r].reg /\ b.end = 0 /\ b.seen = row[r].seen
      BY <1>1, <1>3, <2>1, <3>1, BaseRow, DayOne
    <3>3. \/ row'[r] = b /\ adv'[r] = adv[r]
          \/ /\ b.ref > 0 /\ row[r].seen < th.d
             /\ row'[r] = Stepped(b, th.d, close) /\ adv'[r] = Append(adv[r], th.d)
      BY <1>2, <2>3 DEF Steps
    <3> HIDE DEF b
    <3>4. row[r].ref > 0 => b.ref = row[r].ref
      BY <2>1, <3>2 DEF RowFields
    <3>5. CASE row'[r] = b /\ adv'[r] = adv[r]
      BY <3>1, <3>2, <3>4, <3>5
    <3>6. CASE /\ b.ref > 0 /\ row[r].seen < th.d
               /\ row'[r] = Stepped(b, th.d, close) /\ adv'[r] = Append(adv[r], th.d)
      <4>1. RowOK(row'[r], adv'[r])
        BY <1>1, <3>1, <3>2, <3>6, StepRow
      <4>2. row'[r].ref = b.ref
        BY <3>2, <3>6 DEF Stepped, RowOK, RowFields
      <4>3. QED
        BY <3>1, <3>4, <4>1, <4>2
    <3>7. QED
      BY <3>3, <3>5, <3>6
  <2>4. QED
    BY <2>2, <2>3
<1>5. row' \in [Rows -> RowFields] /\ adv' \in [Rows -> Seq(Days)]
  BY <1>2, <1>4 DEF RowOK
<1>6. QED
  BY <1>4, <1>5 DEF RowsOK, Stands

\* One step of the register: rows, and the state of the settlement.
LEMMA RegisterStep ==
  ASSUME IInv, RegisterNext
  PROVE  RowsOK' /\ DayOK' /\ Stands
<1>1. CASE NewDay \/ Start \/ Live \/ DayEnds
  <2>1. row' = row /\ adv' = adv
    BY <1>1 DEF NewDay, Start, Live, DayEnds
  <2>2. RowsOK' /\ Stands
    BY <2>1 DEF IInv, RowsOK, Stands
  <2>3. DayOK'
    <3>1. CASE NewDay
      BY <3>1, DayOne DEF NewDay, IInv, DayOK
    <3>2. CASE Start
      BY <3>2, DayOne DEF Start, Down, Idle, IInv, DayOK
    <3>3. CASE Live
      BY <3>3, DayOne DEF Live, IInv, DayOK
    <3>4. CASE DayEnds
      <4>1. th' = Idle \/ th' = [Down EXCEPT !.pc = "kb"]
            \/ (th.d + 1 < day /\ th' = [th EXCEPT !.pc = "exits", !.d = @ + 1])
        BY <3>4 DEF DayEnds
      <4>2. day' = day
        BY <3>4 DEF DayEnds
      <4>3. th'.d \in Days /\ th' \in [pc : {"down", "idle", "exits", "signals", "run", "kb"},
                                        d : Days, live : BOOLEAN]
        <5>1. CASE th' = Idle \/ th' = [Down EXCEPT !.pc = "kb"]
          BY <5>1, DayOne DEF Down, Idle
        <5>2. CASE th.d + 1 < day /\ th' = [th EXCEPT !.pc = "exits", !.d = @ + 1]
          <6>1. th.d + 1 \in Days
            BY <5>2, DayOne DEF IInv, DayOK
          <6>2. QED
            BY <5>2, <6>1 DEF IInv, DayOK
        <5>3. QED
          BY <4>1, <5>1, <5>2
      <4>4. QED
        BY <4>2, <4>3 DEF IInv, DayOK
    <3>5. QED
      BY <1>1, <3>1, <3>2, <3>3, <3>4
  <2>4. QED
    BY <2>2, <2>3
<1>2. CASE AdvanceExits
  BY <1>2, AdvanceExitsKeeps DEF AdvanceExits, IInv, DayOK
<1>3. CASE AdvanceSignals
  BY <1>3, AdvanceSignalsKeeps DEF AdvanceSignals, IInv, DayOK
<1>4. ASSUME NEW r \in Rows, RegisterTrade(r)
      PROVE  RowsOK' /\ DayOK' /\ Stands
  <2>1. PICK kind \in Kinds : Register(r, kind, th.d, NoKey, FALSE, th.d)
    BY <1>4 DEF RegisterTrade
  <2>2. th.d \in Days /\ adv' = adv /\ day' = day /\ th' = th
    BY <1>4 DEF RegisterTrade, IInv, DayOK
  <2>3. RowsOK' /\ Stands
    BY <2>1, <2>2, RegisterKeeps
  <2>4. QED
    BY <2>2, <2>3 DEF IInv, DayOK
<1>5. ASSUME NEW r \in Rows, NEW k \in Keys, RegisterKey(r, k)
      PROVE  RowsOK' /\ DayOK' /\ Stands
  <2>1. PICK trial \in BOOLEAN, ref \in {0, day} : Register(r, "signal", day, k, trial, ref)
    BY <1>5 DEF RegisterKey
  <2>2. day \in Days /\ adv' = adv /\ day' = day /\ th' = th /\ "signal" \in Kinds
    BY <1>5 DEF RegisterKey, IInv, DayOK, Kinds
  <2>3. RowsOK' /\ Stands
    BY <2>1, <2>2, RegisterKeeps
  <2>4. QED
    BY <2>2, <2>3 DEF IInv, DayOK
<1>6. QED
  BY <1>1, <1>2, <1>3, <1>4, <1>5 DEF RegisterNext

-----------------------------------------------------------------------------
(* The entries.                                                            *)

\* A tag that names an entry goes on naming it.
Merged == \A k \in Keys : alias[k] # NoEntry => alias'[k] = alias[k]

\* The settled signals of an entry only grow.
LEMMA SettledGrows ==
  ASSUME IInv, Stands, Merged, NEW e \in Entries
  PROVE  /\ Settled(e) \subseteq Settled(e)'
         /\ Cardinality(Settled(e)) \in Nat /\ Cardinality(Settled(e)') \in Nat
         /\ Cardinality(Settled(e)) <= Cardinality(Settled(e)')
<1>1. NoEntry \notin Entries /\ IsFiniteSet(Rows)
  BY EntriesAssumption
<1>2. Settled(e) \subseteq Settled(e)'
  BY <1>1 DEF Settled, Stands, Merged
<1>3. Settled(e) \subseteq Rows /\ Settled(e)' \subseteq Rows
  BY DEF Settled
<1>4. IsFiniteSet(Settled(e)) /\ IsFiniteSet(Settled(e)')
  BY <1>1, <1>3, FS_Subset
<1>5. QED
  BY <1>2, <1>4, FS_Subset, FS_CardinalityType

LEMMA SameStats ==
  ASSUME IInv, Stands, Merged, UNCHANGED <<stats, rec, shown>>
  PROVE  StatsOK' /\ DispatchIsKept'
<1>1. \A e \in Entries : stats'[e].n <= Cardinality(Settled(e)')
  <2> SUFFICES ASSUME NEW e \in Entries PROVE stats'[e].n <= Cardinality(Settled(e)')
    OBVIOUS
  <2>1. stats[e].n \in Nat /\ stats[e].n <= Cardinality(Settled(e))
    BY DEF IInv, StatsOK
  <2>2. QED
    BY <2>1, SettledGrows
<1>2. \A t \in Recomputers : rec'[t].e # NoEntry => rec'[t].n <= Cardinality(Settled(rec[t].e)')
  <2> SUFFICES ASSUME NEW t \in Recomputers, rec[t].e # NoEntry
               PROVE  rec[t].n <= Cardinality(Settled(rec[t].e)')
    OBVIOUS
  <2>1. PICK e \in Entries : e = rec[t].e
    BY DEF IInv, StatsOK
  <2>2. rec[t].n \in Nat /\ rec[t].n <= Cardinality(Settled(e)) /\ rec'[t].e = e
    BY <2>1 DEF IInv, StatsOK
  <2>3. rec[t].n <= Cardinality(Settled(e)')
    BY <2>2, SettledGrows
  <2>4. Settled(rec[t].e)' = Settled(e)'
    BY <2>2 DEF Settled
  <2>5. QED
    BY <2>3, <2>4
<1>3. QED
  BY <1>1, <1>2 DEF IInv, StatsOK, DispatchIsKept

\* The steps of the entries and of the requests leave the register alone.
LEMMA RegisterRests ==
  ASSUME IInv, UNCHANGED registerVars
  PROVE  RowsOK' /\ DayOK' /\ Stands
BY DEF IInv, RowsOK, DayOK, Stands, registerVars

LEMMA LifeKeeps ==
  ASSUME IInv, Life
  PROVE  IInv' /\ Stands /\ Merged
<1>1. PICK e \in Entries : Create(e) \/ Delete(e) \/ Restore(e) \/ \E k \in Keys : MergeTag(k, e)
  BY DEF Life
<1>2. UNCHANGED registerVars /\ UNCHANGED <<stats, rec, queued, req, shown>>
  BY <1>1 DEF Create, Delete, Restore, MergeTag
<1>3. EntriesOK' /\ RequestsOK' /\ Merged
  <2>1. CASE Create(e)
    BY <2>1 DEF Create, IInv, EntriesOK, RequestsOK, Statuses, Merged
  <2>2. CASE Delete(e)
    <3>1. ent' = [ent EXCEPT ![e].gone = TRUE] /\ alias' = alias /\ req' = req
      BY <2>2 DEF Delete
    <3>2. /\ ent' \in [Entries -> [status : Statuses, gone : BOOLEAN, reviewed : BOOLEAN]]
          /\ \A f \in Entries : ent'[f].status = ent[f].status /\ ent'[f].reviewed = ent[f].reviewed
      BY <3>1 DEF IInv, EntriesOK
    <3>3. QED
      BY <3>1, <3>2 DEF IInv, EntriesOK, RequestsOK, Merged
  <2>3. CASE Restore(e)
    BY <2>3, ZenonT(40) DEF Restore, IInv, EntriesOK, RequestsOK, Merged
  <2>4. ASSUME NEW k \in Keys, MergeTag(k, e)
        PROVE  EntriesOK' /\ RequestsOK' /\ Merged
    BY <2>4 DEF MergeTag, IInv, EntriesOK, RequestsOK, Merged
  <2>5. QED
    BY <1>1, <2>1, <2>2, <2>3, <2>4
<1>4. RowsOK' /\ DayOK' /\ Stands
  BY <1>2, RegisterRests
<1>5. StatsOK' /\ DispatchIsKept'
  BY <1>2, <1>3, <1>4, SameStats
<1>6. QED
  BY <1>3, <1>4, <1>5 DEF IInv

LEMMA MovesAre ==
  /\ DOMAIN Moves = {"start_validation", "approve_valid", "invalidate", "seal"}
  /\ \A a \in DOMAIN Moves : Moves[a].to \in Statuses \ {"none"}
  /\ Moves["approve_valid"].from = {"validating"}
  /\ \A a \in DOMAIN Moves : /\ Moves[a].to = "valid" => a = "approve_valid"
                             /\ Moves[a].to = "validating" => a = "start_validation"
BY DEF Moves, Statuses

LEMMA RequestKeeps ==
  ASSUME IInv, NEW u \in Clients, Request(u)
  PROVE  IInv' /\ Stands /\ Merged
<1>1. UNCHANGED registerVars /\ UNCHANGED <<alias, rec>>
  BY DEF Request, TransitionRead, TransitionWrite, DispatchRead, DispatchWrite
<1>2. RowsOK' /\ DayOK' /\ Stands /\ Merged
  BY <1>1, RegisterRests DEF Merged
<1>3. EntriesOK' /\ RequestsOK' /\ StatsOK' /\ DispatchIsKept'
  <2>1. ASSUME NEW e \in Entries, NEW a \in DOMAIN Moves, TransitionRead(u, e, a)
        PROVE  EntriesOK' /\ RequestsOK' /\ StatsOK' /\ DispatchIsKept'
    <3>1. UNCHANGED <<ent, alias, stats, rec, shown>>
      BY <2>1 DEF TransitionRead
    <3>2. StatsOK' /\ DispatchIsKept'
      BY <1>2, <3>1, SameStats
    <3>3. a = "approve_valid" => ent[e].reviewed
      BY <2>1, MovesAre DEF TransitionRead, IInv, EntriesOK
    <3>4. req' = [req EXCEPT ![u] = [op |-> a, e |-> e]]
      BY <2>1 DEF TransitionRead
    <3>5. RequestsOK'
      BY <3>1, <3>3, <3>4 DEF IInv, RequestsOK
    <3>6. QED
      BY <3>1, <3>2, <3>5 DEF IInv, EntriesOK
  <2>2. CASE TransitionWrite(u)
    <3>1. UNCHANGED <<alias, stats, rec, shown>> /\ req[u].op \in DOMAIN Moves
          /\ req' = [req EXCEPT ![u] = NoRequest]
      BY <2>2 DEF TransitionWrite
    <3>2. StatsOK' /\ DispatchIsKept'
      BY <1>2, <3>1, SameStats
    <3>3. PICK e \in Entries : e = req[u].e
      BY <3>1, MovesAre DEF IInv, RequestsOK
    <3>4. PICK w \in {Moves[req[u].op].to} : TRUE
      OBVIOUS
    <3>5. ent' = [ent EXCEPT ![e].status = w, ![e].reviewed = @ \/ req[u].op = "start_validation"]
      BY <2>2, <3>3, <3>4 DEF TransitionWrite
    <3>6. /\ w \in Statuses
          /\ w = "valid" => ent[e].reviewed
          /\ w = "validating" => req[u].op = "start_validation"
      BY <3>1, <3>3, <3>4, MovesAre DEF IInv, RequestsOK
    <3>7. \A f \in Entries : /\ f # e => ent'[f] = ent[f]
                             /\ ent[f].reviewed => ent'[f].reviewed
      BY <3>5 DEF IInv, EntriesOK
    <3>8. EntriesOK'
      <4>1. ent'[e] = [status |-> w, gone |-> ent[e].gone,
                       reviewed |-> ent[e].reviewed \/ req[u].op = "start_validation"]
        BY <3>5, ZenonT(40) DEF IInv, EntriesOK
      <4>2. ent' \in [Entries -> [status : Statuses, gone : BOOLEAN, reviewed : BOOLEAN]]
        BY <3>5, <3>6, ZenonT(40) DEF IInv, EntriesOK
      <4>3. QED
        BY <3>1, <3>6, <3>7, <4>1, <4>2 DEF IInv, EntriesOK
    <3>9. RequestsOK'
      BY <3>1, <3>7 DEF IInv, RequestsOK, NoRequest
    <3>10. QED
      BY <3>2, <3>8, <3>9
  <2>3. CASE DispatchRead(u)
    <3>1. UNCHANGED <<ent, alias, stats, rec, shown>>
      BY <2>3 DEF DispatchRead
    <3>2. PICK e \in Entries : req' = [req EXCEPT ![u] = [op |-> "show", e |-> e]]
      BY <2>3 DEF DispatchRead, Eligible
    <3>3. StatsOK' /\ DispatchIsKept'
      BY <1>2, <3>1, SameStats
    <3>4. RequestsOK'
      BY <3>1, <3>2 DEF IInv, RequestsOK
    <3>5. QED
      BY <3>1, <3>3, <3>4 DEF IInv, EntriesOK
  <2>4. CASE DispatchWrite(u)
    <3>1. /\ UNCHANGED <<ent, alias, rec>> /\ req[u].op = "show"
          /\ req' = [req EXCEPT ![u] = NoRequest]
          /\ stats' = [stats EXCEPT ![req[u].e].dispatched = @ + 1]
          /\ shown' = [shown EXCEPT ![req[u].e] = @ + 1]
      BY <2>4 DEF DispatchWrite
    <3>2. PICK e \in Entries : e = req[u].e
      BY <3>1 DEF IInv, RequestsOK
    <3>3. /\ stats' \in [Entries -> [there : BOOLEAN, n : Nat, dispatched : Nat]]
          /\ shown' \in [Entries -> Nat]
          /\ \A f \in Entries : stats'[f].n = stats[f].n /\ stats'[f].dispatched = shown'[f]
      BY <3>1, <3>2 DEF IInv, StatsOK, DispatchIsKept
    <3>4. \A f \in Entries : Settled(f)' = Settled(f)
      BY <1>1 DEF Settled, registerVars
    <3>5. StatsOK'
      BY <3>1, <3>3, <3>4 DEF IInv, StatsOK, Settled, registerVars
    <3>6. RequestsOK'
      BY <3>1 DEF IInv, RequestsOK, NoRequest
    <3>7. QED
      BY <3>1, <3>3, <3>5, <3>6 DEF IInv, EntriesOK, DispatchIsKept
  <2>5. QED
    BY <2>1, <2>2, <2>3, <2>4 DEF Request
<1>4. QED
  BY <1>2, <1>3 DEF IInv

LEMMA EvidenceIsSettled ==
  ASSUME IInv, NEW e \in Entries
  PROVE  Cardinality(Evidence(e)) \in Nat /\ Cardinality(Evidence(e)) <= Cardinality(Settled(e))
<1>1. IsFiniteSet(Rows) /\ Settled(e) \subseteq Rows
  BY EntriesAssumption DEF Settled
<1>2. Evidence(e) \subseteq Settled(e)
  BY DEF Evidence, Settled, Tags
<1>3. QED
  BY <1>1, <1>2, FS_Subset, FS_CardinalityType

\* A recomputation begins, reads, writes or ends; the register may come to rest.
LEMMA RecomputeKeeps ==
  ASSUME IInv, \/ RecomputeEngine \/ RecomputeTask \/ EndEngine \/ EndTask
               \/ \E t \in Recomputers : Recompute(t)
  PROVE  IInv' /\ Stands /\ Merged
<1>1. /\ UNCHANGED <<row, adv, day, ent, alias, req, shown>>
      /\ th' \in {th, Idle}
  BY DEF RecomputeEngine, RecomputeTask, EndEngine, EndTask, Recompute, ReadEntry, WriteEntry, registerVars
<1>2. RowsOK' /\ DayOK' /\ Stands /\ Merged
  BY <1>1, DayOne DEF IInv, RowsOK, DayOK, Stands, Merged, Idle, Down
<1>3. EntriesOK' /\ RequestsOK'
  BY <1>1 DEF IInv, EntriesOK, RequestsOK
<1>4. \A e \in Entries : Settled(e)' = Settled(e)
  BY <1>1 DEF Settled
<1> DEFINE RecOK(w) == /\ w \in [on : BOOLEAN, todo : SUBSET Entries, e : Entries \cup {NoEntry},
                                 n : Nat, dispatched : Nat]
                       /\ w.e # NoEntry => w.n <= Cardinality(Settled(w.e))
<1>5. \A t \in Recomputers : RecOK(rec[t])
  BY DEF IInv, StatsOK
<1>6. /\ stats \in [Entries -> [there : BOOLEAN, n : Nat, dispatched : Nat]]
      /\ \A e \in Entries : stats[e].n <= Cardinality(Settled(e)) /\ stats[e].dispatched = shown[e]
      /\ rec \in [Recomputers -> [on : BOOLEAN, todo : SUBSET Entries, e : Entries \cup {NoEntry},
                                  n : Nat, dispatched : Nat]]
  BY DEF IInv, StatsOK, DispatchIsKept
<1>7. ASSUME NEW t \in Recomputers, NEW w, RecOK(w), rec' = [rec EXCEPT ![t] = w], stats' = stats
      PROVE  StatsOK' /\ DispatchIsKept'
  <2>1. \A q \in Recomputers : RecOK(rec'[q])
    BY <1>5, <1>6, <1>7
  <2>2. rec' \in [Recomputers -> [on : BOOLEAN, todo : SUBSET Entries, e : Entries \cup {NoEntry},
                                  n : Nat, dispatched : Nat]]
    BY <1>6, <1>7
  <2>3. QED
    BY <1>1, <1>4, <1>6, <1>7, <2>1, <2>2 DEF IInv, StatsOK, DispatchIsKept, Settled
<1>8. StatsOK' /\ DispatchIsKept'
  <2>1. ASSUME NEW t \in Recomputers, Begin(t), stats' = stats
        PROVE  StatsOK' /\ DispatchIsKept'
    <3> DEFINE w == [Resting EXCEPT !.on = TRUE, !.todo = {e \in Entries : ent[e].status # "none"}]
    <3>1. RecOK(w)
      BY DEF Resting
    <3>2. rec' = [rec EXCEPT ![t] = w]
      BY <2>1 DEF Begin
    <3> HIDE DEF w
    <3>3. QED
      BY <1>7, <2>1, <3>1, <3>2
  <2>2. RecOK(Resting)
    BY DEF Resting
  <2>3. ASSUME NEW t \in Recomputers, ReadEntry(t)
        PROVE  StatsOK' /\ DispatchIsKept'
    <3>1. PICK e \in rec[t].todo :
            rec' = [rec EXCEPT ![t].e = e, ![t].n = Cardinality(Evidence(e)),
                               ![t].dispatched = stats[e].dispatched]
      BY <2>3 DEF ReadEntry
    <3> DEFINE w == [rec[t] EXCEPT !.e = e, !.n = Cardinality(Evidence(e)),
                                   !.dispatched = stats[e].dispatched]
    <3>2. e \in Entries /\ stats[e].dispatched \in Nat
      BY <1>6
    <3>3. Cardinality(Evidence(e)) \in Nat /\ Cardinality(Evidence(e)) <= Cardinality(Settled(e))
      BY <3>2, EvidenceIsSettled
    <3>4. RecOK(w)
      BY <1>5, <3>2, <3>3
    <3>5. rec' = [rec EXCEPT ![t] = w] /\ stats' = stats
      BY <2>3, <3>1 DEF ReadEntry
    <3> HIDE DEF w
    <3>6. QED
      BY <1>7, <3>4, <3>5
  <2>4. ASSUME NEW t \in Recomputers, WriteEntry(t)
        PROVE  StatsOK' /\ DispatchIsKept'
    <3>1. PICK e \in Entries : e = rec[t].e
      BY <1>5, <2>4 DEF WriteEntry
    <3>2. PICK n \in Nat : n = rec[t].n /\ n <= Cardinality(Settled(e))
      BY <1>5, <2>4, <3>1 DEF WriteEntry
    <3>3. stats' = [stats EXCEPT ![e].there = TRUE, ![e].n = n]
      BY <2>4, <3>1, <3>2 DEF WriteEntry
    <3>4. /\ stats' \in [Entries -> [there : BOOLEAN, n : Nat, dispatched : Nat]]
          /\ \A f \in Entries : stats'[f].n <= Cardinality(Settled(f)) /\ stats'[f].dispatched = shown[f]
      BY <1>6, <3>2, <3>3, ZenonT(40)
    <3> DEFINE w == [Resting EXCEPT !.on = TRUE, !.todo = rec[t].todo \ {rec[t].e}]
    <3>5. RecOK(w)
      BY <1>5 DEF Resting
    <3>6. rec' = [rec EXCEPT ![t] = w]
      BY <2>4 DEF WriteEntry
    <3> HIDE DEF w
    <3>7. \A q \in Recomputers : RecOK(rec'[q])
      BY <1>5, <1>6, <3>5, <3>6
    <3>8. rec' \in [Recomputers -> [on : BOOLEAN, todo : SUBSET Entries, e : Entries \cup {NoEntry},
                                    n : Nat, dispatched : Nat]]
      BY <1>6, <3>5, <3>6
    <3>9. QED
      BY <1>1, <1>4, <3>4, <3>7, <3>8 DEF IInv, StatsOK, DispatchIsKept, Settled
  <2>5. CASE RecomputeEngine
    BY <2>1, <2>5 DEF RecomputeEngine, Recomputers
  <2>6. CASE RecomputeTask
    BY <2>1, <2>6 DEF RecomputeTask, Recomputers
  <2>7. CASE EndEngine
    BY <1>7, <2>2, <2>7 DEF EndEngine, Recomputers
  <2>8. CASE EndTask
    BY <1>7, <2>2, <2>8 DEF EndTask, Recomputers
  <2>9. QED
    BY <2>3, <2>4, <2>5, <2>6, <2>7, <2>8 DEF Recompute
<1>9. QED
  BY <1>2, <1>3, <1>8 DEF IInv

LEMMA CrashKeeps ==
  ASSUME IInv, Crash
  PROVE  IInv' /\ Stands /\ Merged
<1>1. /\ UNCHANGED <<row, adv, day, ent, alias, stats, shown>> /\ th' = Down
      /\ rec' = [t \in Recomputers |-> Resting] /\ req' = [u \in Clients |-> NoRequest]
  BY DEF Crash, Stop
<1>2. RowsOK' /\ DayOK' /\ Stands /\ Merged /\ EntriesOK' /\ RequestsOK'
  BY <1>1, DayOne DEF IInv, RowsOK, DayOK, EntriesOK, RequestsOK, Stands, Merged, Down, NoRequest
<1>3. \A e \in Entries : Settled(e)' = Settled(e)
  BY <1>1 DEF Settled
<1>4. rec' \in [Recomputers -> [on : BOOLEAN, todo : SUBSET Entries, e : Entries \cup {NoEntry},
                                n : Nat, dispatched : Nat]]
      /\ \A t \in Recomputers : rec'[t].e = NoEntry
  BY <1>1 DEF Resting
<1>5. StatsOK' /\ DispatchIsKept'
  BY <1>1, <1>3, <1>4 DEF IInv, StatsOK, DispatchIsKept, Settled
<1>6. QED
  BY <1>2, <1>5 DEF IInv

-----------------------------------------------------------------------------

LEMMA InitIInv == Init => IInv
<1> SUFFICES ASSUME Init PROVE IInv
  OBVIOUS
<1>1. RowsOK /\ DayOK
  BY DayOne DEF Init, RegisterInit, Unregistered, Down, RowsOK, RowOK, RowFields, DayOK, Kinds
<1>2. EntriesOK /\ RequestsOK /\ DispatchIsKept
  BY DEF Init, EntriesOK, RequestsOK, DispatchIsKept, NoRow, NoRequest, Statuses
<1>3. \A e \in Entries : Cardinality(Settled(e)) \in Nat
  BY EntriesAssumption, FS_Subset, FS_CardinalityType DEF Settled
<1>4. StatsOK
  BY <1>3 DEF Init, StatsOK, NoRow, Resting
<1>5. QED
  BY <1>1, <1>2, <1>4 DEF IInv

LEMMA NextKeeps ==
  ASSUME IInv, [Next]_vars
  PROVE  IInv' /\ Stands /\ Merged
<1>1. CASE RegisterNext /\ UNCHANGED kbVars
  <2>1. RowsOK' /\ DayOK' /\ Stands
    BY <1>1, RegisterStep
  <2>2. Merged /\ EntriesOK' /\ RequestsOK'
    BY <1>1 DEF Merged, kbVars, IInv, EntriesOK, RequestsOK
  <2>3. StatsOK' /\ DispatchIsKept'
    BY <1>1, <2>1, <2>2, SameStats DEF kbVars
  <2>4. QED
    BY <2>1, <2>2, <2>3 DEF IInv
<1>2. CASE Life
  BY <1>2, LifeKeeps
<1>3. ASSUME NEW u \in Clients, Request(u) PROVE IInv' /\ Stands /\ Merged
  BY <1>3, RequestKeeps
<1>4. CASE RecomputeEngine \/ RecomputeTask \/ EndEngine \/ EndTask \/ \E t \in Recomputers : Recompute(t)
  BY <1>4, RecomputeKeeps
<1>5. CASE Crash
  BY <1>5, CrashKeeps
<1>6. CASE UNCHANGED vars
  <2>1. RowsOK' /\ DayOK' /\ Stands
    BY <1>6, RegisterRests DEF vars
  <2>2. Merged /\ EntriesOK' /\ RequestsOK'
    BY <1>6 DEF Merged, vars, kbVars, IInv, EntriesOK, RequestsOK
  <2>3. StatsOK' /\ DispatchIsKept'
    BY <1>6, <2>1, <2>2, SameStats DEF vars, kbVars
  <2>4. QED
    BY <2>1, <2>2, <2>3 DEF IInv
<1>7. QED
  BY <1>1, <1>2, <1>3, <1>4, <1>5, <1>6 DEF Next

LEMMA Inductive == Spec => []IInv
<1>1. IInv /\ [Next]_vars => IInv'
  BY NextKeeps
<1>2. QED
  BY InitIInv, <1>1, PTL DEF Spec

\* The forward window of every row is counted on distinct later days, and settled on
\* the N-th of them (settle_due, settle_exits), for every N and number of rows.
THEOREM WindowsAreForward == Spec => []WindowIsForward
<1>1. IInv => WindowIsForward
  BY DEF IInv, RowsOK, RowOK, WindowIsForward
<1>2. QED
  BY Inductive, <1>1, PTL

\* No dispatch is lost to a recomputation that overlaps it (upsert_stats).
THEOREM DispatchesAreKept == Spec => []DispatchIsKept
<1>1. IInv => DispatchIsKept
  BY DEF IInv
<1>2. QED
  BY Inductive, <1>1, PTL

\* No statistic of an entry counts more than the settled signals of its names
\* (recompute_stats), whatever overlaps.
THEOREM EvidenceStands == Spec => []EvidenceIsReal
<1>1. IInv => EvidenceIsReal
  BY DEF IInv, StatsOK, EvidenceIsReal, Settled
<1>2. QED
  BY Inductive, <1>1, PTL

\* A base once taken stays, and a settled row is not written again (settle_due,
\* settle_exits).
THEOREM ResultsAreFinal == Spec => ResultsStand
<1>1. IInv /\ [Next]_vars => [\A r \in Rows : /\ row[r].end > 0 => row'[r] = row[r]
                                              /\ row[r].ref > 0 => row'[r].ref = row[r].ref]_registerVars
  BY NextKeeps DEF Stands
<1>2. QED
  BY Inductive, <1>1, PTL DEF Spec, ResultsStand

\* A merged tag stays merged, and an entry becomes valid only after a review had
\* started its validation (merge_tag, transition_kb), whatever requests overlap.
THEOREM LifeHolds == Spec => LifeIsLawful
<1>1. IInv /\ [Next]_vars => [/\ \A k \in Keys : alias[k] # NoEntry => alias'[k] = alias[k]
                              /\ \A e \in Entries : ent'[e].status = "valid" => ent'[e].reviewed]_vars
  BY NextKeeps DEF Merged, IInv, EntriesOK
<1>2. QED
  BY Inductive, <1>1, PTL DEF Spec, LifeIsLawful

-----------------------------------------------------------------------------
(***************************************************************************)
(* Conversation                                                            *)
(***************************************************************************)

Message == [dir : {"none", "user", "agent"}, ts : 0..MaxTime, re : Ids \cup {None},
            st : {"none", "queued", "processing", "delivered", "pending_review", "failed"},
            order : BOOLEAN, read : BOOLEAN]
Places == {"none", "sent", "queued", "processing", "reply", "replied", "audit", "passed", "lost"}

ChatTyped == /\ now \in 0..MaxTime /\ msg \in [Ids -> Message] /\ work \in [Ids -> Places]
             /\ traded \subseteq Ids /\ review \in [Reviewers -> Ids \cup {None}]

\* What a message of the user and its task say of each other.
ReceiptOK(i) ==
    /\ work[i] # "none" => msg[i].dir = "user"
    /\ work[i] \in {"sent", "queued", "processing", "reply", "passed"} => \A r \in Ids : msg[r].re # i
    /\ work[i] \in {"replied", "audit"} => \E r \in Ids : msg[r].re = i
    /\ work[i] \in {"audit", "passed"} => msg[i].st = "delivered"
    /\ msg[i].dir = "user" /\ msg[i].st = "delivered" => work[i] = "passed" \/ \E r \in Ids : msg[r].re = i
    /\ msg[i].dir = "user" /\ msg[i].st \in {"queued", "processing"} => work[i] # "none"

\* A reply is to a message of the user, and the only one.
ReplyOK(r) ==
    /\ msg[r].dir = "none" => msg[r] = NoMessage
    /\ msg[r].st = "pending_review" => msg[r].dir = "agent"
    /\ msg[r].re # None => /\ msg[msg[r].re].dir = "user"
                           /\ msg[r].order <=> msg[r].re \in traded
                           /\ \A q \in Ids : msg[q].re = msg[r].re => q = r

ReviewOK == \A v \in Reviewers : review[v] # None => msg[review[v]].dir = "agent"

ReceiptInv == /\ ChatTyped /\ ReviewOK
              /\ \A i \in Ids : ReceiptOK(i) /\ ReplyOK(i)

LEMMA IdsAre == IsFiniteSet(Ids) /\ Ids \subseteq Nat \ {0} /\ None \notin Ids
<1>1. MaxId \in Nat
  BY BoundsAssumption
<1> QED BY <1>1, FS_Interval DEF Ids, None

LEMMA ReceiptsFollow == ASSUME ReceiptInv PROVE ReceiptsAreTrue
<1> SUFFICES ASSUME NEW i \in Ids, msg[i].dir = "user"
             PROVE  /\ Cardinality(Replies(i)) <= 1
                    /\ msg[i].st = "delivered" => (Replies(i) = {} <=> work[i] = "passed")
                    /\ \A r \in Replies(i) : msg[r].order <=> i \in traded
                    /\ msg[i].st \in {"queued", "processing"} => work[i] # "none"
  BY DEF ReceiptsAreTrue
<1>1. ReceiptOK(i) /\ \A r \in Ids : ReplyOK(r)
  BY DEF ReceiptInv
<1>2. \A r \in Replies(i) : r \in Ids /\ msg[r].re = i /\ i # None
  BY IdsAre DEF Replies
<1>3. \A r \in Replies(i) : (msg[r].order <=> i \in traded) /\ \A q \in Replies(i) : q = r
  BY <1>1, <1>2 DEF ReplyOK
<1>4. Cardinality(Replies(i)) <= 1
  <2>1. CASE Replies(i) = {}
    BY <2>1, FS_EmptySet
  <2>2. ASSUME NEW r \in Replies(i) PROVE Cardinality(Replies(i)) <= 1
    <3>1. Replies(i) = {r}
      BY <1>3
    <3> QED BY <3>1, FS_Singleton
  <2> QED BY <2>1, <2>2
<1> QED BY <1>1, <1>3, <1>4 DEF ReceiptOK, Replies

LEMMA ChatStarts == ASSUME ChatInit PROVE ReceiptInv
<1>1. NoMessage \in Message /\ now \in 0..MaxTime
  BY BoundsAssumption DEF NoMessage, Message, ChatInit
<1> QED
  BY <1>1, IdsAre DEF ChatInit, ReceiptInv, ChatTyped, ReviewOK, ReceiptOK, ReplyOK, Places, NoMessage

\* A message's status changes, and its task's place.
LEMMA StatusChanges ==
  ASSUME ReceiptInv, NEW i \in Ids, NEW st \in {"processing", "delivered", "failed"}, SetStatus(i, st)
  PROVE  /\ msg' \in [Ids -> Message] /\ msg'[i].st = st
         /\ \A j \in Ids : /\ msg'[j].dir = msg[j].dir /\ msg'[j].re = msg[j].re
                           /\ msg'[j].order = msg[j].order /\ (j # i => msg'[j] = msg[j])
BY DEF SetStatus, ReceiptInv, ChatTyped, Message

\* Replies stay what they are while no message changes what it is.
LEMMA RepliesStay ==
  ASSUME ReceiptInv, traded' = traded,
         \A j \in Ids : /\ msg'[j].dir = msg[j].dir /\ msg'[j].re = msg[j].re
                        /\ msg'[j].order = msg[j].order
                        /\ msg[j].dir = "none" => msg'[j] = msg[j]
                        /\ msg'[j].st = "pending_review" => msg[j].st = "pending_review"
  PROVE  \A j \in Ids : ReplyOK(j)'
<1> SUFFICES ASSUME NEW j \in Ids PROVE ReplyOK(j)'
  OBVIOUS
<1>1. ReplyOK(j) /\ msg[j].re \in Ids \cup {None}
  BY DEF ReceiptInv, ChatTyped, Message
<1>2. msg[j].re # None => msg'[msg[j].re].dir = msg[msg[j].re].dir
  BY <1>1
<1>3. \A q \in Ids : msg'[q].re = msg'[j].re <=> msg[q].re = msg[j].re
  OBVIOUS
<1> QED BY <1>1, <1>2, <1>3 DEF ReplyOK

\* A new message that replies to none leaves the replies what they are.
LEMMA RepliesStayToo ==
  ASSUME ReceiptInv, traded' = traded, NEW i \in Ids, msg[i] = NoMessage,
         msg'[i].re = None, msg'[i].dir # "none",
         msg'[i].st = "pending_review" => msg'[i].dir = "agent",
         \A j \in Ids \ {i} : msg'[j] = msg[j]
  PROVE  \A j \in Ids : ReplyOK(j)'
<1> SUFFICES ASSUME NEW j \in Ids PROVE ReplyOK(j)'
  OBVIOUS
<1>1. CASE j = i
  BY <1>1 DEF ReplyOK
<1>2. CASE j # i
  <2>1. ReplyOK(j) /\ msg[j].re \in Ids \cup {None} /\ msg'[j] = msg[j]
    BY <1>2 DEF ReceiptInv, ChatTyped, Message
  <2>2. msg[j].re # None => msg[j].re # i /\ msg'[msg[j].re] = msg[msg[j].re]
    BY <2>1 DEF ReplyOK, NoMessage
  <2>3. \A q \in Ids : msg'[q].re = msg[j].re /\ msg[j].re # None => msg[q].re = msg[j].re
    OBVIOUS
  <2> QED BY <2>1, <2>2, <2>3 DEF ReplyOK
<1> QED BY <1>1, <1>2

\* A new message under an id that none has.
LEMMA MessageComes ==
  ASSUME ReceiptInv, NEW i \in Ids, Draw(i), NEW dir \in {"user", "agent"}, NEW re \in Ids \cup {None},
         NEW st \in {"queued", "delivered", "pending_review"}, NEW order2 \in BOOLEAN,
         Put(i, dir, st, re, order2)
  PROVE  /\ msg' \in [Ids -> Message] /\ msg[i] = NoMessage /\ work[i] = "none"
         /\ msg'[i].dir = dir /\ msg'[i].st = st /\ msg'[i].re = re /\ msg'[i].order = order2
         /\ \A j \in Ids \ {i} : msg'[j] = msg[j]
<1>1. msg[i] = NoMessage /\ work[i] = "none"
  BY DEF Draw, Kept, ReceiptInv, ReplyOK, ReceiptOK, NoMessage
<1> DEFINE new == [dir |-> dir, st |-> st, ts |-> now, re |-> re, order |-> order2, read |-> FALSE]
<1>2. new \in Message
  BY DEF Message, ReceiptInv, ChatTyped
<1>3. msg' = [msg EXCEPT ![i] = new]
  BY DEF Put
<1> HIDE DEF new
<1>4. msg' \in [Ids -> Message] /\ msg'[i] = new /\ \A j \in Ids \ {i} : msg'[j] = msg[j]
  BY <1>2, <1>3 DEF ReceiptInv, ChatTyped
<1> QED BY <1>1, <1>4 DEF new

LEMMA ChatGoes == ASSUME ReceiptInv, [ChatNext]_chatVars PROVE ReceiptInv'
<1>0. /\ ChatTyped /\ ReviewOK /\ IsFiniteSet(Ids) /\ Ids \subseteq Nat \ {0} /\ None \notin Ids
      /\ \A i \in Ids : ReceiptOK(i) /\ ReplyOK(i)
  BY IdsAre DEF ReceiptInv
<1>1. ASSUME UNCHANGED <<msg, work, traded, review>>, now' \in 0..MaxTime
      PROVE  ReceiptInv'
  BY <1>0, <1>1 DEF ReceiptInv, ChatTyped, ReviewOK, ReceiptOK, ReplyOK
<1>2. CASE Clock \/ Open \/ Load \/ UNCHANGED chatVars
  <2>1. UNCHANGED <<msg, work, traded, review>>
    BY <1>2 DEF Clock, Open, Load, chatVars
  <2>2. now' \in 0..MaxTime
    BY <1>0, <1>2, BoundsAssumption DEF ChatTyped, Clock, Open, Load, chatVars
  <2> QED BY <1>1, <2>1, <2>2
<1>3. CASE MarkRead
  <2>1. \A i \in Ids : msg'[i] = [msg[i] EXCEPT !.read = @ \/ Unread(i)]
    BY <1>3 DEF MarkRead
  <2>2. /\ msg' \in [Ids -> Message]
        /\ \A i \in Ids : /\ msg'[i].dir = msg[i].dir /\ msg'[i].st = msg[i].st
                          /\ msg'[i].re = msg[i].re /\ msg'[i].order = msg[i].order
                          /\ msg[i].dir = "none" => msg'[i] = msg[i]
    <3>1. ASSUME NEW i \in Ids
          PROVE  /\ msg'[i] \in Message
                 /\ msg'[i].dir = msg[i].dir /\ msg'[i].st = msg[i].st
                 /\ msg'[i].re = msg[i].re /\ msg'[i].order = msg[i].order
                 /\ msg[i].dir = "none" => msg'[i] = msg[i]
      <4>1. msg[i] \in Message /\ Unread(i) \in BOOLEAN
        BY <1>0 DEF ChatTyped, Unread
      <4>2. msg[i].dir = "none" => ~Unread(i)
        BY DEF Unread
      <4> DEFINE u == Unread(i)
      <4> HIDE DEF u
      <4>3. msg'[i] = [msg[i] EXCEPT !.read = @ \/ u]
        BY <2>1 DEF u
      <4> QED BY <4>1, <4>2, <4>3 DEF Message, u
    <3>2. msg' = [i \in Ids |-> msg'[i]]
      BY <1>3 DEF MarkRead
    <3> QED BY <3>1, <3>2
  <2>3. UNCHANGED <<now, work, traded, review>>
    BY <1>3 DEF MarkRead
  <2>4. ChatTyped' /\ ReviewOK'
    BY <1>0, <2>2, <2>3 DEF ChatTyped, ReviewOK
  <2>5. ASSUME NEW j \in Ids PROVE ReceiptOK(j)'
    BY <1>0, <2>2, <2>3 DEF ReceiptOK
  <2>6. \A j \in Ids : ReplyOK(j)'
    BY <2>2, <2>3, RepliesStay
  <2> QED BY <2>4, <2>5, <2>6 DEF ReceiptInv
<1>4. CASE Restart
  <2>1. UNCHANGED <<now, msg, traded>>
    BY <1>4 DEF Restart
  <2>2. /\ work' \in [Ids -> Places]
        /\ \A i \in Ids : /\ work'[i] = work[i] \/ work'[i] = "lost" \/ work'[i] = "none"
                          /\ work'[i] = "lost" /\ work[i] # "lost" => Waits(i)
                          /\ work'[i] = "none" => work[i] \in {"none", "audit"}
    <3>1. work' = [i \in Ids |-> IF Waits(i) THEN "lost" ELSE IF work[i] = "audit" THEN "none" ELSE work[i]]
      BY <1>4 DEF Restart
    <3>2. \A i \in Ids : work[i] \in Places
      BY <1>0 DEF ChatTyped
    <3> QED BY <3>1, <3>2 DEF Places
  <2>3. review' = [v \in Reviewers |-> None]
    BY <1>4 DEF Restart
  <2>4. ChatTyped' /\ ReviewOK'
    BY <1>0, <2>1, <2>2, <2>3 DEF ChatTyped, ReviewOK
  <2>5. ASSUME NEW j \in Ids PROVE ReceiptOK(j)'
    BY <1>0, <2>1, <2>2 DEF ReceiptOK, Waits
  <2>6. ASSUME NEW j \in Ids PROVE ReplyOK(j)'
    BY <1>0, <2>1 DEF ReplyOK
  <2> QED BY <2>4, <2>5, <2>6 DEF ReceiptInv
<1>5. ASSUME NEW i \in Ids, Send(i) PROVE ReceiptInv'
  <2>1. Draw(i) /\ Put(i, "user", "queued", None, FALSE)
    BY <1>5 DEF Send
  <2>2. /\ msg' \in [Ids -> Message] /\ msg[i] = NoMessage /\ work[i] = "none"
        /\ msg'[i].dir = "user" /\ msg'[i].st = "queued" /\ msg'[i].re = None
        /\ \A j \in Ids \ {i} : msg'[j] = msg[j]
    BY <2>1, MessageComes
  <2>3. /\ work' = [work EXCEPT ![i] = "sent"] /\ UNCHANGED <<now, traded, review>>
    BY <1>5 DEF Send
  <2>4. \A r \in Ids : msg[r].re # i
    BY <1>0, <2>2 DEF ReplyOK, NoMessage
  <2>5. ChatTyped' /\ ReviewOK'
    <3>1. \A v \in Reviewers : review[v] # i
      BY <1>0, <2>2 DEF ReviewOK, NoMessage
    <3> QED BY <1>0, <2>2, <2>3, <3>1 DEF ChatTyped, Places, ReviewOK
  <2>6. ASSUME NEW j \in Ids PROVE ReceiptOK(j)'
    <3>1. CASE j = i
      BY <1>0, <2>2, <2>3, <2>4, <3>1 DEF ReceiptOK, ChatTyped
    <3>2. CASE j # i
      BY <1>0, <2>2, <2>3, <3>2 DEF ReceiptOK, ChatTyped, NoMessage
    <3> QED BY <3>1, <3>2
  <2>7. \A j \in Ids : ReplyOK(j)'
    BY <2>2, <2>3, RepliesStayToo
  <2> QED BY <2>5, <2>6, <2>7 DEF ReceiptInv
<1>6. ASSUME NEW i \in Ids, Deliver(i) PROVE ReceiptInv'
  <2>0. Draw(i)
    BY <1>6 DEF Deliver
  <2>1. PICK st \in {"delivered", "pending_review"} : Put(i, "agent", st, None, FALSE)
    BY <1>6 DEF Deliver
  <2>2. /\ msg' \in [Ids -> Message] /\ msg[i] = NoMessage /\ work[i] = "none"
        /\ msg'[i].dir = "agent" /\ msg'[i].st = st /\ msg'[i].re = None
        /\ \A j \in Ids \ {i} : msg'[j] = msg[j]
    <3>1. CASE st = "delivered"
      BY <2>0, <2>1, <3>1, MessageComes
    <3>2. CASE st = "pending_review"
      BY <2>0, <2>1, <3>2, MessageComes
    <3> QED BY <3>1, <3>2
  <2>3. UNCHANGED <<now, work, traded, review>>
    BY <1>6 DEF Deliver
  <2>4. ChatTyped' /\ ReviewOK'
    BY <1>0, <2>2, <2>3 DEF ChatTyped, ReviewOK, NoMessage
  <2>5. ASSUME NEW j \in Ids PROVE ReceiptOK(j)'
    BY <1>0, <2>2, <2>3 DEF ReceiptOK, NoMessage
  <2>6. \A j \in Ids : ReplyOK(j)'
    BY <2>2, <2>3, RepliesStayToo
  <2> QED BY <2>4, <2>5, <2>6 DEF ReceiptInv
<1>7. ASSUME NEW i \in Ids, NEW st \in {"processing", "delivered", "failed"}, SetStatus(i, st),
             NEW w \in Places, work' = [work EXCEPT ![i] = w], work[i] # "none",
             UNCHANGED <<now, traded, review>>,
             \/ st = "processing" /\ w = "processing" /\ work[i] = "queued"
             \/ st = "delivered" /\ w = "passed" /\ work[i] = "queued"
             \/ st = "delivered" /\ w = "audit" /\ work[i] = "replied"
             \/ st = "failed" /\ w = "none"
      PROVE  ReceiptInv'
  <2>1. /\ msg' \in [Ids -> Message] /\ msg'[i].st = st
        /\ \A j \in Ids : /\ msg'[j].dir = msg[j].dir /\ msg'[j].re = msg[j].re
                          /\ msg'[j].order = msg[j].order /\ (j # i => msg'[j] = msg[j])
    BY <1>7, StatusChanges
  <2>2. msg[i].dir = "user"
    BY <1>0, <1>7 DEF ReceiptOK
  <2>3. ChatTyped' /\ ReviewOK'
    <3>1. work' \in [Ids -> Places]
      BY <1>0, <1>7 DEF ChatTyped
    <3>2. ChatTyped'
      BY <1>0, <1>7, <2>1, <3>1 DEF ChatTyped
    <3>3. \A v \in Reviewers : review[v] # None => review[v] \in Ids
      BY <1>0 DEF ChatTyped
    <3>4. ReviewOK'
      BY <1>0, <1>7, <2>1, <3>3 DEF ReviewOK
    <3> QED BY <3>2, <3>4
  <2>4. ASSUME NEW j \in Ids PROVE ReceiptOK(j)'
    <3>1. CASE j = i
      BY <1>0, <1>7, <2>1, <3>1 DEF ReceiptOK, ChatTyped
    <3>2. CASE j # i
      BY <1>0, <1>7, <2>1, <3>2 DEF ReceiptOK, ChatTyped
    <3> QED BY <3>1, <3>2
  <2>5. \A j \in Ids : ReplyOK(j)'
    BY <1>7, <2>1, <2>2, RepliesStay
  <2> QED BY <2>3, <2>4, <2>5 DEF ReceiptInv
<1>8. ASSUME NEW i \in Ids, Pass(i) \/ Process(i) \/ Answered(i) \/ Fails(i) PROVE ReceiptInv'
  <2>1. CASE Process(i)
    BY <1>7, <2>1 DEF Process, Places
  <2>2. CASE Answered(i)
    BY <1>7, <2>2 DEF Answered, Places
  <2>3. CASE Fails(i)
    BY <1>7, <2>3 DEF Fails, Places
  <2>4. CASE Pass(i)
    BY <1>7, <2>4 DEF Pass, Places
  <2> QED BY <1>8, <2>1, <2>2, <2>3, <2>4
<1>9. ASSUME NEW i \in Ids, DemoOrder(i) PROVE ReceiptInv'
  <2>1. /\ work[i] = "processing" /\ work' = [work EXCEPT ![i] = "reply"]
        /\ UNCHANGED <<now, msg, review>>
        /\ traded' \subseteq Ids /\ traded' \cup {i} = traded \cup {i}
    BY <1>0, <1>9 DEF DemoOrder, ChatTyped
  <2>2. \A r \in Ids : msg[r].re # i
    BY <1>0, <2>1 DEF ReceiptOK
  <2>3. ChatTyped' /\ ReviewOK'
    BY <1>0, <2>1 DEF ChatTyped, ReviewOK, Places
  <2>4. ASSUME NEW j \in Ids PROVE ReceiptOK(j)'
    BY <1>0, <2>1 DEF ReceiptOK, ChatTyped
  <2>5. ASSUME NEW j \in Ids PROVE ReplyOK(j)'
    <3>1. msg[j].re # i
      BY <2>2
    <3>2. msg[j].re \in traded' <=> msg[j].re \in traded
      BY <2>1, <3>1
    <3> QED BY <1>0, <2>1, <3>2 DEF ReplyOK
  <2> QED BY <2>3, <2>4, <2>5 DEF ReceiptInv
<1>10. ASSUME NEW i \in Ids, NEW r \in Ids, Reply(i, r) PROVE ReceiptInv'
  <2>1. /\ Draw(r) /\ Put(r, "agent", "delivered", i, i \in traded) /\ work[i] = "reply"
        /\ work' = [work EXCEPT ![i] = "replied"] /\ UNCHANGED <<now, traded, review>>
    BY <1>10 DEF Reply
  <2>2. /\ msg' \in [Ids -> Message] /\ msg[r] = NoMessage /\ work[r] = "none"
        /\ msg'[r].dir = "agent" /\ msg'[r].st = "delivered" /\ msg'[r].re = i
        /\ msg'[r].order = (i \in traded)
        /\ \A j \in Ids \ {r} : msg'[j] = msg[j]
    <3> DEFINE placed == i \in traded
    <3>1. placed \in BOOLEAN /\ Put(r, "agent", "delivered", i, placed)
      BY <2>1
    <3> HIDE DEF placed
    <3>2. /\ msg' \in [Ids -> Message] /\ msg[r] = NoMessage /\ work[r] = "none"
          /\ msg'[r].dir = "agent" /\ msg'[r].st = "delivered" /\ msg'[r].re = i
          /\ msg'[r].order = placed
          /\ \A j \in Ids \ {r} : msg'[j] = msg[j]
      BY <2>1, <3>1, MessageComes
    <3> QED BY <3>2 DEF placed
  <2>3. /\ \A q \in Ids : msg[q].re # i
        /\ msg[i].dir = "user" /\ i # r /\ i # None
    BY <1>0, <2>1, <2>2 DEF ReceiptOK
  <2>4. ChatTyped' /\ ReviewOK'
    BY <1>0, <2>1, <2>2 DEF ChatTyped, ReviewOK, Places, NoMessage
  <2>5. ASSUME NEW j \in Ids PROVE ReceiptOK(j)'
    <3>1. CASE j = i
      BY <1>0, <2>1, <2>2, <2>3, <3>1 DEF ReceiptOK, ChatTyped
    <3>2. CASE j = r
      BY <1>0, <2>1, <2>2, <2>3, <3>2 DEF ReceiptOK, ChatTyped
    <3>3. CASE j # i /\ j # r
      <4>1. work'[j] = work[j] /\ msg'[j] = msg[j]
        BY <1>0, <2>1, <2>2, <3>3 DEF ChatTyped
      <4>2. \A q \in Ids : msg'[q].re = j <=> msg[q].re = j
        BY <1>0, <2>2, <3>3 DEF NoMessage
      <4>3. /\ (\E q \in Ids : msg'[q].re = j) <=> (\E q \in Ids : msg[q].re = j)
            /\ (\A q \in Ids : msg'[q].re # j) <=> (\A q \in Ids : msg[q].re # j)
        BY <4>2
      <4>4. ReceiptOK(j)
        BY <1>0
      <4> QED BY <4>1, <4>3, <4>4 DEF ReceiptOK
    <3> QED BY <3>1, <3>2, <3>3
  <2>6. ASSUME NEW j \in Ids PROVE ReplyOK(j)'
    <3>1. CASE j = r
      <4>1. msg'[i] = msg[i] /\ msg'[i].dir = "user"
        BY <2>2, <2>3
      <4>2. msg'[r].order <=> i \in traded'
        BY <2>1, <2>2
      <4>3. \A q \in Ids : msg'[q].re = i => q = r
        BY <2>2, <2>3
      <4> QED BY <2>2, <3>1, <4>1, <4>2, <4>3 DEF ReplyOK
    <3>2. CASE j # r
      <4>1. ReplyOK(j) /\ msg'[j] = msg[j] /\ msg[j].re # i
        BY <1>0, <2>2, <2>3, <3>2
      <4>2. msg[j].re # None => /\ msg[j].re # r /\ msg[j].re \in Ids
                                /\ \A q \in Ids : msg'[q].re = msg[j].re => q = j
        BY <1>0, <2>2, <4>1 DEF ReplyOK, NoMessage, ChatTyped, Message
      <4> QED BY <2>1, <2>2, <4>1, <4>2 DEF ReplyOK
    <3> QED BY <3>1, <3>2
  <2> QED BY <2>4, <2>5, <2>6 DEF ReceiptInv
<1>11. ASSUME NEW i \in Ids, Finish(i) \/ Schedule(i) \/ Dies(i) PROVE ReceiptInv'
  <2>1. PICK w \in {"none", "queued", "lost"} :
           /\ work' = [work EXCEPT ![i] = w] /\ UNCHANGED <<now, msg, traded, review>>
           /\ w = "none" => work[i] = "audit"
           /\ w = "queued" => work[i] = "sent"
           /\ w = "lost" => Waits(i)
    BY <1>11 DEF Finish, Schedule, Dies
  <2>2. ChatTyped' /\ ReviewOK'
    BY <1>0, <2>1 DEF ChatTyped, ReviewOK, Places
  <2>3. ASSUME NEW j \in Ids PROVE ReceiptOK(j)'
    <3>1. CASE j = i
      BY <1>0, <2>1, <3>1 DEF ReceiptOK, ChatTyped, Waits
    <3>2. CASE j # i
      BY <1>0, <2>1, <3>2 DEF ReceiptOK, ChatTyped
    <3> QED BY <3>1, <3>2
  <2>4. ASSUME NEW j \in Ids PROVE ReplyOK(j)'
    BY <1>0, <2>1 DEF ReplyOK
  <2> QED BY <2>2, <2>3, <2>4 DEF ReceiptInv
<1>12. ASSUME NEW v \in Reviewers, NEW i \in Ids, ReviewRead(v, i) PROVE ReceiptInv'
  <2>1. /\ msg[i].st = "pending_review" /\ review' = [review EXCEPT ![v] = i]
        /\ UNCHANGED <<now, msg, work, traded>>
    BY <1>12 DEF ReviewRead
  <2>2. msg[i].dir = "agent"
    BY <1>0, <2>1 DEF ReplyOK
  <2> QED BY <1>0, <2>1, <2>2 DEF ReceiptInv, ChatTyped, ReviewOK, ReceiptOK, ReplyOK
<1>13. ASSUME NEW v \in Reviewers, ReviewWrite(v) PROVE ReceiptInv'
  <2>1. PICK st \in {"delivered", "failed"} : SetStatus(review[v], st)
    BY <1>13 DEF ReviewWrite
  <2>2. /\ review[v] \in Ids /\ review' = [review EXCEPT ![v] = None]
        /\ UNCHANGED <<now, work, traded>> /\ msg[review[v]].dir = "agent"
    BY <1>0, <1>13 DEF ReviewWrite, ChatTyped, ReviewOK
  <2> DEFINE i == review[v]
  <2>3. /\ msg' \in [Ids -> Message] /\ msg'[i].st = st
        /\ \A j \in Ids : /\ msg'[j].dir = msg[j].dir /\ msg'[j].re = msg[j].re
                          /\ msg'[j].order = msg[j].order /\ (j # i => msg'[j] = msg[j])
    BY <2>1, <2>2, StatusChanges
  <2>4. ChatTyped' /\ ReviewOK'
    <3>1. review' \in [Reviewers -> Ids \cup {None}]
      BY <1>0, <2>2 DEF ChatTyped
    <3>2. ChatTyped'
      BY <1>0, <2>2, <2>3, <3>1 DEF ChatTyped
    <3>3. \A u \in Reviewers : review'[u] # None => review[u] # None /\ review[u] \in Ids /\ review'[u] = review[u]
      BY <1>0, <2>2 DEF ChatTyped
    <3>4. ReviewOK'
      BY <1>0, <2>3, <3>3 DEF ReviewOK
    <3> QED BY <3>2, <3>4
  <2> HIDE DEF i
  <2>5. ASSUME NEW j \in Ids PROVE ReceiptOK(j)'
    BY <1>0, <2>2, <2>3 DEF ReceiptOK, i
  <2>6. \A j \in Ids : ReplyOK(j)'
    <3>1. msg[i].dir = "agent"
      BY <2>2 DEF i
    <3> QED BY <2>2, <2>3, <3>1, RepliesStay
  <2> QED BY <2>4, <2>5, <2>6 DEF ReceiptInv
<1> QED
  BY <1>2, <1>3, <1>4, <1>5, <1>6, <1>8, <1>9, <1>10, <1>11, <1>12, <1>13 DEF ChatNext, Engine

\* ReceiptsHold: however messages, replies, reviews, restarts and exceptions interleave,
\* a delivered message of the user has one reply, which tells the truth about the order,
\* or none if it was passed on without the stub engine; and no task ends in peace while
\* its message waits (send_message, conv.py; process_message, engine.py).
THEOREM ReceiptsHold == ChatSpec => []ReceiptsAreTrue
BY ChatStarts, ChatGoes, ReceiptsFollow, PTL DEF ChatSpec

-----------------------------------------------------------------------------
(* Paging.  Before orders the messages by second and id, whatever ids they  *)
(* draw; a page is the last part of what is older than the pages read.      *)

\* The second of a message that is kept never changes.
LEMMA TimesStay ==
  ASSUME ReceiptInv, [ChatNext]_chatVars
  PROVE  \A j \in Kept : msg'[j].ts = msg[j].ts /\ msg'[j].dir = msg[j].dir
<1> SUFFICES ASSUME NEW j \in Kept PROVE msg'[j].ts = msg[j].ts /\ msg'[j].dir = msg[j].dir
  OBVIOUS
<1>0. j \in Ids /\ msg \in [Ids -> Message]
  BY DEF Kept, ReceiptInv, ChatTyped
<1>1. CASE \E i \in Ids, st \in {"processing", "delivered", "failed"} : SetStatus(i, st)
  BY <1>0, <1>1 DEF SetStatus, Message
<1>2. ASSUME NEW i \in Ids, Draw(i), NEW new, msg' = [msg EXCEPT ![i] = new]
      PROVE  msg'[j].ts = msg[j].ts /\ msg'[j].dir = msg[j].dir
  BY <1>0, <1>2 DEF Draw
<1>3. CASE MarkRead
  <2> DEFINE u == Unread(j)
  <2>1. msg'[j] = [msg[j] EXCEPT !.read = @ \/ u]
    BY <1>0, <1>3 DEF MarkRead
  <2> HIDE DEF u
  <2> QED BY <1>0, <2>1 DEF Message
<1>4. CASE msg' = msg
  BY <1>4
<1>5. ASSUME NEW i \in Ids, Send(i) \/ Deliver(i) PROVE msg'[j].ts = msg[j].ts /\ msg'[j].dir = msg[j].dir
  BY <1>2, <1>5 DEF Send, Deliver, Put
<1>6. ASSUME NEW i \in Ids, NEW r \in Ids, Reply(i, r)
      PROVE  msg'[j].ts = msg[j].ts /\ msg'[j].dir = msg[j].dir
  BY <1>2, <1>6 DEF Reply, Put
<1>7. ASSUME NEW i \in Ids, Pass(i) \/ Process(i) \/ Answered(i) \/ Fails(i)
      PROVE  msg'[j].ts = msg[j].ts /\ msg'[j].dir = msg[j].dir
  BY <1>1, <1>7 DEF Pass, Process, Answered, Fails
<1>8. ASSUME NEW v \in Reviewers, ReviewWrite(v)
      PROVE  msg'[j].ts = msg[j].ts /\ msg'[j].dir = msg[j].dir
  <2>1. review[v] \in Ids
    BY <1>8 DEF ReviewWrite, ReceiptInv, ChatTyped
  <2> QED BY <1>1, <1>8, <2>1 DEF ReviewWrite
<1> QED
  BY <1>3, <1>4, <1>5, <1>6, <1>7, <1>8
  DEF ChatNext, Engine, Clock, Open, Load, Restart, Schedule, DemoOrder, Finish, Dies, ReviewRead, chatVars

\* Before is a strict order in which any two messages compare.
LEMMA BeforeOrders ==
  ASSUME ReceiptInv
  PROVE  /\ \A i \in Ids : ~Before(i, i)
         /\ \A i, j \in Ids : i # j => Before(i, j) \/ Before(j, i)
         /\ \A i, j, k \in Ids : Before(i, j) /\ Before(j, k) => Before(i, k)
<1>1. \A i \in Ids : i \in Nat /\ msg[i].ts \in Nat
  BY IdsAre, BoundsAssumption DEF ReceiptInv, ChatTyped, Message
<1> QED BY <1>1 DEF Before

Sorted(s, n) == \A k, l \in 1..n : k < l => Before(s[k], s[l])

\* A set of messages has a last one.
LEMMA LastMessage ==
  ASSUME ReceiptInv, NEW S, S \subseteq Ids, S # {}
  PROVE  \E m \in S : \A x \in S \ {m} : Before(x, m)
<1> DEFINE R == {p \in S \X S : Before(p[1], p[2])}
<1>1. IsFiniteSet(S)
  BY IdsAre, FS_Subset
<1>2. \A i, j \in S : <<i, j>> \in R <=> Before(i, j)
  OBVIOUS
<1> HIDE DEF R
<1>3. StrictOrder(R, S)
  BY <1>2, BeforeOrders DEF StrictOrder
<1>4. PICK m \in S : Ahead(R, m, S) = S \ {m}
  BY <1>1, <1>3, LastInQueue
<1> QED BY <1>2, <1>4 DEF Ahead

\* Every set of messages can be put in order.
LEMMA CanBeSorted ==
  ASSUME ReceiptInv, NEW S, S \subseteq Ids
  PROVE  \E s \in [1..Cardinality(S) -> S] : Sorted(s, Cardinality(S))
<1> DEFINE P == {T \in SUBSET S : \E s \in [1..Cardinality(T) -> T] : Sorted(s, Cardinality(T))}
<1>0. IsFiniteSet(S)
  BY IdsAre, FS_Subset
<1>1. ASSUME NEW T \in SUBSET S, \A x \in T : T \ {x} \in P PROVE T \in P
  <2>0. IsFiniteSet(T) /\ Cardinality(T) \in Nat
    BY <1>0, FS_Subset, FS_CardinalityType
  <2>1. CASE T = {}
    <3>1. Cardinality(T) = 0 /\ <<>> \in [1..0 -> T]
      BY <2>1, FS_EmptySet
    <3>2. Sorted(<<>>, 0)
      BY DEF Sorted
    <3> QED BY <3>1, <3>2
  <2>2. CASE T # {}
    <3>1. PICK m \in T : \A x \in T \ {m} : Before(x, m)
      BY <2>2, LastMessage
    <3> DEFINE U == T \ {m}
               n == Cardinality(U)
    <3>2. PICK s \in [1..n -> U] : Sorted(s, n)
      BY <1>1
    <3>3. Cardinality(T) = n + 1 /\ n \in Nat
      <4>1. IsFiniteSet(U) /\ n = Cardinality(T) - 1
        BY <2>0, FS_RemoveElement
      <4>2. n \in Nat
        BY <4>1, FS_CardinalityType
      <4> HIDE DEF n
      <4> QED BY <2>0, <4>1, <4>2
    <3> DEFINE t == [k \in 1..(n + 1) |-> IF k = n + 1 THEN m ELSE s[k]]
    <3> HIDE DEF n
    <3>4. \A k \in 1..(n + 1) : k # n + 1 => k \in 1..n /\ s[k] \in U
      BY <3>2, <3>3
    <3>5. t \in [1..(n + 1) -> T]
      BY <3>4
    <3>6. Sorted(t, n + 1)
      <4> SUFFICES ASSUME NEW k \in 1..(n + 1), NEW l \in 1..(n + 1), k < l
                   PROVE  Before(t[k], t[l])
        BY DEF Sorted
      <4>1. k # n + 1 /\ k \in 1..n /\ t[k] = s[k]
        BY <3>3
      <4>2. CASE l = n + 1
        BY <3>1, <3>4, <4>1, <4>2
      <4>3. CASE l # n + 1
        BY <3>2, <3>3, <4>1, <4>3 DEF Sorted
      <4> QED BY <4>2, <4>3
    <3> HIDE DEF t
    <3>7. \E s2 \in [1..Cardinality(T) -> T] : Sorted(s2, Cardinality(T))
      BY <3>3, <3>5, <3>6
    <3> QED BY <3>7
  <2> QED BY <2>1, <2>2
<1> HIDE DEF P
<1>2. S \in P
  BY <1>0, <1>1, SubsetInduction
<1> QED BY <1>2 DEF P

LEMMA InOrderIs ==
  ASSUME ReceiptInv, NEW S, S \subseteq Ids
  PROVE  LET n == Cardinality(S)
             s == InOrder(S)
         IN  /\ n \in Nat /\ s \in [1..n -> S] /\ Sorted(s, n)
             /\ \A x \in S : \E k \in 1..n : s[k] = x
<1> DEFINE n == Cardinality(S)
           s == InOrder(S)
<1>1. IsFiniteSet(S) /\ n \in Nat
  BY IdsAre, FS_Subset, FS_CardinalityType
<1>2. s \in [1..n -> S] /\ Sorted(s, n)
  <2>1. \E t \in [1..n -> S] : \A k, l \in 1..n : k < l => Before(t[k], t[l])
    BY CanBeSorted DEF Sorted
  <2> QED BY <2>1 DEF InOrder, Sorted
<1> HIDE DEF s
<1>3. s \in Injection(1..n, S)
  <2> SUFFICES ASSUME NEW k \in 1..n, NEW l \in 1..n, k # l PROVE s[k] # s[l]
    BY <1>2 DEF Injection, IsInjective
  <2>1. Before(s[k], s[l]) \/ Before(s[l], s[k])
    BY <1>1, <1>2 DEF Sorted
  <2>2. s[k] \in Ids /\ s[l] \in Ids
    BY <1>2
  <2> QED BY <2>1, <2>2, BeforeOrders
<1>4. Cardinality(1..n) = n
  BY <1>1, FS_Interval
<1>5. s \in Surjection(1..n, S)
  BY <1>1, <1>3, <1>4, FS_Injection
<1>6. \A x \in S : \E k \in 1..n : s[k] = x
  BY <1>5 DEF Surjection
<1> QED BY <1>1, <1>2, <1>6 DEF s

Later(i, S) == {j \in S : Before(i, j)}
Latest(S) == {i \in S : Cardinality(Later(i, S)) < PageSize}
OlderOnes == {i \in Kept : Older(i)}
Seen == {rd.seen[k] : k \in DOMAIN rd.seen}

\* The latest PageSize messages of a set come after all its others, are not none,
\* and are all of it when it is no larger.
LEMMA LatestAre ==
  ASSUME ReceiptInv, NEW S, S \subseteq Ids
  PROVE  /\ S # {} => Latest(S) # {}
         /\ \A i \in S \ Latest(S) : \A p \in Latest(S) : Before(i, p)
         /\ Cardinality(S) <= PageSize => Latest(S) = S
<1>0. IsFiniteSet(S) /\ PageSize \in Nat \ {0}
  BY IdsAre, FS_Subset, PageAssumption
<1>1. ASSUME NEW i \in S
      PROVE  IsFiniteSet(Later(i, S)) /\ Cardinality(Later(i, S)) \in Nat /\ i \notin Later(i, S)
  BY <1>0, BeforeOrders, FS_Subset, FS_CardinalityType DEF Later
<1>2. ASSUME S # {} PROVE Latest(S) # {}
  <2>1. PICK m \in S : \A x \in S \ {m} : Before(x, m)
    BY <1>2, LastMessage
  <2>2. Later(m, S) = {}
    BY <2>1, BeforeOrders DEF Later
  <2>3. Cardinality(Later(m, S)) = 0
    BY <2>2, FS_EmptySet
  <2> QED BY <1>0, <2>3 DEF Latest
<1>3. ASSUME NEW i \in S \ Latest(S), NEW p \in Latest(S) PROVE Before(i, p)
  <2>0. i \in Ids /\ p \in Ids /\ i # p /\ p \in S
    BY DEF Latest
  <2> SUFFICES ASSUME Before(p, i) PROVE FALSE
    BY <2>0, BeforeOrders
  <2>1. Later(i, S) \subseteq Later(p, S)
    BY <2>0, BeforeOrders DEF Later
  <2>2. Cardinality(Later(i, S)) <= Cardinality(Later(p, S))
    BY <1>1, <2>0, <2>1, FS_Subset
  <2> QED BY <1>0, <1>1, <2>0, <2>2 DEF Latest
<1>4. ASSUME Cardinality(S) <= PageSize PROVE Latest(S) = S
  <2> SUFFICES ASSUME NEW i \in S PROVE Cardinality(Later(i, S)) < PageSize
    BY DEF Latest
  <2>1. Later(i, S) \subseteq S /\ Later(i, S) # S
    BY <1>1 DEF Later
  <2>2. Cardinality(Later(i, S)) < Cardinality(S) /\ Cardinality(S) \in Nat
    BY <1>0, <2>1, FS_Subset, FS_CardinalityType
  <2> QED BY <1>0, <1>1, <1>4, <2>2
<1> QED BY <1>2, <1>3, <1>4

\* The reader has read an unbroken part of the list that ends with its latest
\* message, and what was there when it began is either read or older.
PageInv ==
    /\ rd \in [pc : {"closed", "reading", "done"}, seen : Seq(Ids), there : SUBSET Ids]
    /\ \A k \in DOMAIN rd.seen : rd.seen[k] \in Kept
    /\ rd.there \subseteq Kept
    /\ \A k, l \in DOMAIN rd.seen : k < l => Before(rd.seen[k], rd.seen[l])
    /\ rd.pc = "reading" => \A i \in rd.there : i \in Seen \/ Older(i)
    /\ rd.pc = "done" => rd.there \subseteq Seen

LEMMA PageStarts == ASSUME ChatInit PROVE PageInv
BY EmptySeq DEF ChatInit, Closed, PageInv

\* What other requests do leaves what the reader has read in its order.
LEMMA PageStays ==
  ASSUME ReceiptInv, PageInv, [ChatNext]_chatVars, rd' = rd PROVE PageInv'
<1>1. \A j \in Kept : j \in Kept' /\ msg'[j].ts = msg[j].ts
  BY TimesStay DEF Kept
<1>2. \A i, j \in Kept : Before(i, j) <=> Before(i, j)'
  BY <1>1 DEF Before
<1>3. \A k \in DOMAIN rd.seen : rd.seen[k] \in Kept
  BY DEF PageInv
<1>4. \A i \in Kept : Older(i) => Older(i)'
  <2> SUFFICES ASSUME NEW i \in Kept, Older(i), rd.seen # <<>> PROVE Older(i)'
    BY DEF Older
  <2>1. rd.seen \in Seq(Ids)
    BY DEF PageInv
  <2>2. Head(rd.seen) = rd.seen[1] /\ 1 \in DOMAIN rd.seen
    BY <2>1
  <2>3. Before(i, rd.seen[1]) /\ rd.seen[1] \in Kept
    BY <1>3, <2>2 DEF Older
  <2> QED BY <1>2, <2>2, <2>3 DEF Older
<1>5. Seen' = Seen
  BY DEF Seen
<1>6. rd'.there \subseteq Kept' /\ \A k \in DOMAIN rd'.seen : rd'.seen[k] \in Kept'
  BY <1>1 DEF PageInv
<1>7. \A k, l \in DOMAIN rd'.seen : k < l => Before(rd.seen[k], rd.seen[l])'
  BY <1>2, <1>3 DEF PageInv
<1>8. rd'.pc = "reading" => \A i \in rd'.there : i \in Seen' \/ Older(i)'
  BY <1>4, <1>5 DEF PageInv
<1>9. rd' \in [pc : {"closed", "reading", "done"}, seen : Seq(Ids), there : SUBSET Ids]
      /\ (rd'.pc = "done" => rd'.there \subseteq Seen')
  BY <1>5 DEF PageInv
<1> QED BY <1>6, <1>7, <1>8, <1>9 DEF PageInv

\* The messages of a page, in order, before those read so far.
LEMMA LoadReads == ASSUME ReceiptInv, PageInv, Load PROVE PageInv'
<1> DEFINE P == Latest(OlderOnes)
           n == Cardinality(P)
           s == InOrder(P)
           old == rd.seen
<1>0. /\ old \in Seq(Ids) /\ rd.there \subseteq Kept /\ rd.there \subseteq Ids
      /\ rd.pc = "reading" /\ Kept \subseteq Ids /\ OlderOnes \subseteq Kept /\ P \subseteq OlderOnes
  BY DEF PageInv, Load, Kept, OlderOnes, Latest
<1>1. n \in Nat /\ s \in [1..n -> P] /\ Sorted(s, n) /\ \A x \in P : \E k \in 1..n : s[k] = x
  <2>1. P \subseteq Ids
    BY <1>0
  <2> HIDE DEF P
  <2> QED BY <2>1, InOrderIs
<1>2. Page = s
  BY DEF Page, Latest, Later, OlderOnes
<1>3. /\ OlderOnes # {} => P # {}
      /\ \A i \in OlderOnes \ P : \A p \in P : Before(i, p)
      /\ Cardinality(OlderOnes) <= PageSize => P = OlderOnes
  BY <1>0, LatestAre
<1> DEFINE new == rd'.seen
<1>4. /\ rd'.seen = s \o old /\ rd'.there = rd.there /\ UNCHANGED msg
      /\ rd'.pc = IF HasOlder THEN "reading" ELSE "done"
      /\ rd' \in [pc : {"closed", "reading", "done"}, seen : {s \o old}, there : {rd.there}]
  BY <1>2 DEF Load, PageInv
<1> HIDE DEF s, n
<1>5. s \in Seq(Ids) /\ Len(s) = n
  BY <1>0, <1>1, SeqDef
<1>6. /\ new \in Seq(Ids) /\ Len(new) = n + Len(old)
      /\ \A k \in 1..(n + Len(old)) : new[k] = IF k <= n THEN s[k] ELSE old[k - n]
  <2>1. /\ s \o old \in Seq(Ids) /\ Len(s \o old) = n + Len(old)
        /\ \A k \in 1..(n + Len(old)) : (s \o old)[k] = IF k <= n THEN s[k] ELSE old[k - n]
    <3>1. old \in Seq(Ids)
      BY <1>0
    <3> HIDE DEF old
    <3> QED BY <1>5, <3>1, ConcatProperties
  <2> HIDE DEF old
  <2>2. new = s \o old
    BY <1>4
  <2> HIDE DEF new
  <2> QED BY <2>1, <2>2
<1>7. DOMAIN new = 1..(n + Len(old)) /\ DOMAIN old = 1..Len(old) /\ Len(old) \in Nat
  BY <1>0, <1>6
<1> HIDE DEF new, P, old
<1>8. /\ \A k \in 1..n : k \in DOMAIN new /\ new[k] = s[k] /\ s[k] \in P
      /\ \A k \in DOMAIN old : k + n \in DOMAIN new /\ new[k + n] = old[k]
      /\ \A k \in DOMAIN new : k \notin 1..n => k - n \in DOMAIN old /\ new[k] = old[k - n]
  BY <1>1, <1>6, <1>7
<1>9. /\ \A k \in DOMAIN old : old[k] \in Kept
      /\ \A k, l \in DOMAIN old : k < l => Before(old[k], old[l])
      /\ \A i \in rd.there : i \in Seen \/ Older(i)
  BY <1>0 DEF PageInv, old
<1>10. \A k \in DOMAIN new : new[k] \in Kept
  BY <1>0, <1>8, <1>9
<1>11. P \cup Seen \subseteq Seen'
  <2>1. \A x \in P : \E k \in DOMAIN new : new[k] = x
    BY <1>1, <1>8
  <2>2. \A x \in Seen : \E k \in DOMAIN new : new[k] = x
    BY <1>8 DEF Seen, old
  <2> QED BY <2>1, <2>2 DEF Seen, new
<1>12. \A p \in P : old # <<>> => Before(p, old[1])
  BY <1>0 DEF OlderOnes, Older, old
<1>13. ASSUME NEW k \in DOMAIN new, NEW l \in DOMAIN new, k < l PROVE Before(new[k], new[l])
  <2>0. k \in Nat /\ l \in Nat /\ n \in Nat
    BY <1>1, <1>7
  <2>1. CASE l \in 1..n
    <3>1. k \in 1..n
      BY <1>7, <1>13, <2>0, <2>1
    <3> QED BY <1>1, <1>8, <1>13, <2>1, <3>1 DEF Sorted
  <2>2. CASE k \in 1..n /\ l \notin 1..n
    <3>1. new[k] \in P /\ l - n \in DOMAIN old /\ new[l] = old[l - n]
      BY <1>8, <2>2
    <3>2. old # <<>> /\ 1 \in DOMAIN old
      BY <1>7, <3>1
    <3>3. Before(new[k], old[1])
      BY <1>12, <3>1, <3>2
    <3>4. CASE l - n = 1
      BY <3>1, <3>3, <3>4
    <3>5. CASE l - n # 1
      <4>1. 1 < l - n
        BY <1>7, <3>1, <3>5
      <4>2. Before(old[1], old[l - n])
        BY <1>9, <3>1, <3>2, <4>1
      <4>3. new[k] \in Ids /\ old[1] \in Ids /\ old[l - n] \in Ids
        BY <1>0, <1>9, <3>1, <3>2
      <4> QED BY <3>1, <3>3, <4>2, <4>3, BeforeOrders
    <3> QED BY <3>4, <3>5
  <2>3. CASE k \notin 1..n /\ l \notin 1..n
    <3>1. k - n \in DOMAIN old /\ new[k] = old[k - n] /\ l - n \in DOMAIN old /\ new[l] = old[l - n]
      BY <1>8, <2>3
    <3>2. k - n < l - n
      BY <1>13, <2>0
    <3> QED BY <1>9, <3>1, <3>2
  <2>4. CASE k \notin 1..n /\ l \in 1..n
    BY <1>7, <1>13, <2>0, <2>4
  <2> QED BY <2>1, <2>2, <2>3, <2>4
<1>14. ASSUME NEW i \in rd.there PROVE i \in Seen' \/ (i \in OlderOnes \ P /\ Older(i)')
  <2>1. CASE i \in Seen
    BY <1>11, <2>1
  <2>2. CASE i \in P
    BY <1>11, <2>2
  <2>3. CASE i \notin Seen /\ i \notin P
    <3>1. i \in OlderOnes
      BY <1>0, <1>9, <2>3 DEF OlderOnes
    <3>2. P # {}
      BY <1>3, <3>1
    <3>3. 1 \in 1..n
      BY <1>1, <3>2
    <3>4. new[1] \in P
      BY <1>8, <3>3
    <3>5. Before(i, new[1])
      BY <1>3, <2>3, <3>1, <3>4
    <3>6. Before(i, rd.seen[1])'
      BY <1>4, <3>5 DEF Before, new
    <3>7. Head(new) = new[1]
      BY <1>6, <1>7, <1>8, <3>3
    <3>8. Older(i)'
      <4>1. Head(rd'.seen) = rd'.seen[1]
        BY <3>7 DEF new
      <4> QED BY <3>6, <4>1 DEF Older
    <3> QED BY <2>3, <3>1, <3>8
  <2> QED BY <2>1, <2>2, <2>3
<1>15. ASSUME ~HasOlder PROVE rd.there \subseteq Seen'
  <2>1. Cardinality(OlderOnes) <= PageSize
    <3>1. Cardinality(OlderOnes) \in Nat /\ PageSize \in Nat
      BY <1>0, IdsAre, FS_Subset, FS_CardinalityType, PageAssumption
    <3> QED BY <1>15, <3>1 DEF HasOlder, OlderOnes
  <2> QED BY <1>3, <1>14, <2>1
<1>16. Kept' = Kept /\ \A i, j \in Ids : Before(i, j)' <=> Before(i, j)
  BY <1>4 DEF Kept, Before
<1>17. /\ rd' \in [pc : {"closed", "reading", "done"}, seen : Seq(Ids), there : SUBSET Ids]
       /\ rd'.there \subseteq Kept' /\ \A k \in DOMAIN rd'.seen : rd'.seen[k] \in Kept'
  BY <1>0, <1>4, <1>6, <1>10, <1>16 DEF new, old
<1>18. \A k, l \in DOMAIN rd'.seen : k < l => Before(rd.seen[k], rd.seen[l])'
  BY <1>4, <1>13 DEF new, Before
<1>19. /\ rd'.pc = "reading" => \A i \in rd'.there : i \in Seen' \/ Older(i)'
       /\ rd'.pc = "done" => rd'.there \subseteq Seen'
  BY <1>4, <1>14, <1>15
<1> QED BY <1>17, <1>18, <1>19 DEF PageInv

LEMMA PageGoes == ASSUME ReceiptInv, PageInv, [ChatNext]_chatVars PROVE PageInv'
<1>1. CASE Load
  BY <1>1, LoadReads
<1>2. CASE Open
  <2>1. rd' = [pc |-> "reading", seen |-> <<>>, there |-> Kept] /\ Kept' = Kept /\ Kept \subseteq Ids
    BY <1>2 DEF Open, Closed, Kept
  <2> QED BY <2>1, EmptySeq DEF PageInv, Older
<1>3. CASE Restart
  <2>1. rd' = [pc |-> "closed", seen |-> <<>>, there |-> {}]
    BY <1>3 DEF Restart, Closed
  <2> QED BY <2>1, EmptySeq DEF PageInv
<1>4. CASE rd' = rd
  BY <1>4, PageStays
<1> QED
  BY <1>1, <1>2, <1>3, <1>4
  DEF ChatNext, Engine, Clock, MarkRead, Send, Schedule, Pass, Dies, Deliver, Process, DemoOrder, Reply, Answered, Finish,
      Fails, ReviewRead, ReviewWrite, chatVars

\* PagingHolds: whatever ids messages draw and whatever arrives between two pages, a
\* reader that has come to the end has read all that was there when it began, each
\* once and in the order of the list (list_messages, chatstore.py).
THEOREM PagingHolds == ChatSpec => []PagingIsComplete
<1>1. PageInv => PagingIsComplete
  BY DEF PageInv, PagingIsComplete, Seen
<1> QED BY <1>1, ChatStarts, ChatGoes, PageStarts, PageGoes, PTL DEF ChatSpec
=============================================================================
