--------------------------- MODULE SchedulerProof ---------------------------
(***************************************************************************)
(* Theorems about the two threads that start work: TaskQueue, who has a    *)
(* task in hand and that a task done stays done, and SettleTrigger, what   *)
(* the reports of a day say.                                               *)
(***************************************************************************)
EXTENDS TaskQueue, SettleTrigger, SequenceTheorems, TLAPS

-----------------------------------------------------------------------------
(***************************************************************************)
(* TaskQueue                                                               *)
(***************************************************************************)

Statuses == {"absent", "pending", "running"} \cup Ended
Busy == {"claimed", "defer", "run"}
Unclaimed == {"absent", "pending"}
Distinct(s) == \A i, j \in DOMAIN s : i # j => s[i] # s[j]

Types == /\ status \in [Tasks -> Statuses]
         /\ batch \in [Threads -> Seq(Tasks)] /\ current \in [Threads -> Tasks \cup {None}]
         /\ pc \in [Threads -> {"free", "recover", "scan", "idle"} \cup Busy]

\* A thread has a task once, and none outside the run of a batch.
HandsOK == \A w \in Threads :
    /\ Distinct(batch[w]) /\ current[w] \notin ToSet(batch[w])
    /\ pc[w] \notin Busy => Hand(w) = {}

\* A task that waits to be claimed, or is done, is in no hands.
Unheld == Unclaimed \cup {"done"}
FreeOK == \A t \in Tasks : status[t] \in Unheld => \A w \in Threads : t \notin Hand(w)

IInv == Types /\ HandsOK /\ FreeOK /\ OneRunner /\ NoOrphan

-----------------------------------------------------------------------------
(* What the operations on a batch leave of it.                             *)

LEMMA RemoveAtLemma ==
  ASSUME NEW S, NEW s \in Seq(S), NEW i \in DOMAIN s, Distinct(s)
  PROVE  /\ RemoveAt(s, i) \in Seq(S) /\ Distinct(RemoveAt(s, i))
         /\ ToSet(RemoveAt(s, i)) = ToSet(s) \ {s[i]}
<1> DEFINE r == RemoveAt(s, i)
           n == Len(s)
<1>1. n \in Nat /\ DOMAIN s = 1..n /\ i \in 1..n
  OBVIOUS
<1>2. /\ r \in Seq(S) /\ Len(r) = n - 1
      /\ \A k \in 1..(n - 1) : r[k] = IF k < i THEN s[k] ELSE s[k + 1]
  <2>1. /\ SubSeq(s, 1, i - 1) \in Seq(S) /\ Len(SubSeq(s, 1, i - 1)) = i - 1
        /\ \A k \in 1..(i - 1) : SubSeq(s, 1, i - 1)[k] = s[k]
    BY <1>1
  <2>2. /\ SubSeq(s, i + 1, n) \in Seq(S) /\ Len(SubSeq(s, i + 1, n)) = n - i
        /\ \A k \in 1..(n - i) : SubSeq(s, i + 1, n)[k] = s[i + k]
    BY <1>1
  <2> DEFINE a == SubSeq(s, 1, i - 1)
             b == SubSeq(s, i + 1, n)
  <2>3. r = a \o b
    BY DEF RemoveAt
  <2> HIDE DEF a, b
  <2>4. /\ a \o b \in Seq(S) /\ Len(a \o b) = Len(a) + Len(b)
        /\ \A k \in 1..(Len(a) + Len(b)) : (a \o b)[k] = IF k <= Len(a) THEN a[k] ELSE b[k - Len(a)]
    <3>1. a \in Seq(S) /\ b \in Seq(S)
      BY <2>1, <2>2 DEF a, b
    <3>2. QED
      BY ONLY <3>1
  <2>5. Len(a) = i - 1 /\ Len(b) = n - i
    BY <2>1, <2>2 DEF a, b
  <2>6. ASSUME NEW k \in 1..(n - 1) PROVE (a \o b)[k] = IF k < i THEN s[k] ELSE s[k + 1]
    <3>1. CASE k < i
      BY <1>1, <2>1, <2>4, <2>5, <3>1 DEF a
    <3>2. CASE ~(k < i)
      <4>1. k - (i - 1) \in 1..(n - i) /\ i + (k - (i - 1)) = k + 1
        BY <1>1, <3>2
      <4>2. (a \o b)[k] = b[k - (i - 1)]
        <5>1. k \in 1..(Len(a) + Len(b)) /\ ~(k <= Len(a))
          BY <1>1, <2>5, <3>2
        <5>2. QED
          BY <2>4, <2>5, <5>1
      <4>3. b[k - (i - 1)] = s[i + (k - (i - 1))]
        BY <2>2, <4>1 DEF b
      <4>4. QED
        BY <3>2, <4>1, <4>2, <4>3
    <3>3. QED
      BY <3>1, <3>2
  <2>7. Len(a) + Len(b) = n - 1
    BY <1>1, <2>5
  <2>8. QED
    BY <2>3, <2>4, <2>6, <2>7
<1> HIDE DEF r, n
<1>3. DOMAIN r = 1..(n - 1)
  BY <1>1, <1>2
<1>4. ASSUME NEW j \in 1..(n - 1), NEW k \in 1..(n - 1), j # k PROVE r[j] # r[k]
  <2> DEFINE x(m) == IF m < i THEN m ELSE m + 1
  <2>1. x(j) \in 1..n /\ x(k) \in 1..n /\ x(j) # x(k)
    BY <1>1, <1>4
  <2>2. r[j] = s[x(j)] /\ r[k] = s[x(k)]
    BY <1>2
  <2>3. QED
    BY <1>1, <2>1, <2>2 DEF Distinct
<1>5. \A k \in 1..(n - 1) : r[k] \in ToSet(s) \ {s[i]}
  <2> SUFFICES ASSUME NEW k \in 1..(n - 1) PROVE r[k] \in ToSet(s) \ {s[i]}
    OBVIOUS
  <2> DEFINE x == IF k < i THEN k ELSE k + 1
  <2>1. x \in 1..n /\ x # i /\ r[k] = s[x]
    BY <1>1, <1>2
  <2>2. QED
    BY <1>1, <2>1 DEF Distinct, ToSet
<1>6. \A j \in 1..n : j # i => s[j] \in ToSet(r)
  <2> SUFFICES ASSUME NEW j \in 1..n, j # i PROVE s[j] \in ToSet(r)
    OBVIOUS
  <2> DEFINE x == IF j < i THEN j ELSE j - 1
  <2>1. x \in 1..(n - 1) /\ r[x] = s[j]
    BY <1>1, <1>2
  <2>2. QED
    BY <1>3, <2>1 DEF ToSet
<1>7. ToSet(r) = ToSet(s) \ {s[i]}
  BY <1>1, <1>3, <1>5, <1>6 DEF ToSet
<1>8. QED
  BY <1>2, <1>3, <1>4, <1>7 DEF r, Distinct

LEMMA TailLemma ==
  ASSUME NEW S, NEW s \in Seq(S), s # <<>>, Distinct(s)
  PROVE  /\ Tail(s) \in Seq(S) /\ Distinct(Tail(s)) /\ Head(s) \in ToSet(s)
         /\ ToSet(Tail(s)) = ToSet(s) \ {Head(s)}
<1> DEFINE n == Len(s)
           r == Tail(s)
<1>1. /\ n \in Nat \ {0} /\ DOMAIN s = 1..n /\ Head(s) = s[1]
      /\ r \in Seq(S) /\ DOMAIN r = 1..(n - 1) /\ \A k \in 1..(n - 1) : r[k] = s[k + 1]
  OBVIOUS
<1> HIDE DEF n, r
<1>2. \A k \in 1..(n - 1) : r[k] \in ToSet(s) \ {s[1]}
  <2> SUFFICES ASSUME NEW k \in 1..(n - 1) PROVE r[k] \in ToSet(s) \ {s[1]}
    OBVIOUS
  <2>1. k + 1 \in 1..n /\ k + 1 # 1 /\ 1 \in 1..n
    BY <1>1
  <2>2. QED
    BY <1>1, <2>1 DEF Distinct, ToSet
<1>3. \A j \in 1..n : j # 1 => s[j] \in ToSet(r)
  <2> SUFFICES ASSUME NEW j \in 1..n, j # 1 PROVE s[j] \in ToSet(r)
    OBVIOUS
  <2>1. j - 1 \in 1..(n - 1) /\ (j - 1) + 1 = j
    BY <1>1
  <2>2. r[j - 1] = s[j]
    BY <1>1, <2>1
  <2>3. QED
    BY <1>1, <2>1, <2>2 DEF ToSet
<1>4. Distinct(r)
  <2> SUFFICES ASSUME NEW j \in 1..(n - 1), NEW k \in 1..(n - 1), j # k PROVE r[j] # r[k]
    BY <1>1 DEF Distinct
  <2>1. j + 1 \in 1..n /\ k + 1 \in 1..n /\ j + 1 # k + 1
    BY <1>1
  <2>2. r[j] = s[j + 1] /\ r[k] = s[k + 1]
    BY <1>1
  <2>3. s[j + 1] # s[k + 1]
    BY <1>1, <2>1 DEF Distinct
  <2>4. QED
    BY <2>2, <2>3
<1>5. ToSet(r) = ToSet(s) \ {s[1]} /\ s[1] \in ToSet(s)
  <2>1. s[1] \in ToSet(s)
    BY <1>1 DEF ToSet
  <2>2. ToSet(r) \subseteq ToSet(s) \ {s[1]}
    BY <1>1, <1>2 DEF ToSet
  <2>3. ToSet(s) \ {s[1]} \subseteq ToSet(r)
    <3> SUFFICES ASSUME NEW x \in ToSet(s), x # s[1] PROVE x \in ToSet(r)
      OBVIOUS
    <3>1. PICK j \in 1..n : x = s[j]
      BY <1>1 DEF ToSet
    <3>2. QED
      BY <1>3, <3>1
  <2>4. QED
    BY <2>1, <2>2, <2>3
<1>6. QED
  BY <1>1, <1>4, <1>5 DEF r

-----------------------------------------------------------------------------
LEMMA InitIInv == Init => IInv
<1> SUFFICES ASSUME Init PROVE IInv
  OBVIOUS
<1>1. Types
  BY DEF Init, Types, Statuses
<1>2. \A w \in Threads : Hand(w) = {} /\ ToSet(batch[w]) = {}
  BY DEF Init, Hand, ToSet
<1>3. HandsOK
  BY <1>2 DEF HandsOK, Init, Distinct
<1>4. FreeOK /\ OneRunner
  BY <1>2 DEF FreeOK, OneRunner
<1>5. NoOrphan
  BY DEF NoOrphan, Running, Init
<1>6. QED
  BY <1>1, <1>3, <1>4, <1>5 DEF IInv

\* A step that gives and takes no task: no row becomes one in no hands, or running.
LEMMA SameHands ==
  ASSUME IInv, UNCHANGED <<batch, current>>,
         status' \in [Tasks -> Statuses],
         pc' \in [Threads -> {"free", "recover", "scan", "idle"} \cup Busy],
         \A w \in Threads : pc'[w] \notin Busy => pc[w] \notin Busy \/ Hand(w) = {},
         \A t \in Tasks : /\ status'[t] \in Unheld => status[t] \in Unheld
                          /\ status'[t] = "running" => status[t] = "running"
  PROVE  IInv'
<1>1. \A w \in Threads : Hand(w)' = Hand(w)
  BY DEF Hand
<1>2. Types'
  BY DEF IInv, Types
<1>3. HandsOK'
  BY <1>1 DEF IInv, HandsOK
<1>4. FreeOK'
  BY <1>1 DEF IInv, FreeOK
<1>5. OneRunner'
  BY <1>1 DEF IInv, OneRunner
<1>6. NoOrphan'
  BY <1>1 DEF IInv, NoOrphan, Running
<1>7. QED
  BY <1>2, <1>3, <1>4, <1>5, <1>6 DEF IInv

LEMMA ClaimKeeps ==
  ASSUME IInv, NEW w \in Threads, pc[w] \notin Busy, NEW time,
         Claim(w, time, "claimed"), UNCHANGED current
  PROVE  IInv'
<1>1. PICK ids \in FirstOnes(Pending) :
         /\ status' = [t \in Tasks |-> IF t \in ToSet(ids) THEN "running" ELSE status[t]]
         /\ batch' = [batch EXCEPT ![w] = ids]
         /\ pc' = [pc EXCEPT ![w] = "claimed"]
  BY DEF Claim
<1>2. ids \in Seq(Tasks) /\ ToSet(ids) \subseteq Pending /\ Distinct(ids)
  <2>1. PICK m \in 0..Limit : ids \in [1..m -> Pending]
    BY <1>1 DEF FirstOnes, SeqOf
  <2>2. m \in Nat /\ DOMAIN ids = 1..m
    BY <2>1, LimitAssumption
  <2>3. \A i, j \in DOMAIN ids : i < j => ids[i] # ids[j]
    BY <1>1 DEF FirstOnes
  <2>4. Distinct(ids)
    BY <2>2, <2>3 DEF Distinct
  <2>5. QED
    BY <2>1, <2>2, <2>4 DEF Pending, ToSet
<1>3. /\ Hand(w) = {} /\ Hand(w)' = ToSet(ids) /\ batch'[w] = ids
      /\ current[w] = None
      /\ \A b \in Threads \ {w} : Hand(b)' = Hand(b) /\ batch'[b] = batch[b]
  BY <1>1 DEF IInv, HandsOK, Types, Hand
<1>4. \A t \in Tasks : status'[t] = IF t \in ToSet(ids) THEN "running" ELSE status[t]
  BY <1>1
<1>5. \A t \in ToSet(ids) : t \in Tasks /\ status[t] = "pending"
  BY <1>2 DEF Pending
<1>6. \A t \in ToSet(ids) : \A b \in Threads : t \notin Hand(b)
  BY <1>5 DEF IInv, FreeOK, Unheld, Unclaimed
<1>7. Types'
  BY <1>1, <1>2 DEF IInv, Types, Statuses, Busy
<1>8. HandsOK'
  <2>1. None \notin ToSet(ids)
    BY <1>5, NoneAssumption
  <2>2. ASSUME NEW b \in Threads
        PROVE  /\ Distinct(batch'[b]) /\ current'[b] \notin ToSet(batch'[b])
               /\ pc'[b] \notin Busy => Hand(b)' = {}
    <3>1. CASE b = w
      BY <1>1, <1>2, <1>3, <2>1, <3>1 DEF IInv, Types, Busy
    <3>2. CASE b # w
      BY <1>1, <1>3, <3>2 DEF IInv, Types, HandsOK
    <3>3. QED
      BY <3>1, <3>2
  <2>3. QED
    BY <2>2 DEF HandsOK
<1>9. FreeOK'
  <2>1. ASSUME NEW t \in Tasks, status'[t] \in Unheld
        PROVE  \A b \in Threads : t \notin Hand(b)'
    <3>1. t \notin ToSet(ids) /\ status[t] \in Unheld
      BY <1>4, <2>1 DEF Unheld, Unclaimed
    <3>2. QED
      BY <1>3, <3>1 DEF IInv, FreeOK
  <2>2. QED
    BY <2>1 DEF FreeOK
<1>10. OneRunner'
  BY <1>3, <1>6 DEF IInv, OneRunner
<1>11. NoOrphan'
  <2>1. \A t \in Tasks : status'[t] = "running" => t \in ToSet(ids) \/ status[t] = "running"
    BY <1>4
  <2>2. \A b \in Threads : Hand(b) \subseteq Hand(b)'
    BY <1>3
  <2>3. ASSUME NEW t \in Tasks, status'[t] = "running"
        PROVE  \E b \in Threads : t \in Hand(b)'
    BY <1>3, <2>1, <2>2, <2>3 DEF IInv, NoOrphan, Running
  <2>4. QED
    BY <2>3 DEF NoOrphan, Running
<1>12. QED
  BY <1>7, <1>8, <1>9, <1>10, <1>11 DEF IInv

LEMMA DeferKeeps == ASSUME IInv, NEW w \in Threads, Defer(w) PROVE IInv'
<1> DEFINE s == batch[w]
<1>1. PICK i \in DOMAIN s :
         /\ batch' = [batch EXCEPT ![w] = RemoveAt(s, i)]
         /\ status' = [status EXCEPT ![s[i]] = IF status[s[i]] = "running" THEN "pending" ELSE status[s[i]]]
         /\ UNCHANGED <<pc, current>>
  BY DEF Defer
<1> DEFINE t == s[i]
           r == RemoveAt(s, i)
<1>2. s \in Seq(Tasks) /\ Distinct(s) /\ t \in Tasks /\ t \in ToSet(s) /\ pc[w] \in Busy
  BY <1>1 DEF Defer, IInv, Types, HandsOK, ToSet, Busy
<1>3. r \in Seq(Tasks) /\ Distinct(r) /\ ToSet(r) = ToSet(s) \ {t}
  BY <1>2, RemoveAtLemma
<1> HIDE DEF t, r
<1>4. /\ batch'[w] = r /\ current[w] # t /\ current[w] \notin ToSet(r)
      /\ Hand(w)' = Hand(w) \ {t} /\ t \in Hand(w) /\ s = batch[w]
      /\ \A b \in Threads \ {w} : Hand(b)' = Hand(b) /\ batch'[b] = batch[b] /\ t \notin Hand(b)
  BY <1>1, <1>2, <1>3 DEF IInv, Types, HandsOK, Hand, OneRunner, r
<1> HIDE DEF s
<1>5. /\ \A u \in Tasks : u # t => status'[u] = status[u]
      /\ status'[t] # "running" /\ status' \in [Tasks -> Statuses]
  BY <1>1, <1>2 DEF IInv, Types, Statuses, t
<1>6. Types' /\ HandsOK'
  BY <1>1, <1>2, <1>3, <1>4, <1>5 DEF IInv, Types, HandsOK, r
<1>7. FreeOK'
  <2>1. ASSUME NEW u \in Tasks, status'[u] \in Unheld
        PROVE  \A b \in Threads : u \notin Hand(b)'
    <3>1. CASE u = t
      BY <1>4, <3>1
    <3>2. CASE u # t
      BY <1>4, <1>5, <2>1, <3>2 DEF IInv, FreeOK
    <3>3. QED
      BY <3>1, <3>2
  <2>2. QED
    BY <2>1 DEF FreeOK
<1>8. OneRunner'
  BY <1>4 DEF IInv, OneRunner
<1>9. NoOrphan'
  <2>1. ASSUME NEW u \in Tasks, status'[u] = "running" PROVE \E b \in Threads : u \in Hand(b)'
    <3>1. u # t /\ status[u] = "running"
      BY <1>5, <2>1
    <3>2. QED
      BY <1>4, <3>1 DEF IInv, NoOrphan, Running
  <2>2. QED
    BY <2>1 DEF NoOrphan, Running
<1>10. QED
  BY <1>6, <1>7, <1>8, <1>9 DEF IInv

LEMMA StartTaskKeeps == ASSUME IInv, NEW w \in Threads, StartTask(w) PROVE IInv'
<1> DEFINE s == batch[w]
           t == Head(s)
           r == Tail(s)
<1>1. /\ pc[w] = "run" /\ current[w] = None /\ s # <<>>
      /\ current' = [current EXCEPT ![w] = t] /\ batch' = [batch EXCEPT ![w] = r]
      /\ UNCHANGED <<status, pc>>
  <2>1. pc[w] = "run" /\ current[w] = None /\ s # <<>> /\ UNCHANGED <<status, pc>>
    BY DEF StartTask, rows
  <2>2. current' = [current EXCEPT ![w] = t]
    BY DEF StartTask
  <2>3. batch' = [batch EXCEPT ![w] = r]
    BY DEF StartTask
  <2>4. QED
    BY <2>1, <2>2, <2>3
<1>2. s \in Seq(Tasks) /\ Distinct(s)
  BY DEF IInv, Types, HandsOK
<1>3. /\ r \in Seq(Tasks) /\ Distinct(r) /\ t \in ToSet(s) /\ ToSet(r) = ToSet(s) \ {t} /\ t \in Tasks
  BY <1>1, <1>2, TailLemma
<1> HIDE DEF r, t
<1>4. t # None
  BY <1>3, NoneAssumption
<1>5. /\ batch'[w] = r /\ current'[w] = t /\ Hand(w)' = Hand(w) /\ t \in Hand(w)
      /\ \A b \in Threads \ {w} : /\ Hand(b)' = Hand(b) /\ batch'[b] = batch[b]
                                  /\ current'[b] = current[b] /\ t \notin Hand(b)
  BY <1>1, <1>3, <1>4 DEF IInv, Types, Hand, OneRunner
<1> HIDE DEF s
<1>6. \A b \in Threads : Hand(b)' = Hand(b)
  BY <1>5
<1>7. Types' /\ HandsOK'
  <2>1. Types'
    BY <1>1, <1>3 DEF IInv, Types
  <2>2. HandsOK'
    BY <1>1, <1>3, <1>5 DEF IInv, HandsOK, Busy
  <2>3. QED
    BY <2>1, <2>2
<1>8. FreeOK' /\ OneRunner' /\ NoOrphan'
  BY <1>1, <1>6 DEF IInv, FreeOK, OneRunner, NoOrphan, Running
<1>9. QED
  BY <1>7, <1>8 DEF IInv

LEMMA FinishTaskKeeps == ASSUME IInv, NEW w \in Threads, FinishTask(w) PROVE IInv'
<1> DEFINE t == current[w]
<1>1. PICK final \in {"done", "failed"} : status' = [status EXCEPT ![t] = final]
  BY DEF FinishTask
<1>2. /\ t # None /\ current' = [current EXCEPT ![w] = None] /\ UNCHANGED <<pc, batch>>
      /\ t \in Tasks
  BY DEF FinishTask, IInv, Types
<1>3. /\ Hand(w)' = Hand(w) \ {t} /\ t \in Hand(w) /\ current'[w] = None
      /\ None \notin ToSet(batch[w])
      /\ \A b \in Threads \ {w} : Hand(b)' = Hand(b) /\ current'[b] = current[b]
  <2>1. ToSet(batch[w]) \subseteq Tasks /\ t \notin ToSet(batch[w])
    BY DEF IInv, Types, HandsOK, ToSet
  <2>2. QED
    BY <1>2, <2>1, NoneAssumption DEF IInv, Types, Hand
<1> HIDE DEF t
<1>4. /\ \A u \in Tasks : u # t => status'[u] = status[u]
      /\ status'[t] # "running" /\ status' \in [Tasks -> Statuses]
  BY <1>1, <1>2 DEF IInv, Types, Statuses, Ended
<1>5. Types' /\ HandsOK'
  <2>1. Types'
    BY <1>2, <1>4 DEF IInv, Types
  <2>2. HandsOK'
    BY <1>2, <1>3 DEF IInv, HandsOK
  <2>3. QED
    BY <2>1, <2>2
<1>6. \A b \in Threads : Hand(b)' \subseteq Hand(b)
  BY <1>3
<1>7. FreeOK'
  <2>1. ASSUME NEW u \in Tasks, status'[u] \in Unheld, NEW b \in Threads PROVE u \notin Hand(b)'
    <3>1. CASE u = t
      BY <1>3, <3>1 DEF IInv, OneRunner
    <3>2. CASE u # t
      BY <1>4, <1>6, <2>1, <3>2 DEF IInv, FreeOK
    <3>3. QED
      BY <3>1, <3>2
  <2>2. QED
    BY <2>1 DEF FreeOK
<1>8. OneRunner'
  BY <1>2, <1>6 DEF IInv, OneRunner
<1>9. NoOrphan'
  <2>1. ASSUME NEW u \in Tasks, status'[u] = "running" PROVE \E b \in Threads : u \in Hand(b)'
    <3>1. u # t /\ status[u] = "running"
      BY <1>4, <2>1
    <3>2. QED
      BY <1>3, <3>1 DEF IInv, NoOrphan, Running
  <2>2. QED
    BY <2>1 DEF NoOrphan, Running
<1>10. QED
  BY <1>5, <1>7, <1>8, <1>9 DEF IInv

LEMMA RestartKeeps == ASSUME IInv, Restart PROVE IInv'
<1>1. /\ status' = [t \in Tasks |-> IF t \in Running THEN "failed" ELSE status[t]]
      /\ pc' = [w \in Threads |-> "free"] /\ batch' = [w \in Threads |-> <<>>]
      /\ current' = [w \in Threads |-> None]
  BY DEF Restart
<1>2. \A w \in Threads : Hand(w)' = {} /\ ToSet(batch'[w]) = {} /\ batch'[w] = <<>>
  BY <1>1 DEF Hand, ToSet
<1>3. \A t \in Tasks : status'[t] # "running"
  BY <1>1 DEF Running
<1>4. Types'
  BY <1>1 DEF IInv, Types, Statuses, Ended
<1>5. HandsOK'
  BY <1>2 DEF HandsOK, Distinct
<1>6. FreeOK'
  BY <1>2 DEF FreeOK
<1>7. OneRunner' /\ NoOrphan'
  BY <1>2, <1>3 DEF OneRunner, NoOrphan, Running
<1>8. QED
  BY <1>4, <1>5, <1>6, <1>7 DEF IInv

\* The steps of a thread within a batch that give and take no task.
LEMMA ThreadKeeps ==
  ASSUME IInv, NEW w \in Threads, ReadMode(w) \/ Deferred(w) \/ EndBatch(w)
  PROVE  IInv'
<1>1. UNCHANGED <<status, batch, current>> /\ status \in [Tasks -> Statuses]
  BY DEF ReadMode, Deferred, EndBatch, rows, IInv, Types
<1>2. pc' \in [Threads -> {"free", "recover", "scan", "idle"} \cup Busy]
  BY DEF ReadMode, Deferred, EndBatch, IInv, Types, Busy
<1>3. EndBatch(w) => Hand(w) = {}
  BY DEF EndBatch, Hand, ToSet
<1>4. \A b \in Threads : pc'[b] \notin Busy => pc[b] \notin Busy \/ Hand(b) = {}
  BY <1>3 DEF ReadMode, Deferred, EndBatch, IInv, Types, Busy
<1>5. QED
  BY <1>1, <1>2, <1>4, SameHands

\* The tick outside its batch, and what a request does to one row.
LEMMA TickKeeps ==
  ASSUME IInv, TickBegin \/ RecoverRow \/ TickScan \/ TickIdle \/ TickBusy \/ EndWait
  PROVE  IInv'
<1>1. UNCHANGED <<batch, current>>
  BY DEF TickBegin, RecoverRow, TickScan, TickIdle, TickBusy, EndWait
<1>2. /\ status' \in [Tasks -> Statuses]
      /\ \A t \in Tasks : /\ status'[t] \in Unheld => status[t] \in Unheld
                          /\ status'[t] = "running" => status[t] = "running"
  <2>1. CASE RecoverRow
    BY <2>1 DEF RecoverRow, IInv, Types, Statuses, Ended, Unheld, Unclaimed
  <2>2. CASE EndWait
    BY <2>2 DEF EndWait, IInv, Types, Statuses, Ended, Unheld, Unclaimed
  <2>3. CASE TickBegin \/ TickScan \/ TickIdle \/ TickBusy
    BY <2>3 DEF TickBegin, TickScan, TickIdle, TickBusy, rows, IInv, Types
  <2>4. QED
    BY <2>1, <2>2, <2>3
<1>3. /\ pc' \in [Threads -> {"free", "recover", "scan", "idle"} \cup Busy]
      /\ \A b \in Threads : pc'[b] \notin Busy => pc[b] \notin Busy \/ Hand(b) = {}
  BY DEF TickBegin, RecoverRow, TickScan, TickIdle, TickBusy, EndWait, IInv, Types, Busy
<1>4. QED
  BY <1>1, <1>2, <1>3, SameHands

LEMMA RequestKeeps ==
  ASSUME IInv, NEW t \in Tasks, \/ Enqueue(t) \/ CloseApproval(t) \/ Submit(t) \/ EnterInterrupt(t)
                                \/ DecideRead(t) \/ DecideWrite(t)
  PROVE  IInv'
<1>1. UNCHANGED <<batch, current, pc>>
  BY DEF Enqueue, CloseApproval, Submit, EnterInterrupt, DecideRead, DecideWrite
<1>2. /\ status' \in [Tasks -> Statuses]
      /\ \A u \in Tasks : /\ status'[u] \in Unheld => status[u] \in Unheld
                          /\ status'[u] = "running" => status[u] = "running"
  BY DEF Enqueue, CloseApproval, Submit, EnterInterrupt, DecideRead, DecideWrite, rows, IInv, Types,
         Statuses, Unheld, Unclaimed
<1>3. pc' \in [Threads -> {"free", "recover", "scan", "idle"} \cup Busy]
  BY <1>1 DEF IInv, Types
<1>4. QED
  BY <1>1, <1>2, <1>3, SameHands

-----------------------------------------------------------------------------
LEMMA StepIInv == IInv /\ [Next]_vars => IInv'
<1> SUFFICES ASSUME IInv, [Next]_vars PROVE IInv'
  OBVIOUS
<1>1. ASSUME NEW w \in Threads, RouteRun(w) PROVE IInv'
  BY <1>1, ClaimKeeps DEF RouteRun, Busy
<1>2. CASE TickRun
  BY <1>2, ClaimKeeps, ThreadsAssumption DEF TickRun, Busy
<1>3. ASSUME NEW w \in Threads, ReadMode(w) \/ Deferred(w) \/ EndBatch(w) PROVE IInv'
  BY <1>3, ThreadKeeps
<1>4. ASSUME NEW w \in Threads, Defer(w) \/ StartTask(w) \/ FinishTask(w) PROVE IInv'
  BY <1>4, DeferKeeps, StartTaskKeeps, FinishTaskKeeps
<1>5. CASE TickBegin \/ RecoverRow \/ TickScan \/ TickIdle \/ TickBusy \/ EndWait
  BY <1>5, TickKeeps
<1>6. ASSUME NEW t \in Tasks, \/ Enqueue(t) \/ CloseApproval(t) \/ Submit(t) \/ EnterInterrupt(t)
                              \/ DecideRead(t) \/ DecideWrite(t)
      PROVE  IInv'
  BY <1>6, RequestKeeps
<1>7. CASE Restart
  BY <1>7, RestartKeeps
<1>8. CASE Clock \/ UNCHANGED vars
  <2>1. UNCHANGED <<status, batch, current, pc>>
    BY <1>8 DEF Clock, vars, rows
  <2>2. QED
    BY <2>1, SameHands DEF IInv, Types
<1>9. QED
  BY <1>1, <1>2, <1>3, <1>4, <1>5, <1>6, <1>7, <1>8 DEF Next

LEMMA Inductive == Spec => []IInv
BY InitIInv, StepIInv, PTL DEF Spec

\* No task is in the hands of two threads, although a slow one may have been declared
\* crashed meanwhile (claim_due: "no double delivery").
THEOREM NoDoubleDelivery == Spec => []OneRunner
<1>1. IInv => OneRunner
  BY DEF IInv
<1>2. QED
  BY Inductive, <1>1, PTL

\* A task that is done stays done and its handler is not started again: what the
\* recovery and the time-out scan read of it before does not count, and nobody holds it.
THEOREM NothingDoneTwice == Spec => DoneIsFinal
<1>1. ASSUME IInv, [Next]_vars, NEW t \in Tasks, status[t] = "done"
      PROVE  status'[t] = "done" /\ \A w \in Threads : current'[w] # t
  <2>1. \A w \in Threads : t \notin Hand(w)
    BY <1>1 DEF IInv, FreeOK, Unheld
  <2>2. IInv'
    BY <1>1, StepIInv
  <2>3. status'[t] = "done"
    <3>1. ASSUME NEW w \in Threads, NEW time, NEW next, Claim(w, time, next) PROVE status'[t] = "done"
      <4>1. PICK ids \in FirstOnes(Pending) :
               status' = [u \in Tasks |-> IF u \in ToSet(ids) THEN "running" ELSE status[u]]
        BY <3>1 DEF Claim
      <4>2. PICK m \in 0..Limit : ids \in [1..m -> Pending]
        BY <4>1 DEF FirstOnes, SeqOf
      <4>3. t \notin ToSet(ids)
        BY <1>1, <4>2 DEF ToSet, Pending
      <4>4. QED
        BY <1>1, <4>1, <4>3
    <3>2. CASE RecoverRow \/ EndWait \/ Restart
      BY <1>1, <3>2 DEF RecoverRow, EndWait, Restart, Running, IInv, Types
    <3>3. ASSUME NEW w \in Threads, Defer(w) \/ FinishTask(w) PROVE status'[t] = "done"
      <4>1. status \in [Tasks -> Statuses] /\ t # current[w] /\ (current[w] # None \/ ~FinishTask(w))
        BY <1>1, <2>1, NoneAssumption DEF IInv, Types, Hand, FinishTask
      <4>2. QED
        BY <1>1, <3>3, <4>1 DEF Defer, FinishTask
    <3>4. ASSUME NEW u \in Tasks, Enqueue(u) PROVE status'[t] = "done"
      BY <1>1, <3>4 DEF Enqueue, IInv, Types
    <3>5. CASE UNCHANGED status
      BY <1>1, <3>5
    <3>6. ASSUME NEW w \in Threads, RouteRun(w) \/ ReadMode(w) \/ Deferred(w) \/ StartTask(w) \/ EndBatch(w)
          PROVE  status'[t] = "done"
      BY <3>1, <3>5, <3>6 DEF RouteRun, ReadMode, Deferred, StartTask, EndBatch, rows
    <3>7. CASE TickRun
      BY <3>1, <3>7, ThreadsAssumption DEF TickRun
    <3>8. CASE Clock \/ TickBegin \/ TickScan \/ TickIdle \/ TickBusy \/ UNCHANGED vars
      BY <3>5, <3>8 DEF Clock, TickBegin, TickScan, TickIdle, TickBusy, vars, rows
    <3>9. ASSUME NEW u \in Tasks, CloseApproval(u) \/ Submit(u) \/ EnterInterrupt(u) \/ DecideRead(u) \/ DecideWrite(u)
          PROVE  status'[t] = "done"
      BY <3>5, <3>9 DEF CloseApproval, Submit, EnterInterrupt, DecideRead, DecideWrite, rows
    <3>10. QED
      BY <1>1, <3>2, <3>3, <3>4, <3>6, <3>7, <3>8, <3>9 DEF Next
  <2>4. QED
    BY <2>2, <2>3, NoneAssumption DEF IInv, FreeOK, Unheld, Hand
<1>2. IInv /\ [Next]_vars => [LeavesDone]_vars
  BY <1>1 DEF LeavesDone
<1>3. QED
  BY Inductive, <1>2, PTL DEF Spec, DoneIsFinal

\* A running row is in the hands of a thread: no crash leaves one running for ever
\* (recover_on_startup).
THEOREM NothingIsOrphaned == Spec => []NoOrphan
<1>1. IInv => NoOrphan
  BY DEF IInv
<1>2. QED
  BY Inductive, <1>1, PTL

-----------------------------------------------------------------------------
(***************************************************************************)
(* SettleTrigger                                                           *)
(***************************************************************************)

ThreadRecord == [pc : {"down", "axis", "day", "account", "fill", "insert", "tick", "close"},
                 ctx : {"catchup", "live"}, d : Days, until : Days, queue : SUBSET Accounts,
                 errs : SUBSET Accounts, a : Accounts \cup {NoAccount}, dates : SUBSET Days]
DayType == day \in Days /\ gaps \in [Days -> SUBSET Accounts]
ThreadType == th \in ThreadRecord
TickType == tick \in (Accounts \cup {NoAccount}) \X Days
TableType == /\ log \in [Accounts -> SUBSET Days]
             /\ rep \in [Accounts -> [Days -> Seq({"normal", "absent"})]]

\* Whoever is about to insert has an account; catch-up stays before the day of the start.
WritersOK == /\ th.pc = "insert" => th.a # NoAccount
             /\ tick # NoTick => tick[1] # NoAccount
             /\ th.ctx = "catchup" /\ th.pc \in {"account", "fill", "insert"} => th.d < th.until
             /\ th.pc \in {"tick", "close"} => th.ctx = "live"

TriggerIInv == DayType /\ ThreadType /\ TickType /\ TableType /\ WritersOK /\ ReportsTellTheSettlement

\* A step that leaves the reports alone.
LEMMA SameReports ==
  ASSUME TriggerIInv, UNCHANGED <<log, rep, chat>>, DayType', ThreadType', TickType', WritersOK'
  PROVE  TriggerIInv'
BY DEF TriggerIInv, TableType, ReportsTellTheSettlement

LEMMA TriggerInitIInv == TriggerInit => TriggerIInv
<1> SUFFICES ASSUME TriggerInit PROVE TriggerIInv
  OBVIOUS
<1>1. DayType /\ TickType
  BY BoundsAssumption DEF TriggerInit, DayType, TickType, NoTick, Days
<1>2. ThreadType
  BY BoundsAssumption DEF TriggerInit, ThreadType, ThreadRecord, Thread, Days
<1>3. TableType
  BY DEF TriggerInit, TableType
<1>4. WritersOK
  BY DEF TriggerInit, WritersOK, Thread
<1>5. ReportsTellTheSettlement
  BY DEF TriggerInit, ReportsTellTheSettlement
<1>6. QED
  BY <1>1, <1>2, <1>3, <1>4, <1>5 DEF TriggerIInv

-----------------------------------------------------------------------------
(* The day, the user, the start and the thread between its reports.        *)

LEMMA UserKeeps ==
  ASSUME TriggerIInv, \/ DayClock \/ (\E a \in Accounts : PlaceOrder(a) \/ Switch(a))
                      \/ (\E m \in {"normal", "paused_buy"} : SwitchAll(m))
  PROVE  TriggerIInv'
<1>1. UNCHANGED <<log, rep, chat, th, gaps, tick>> /\ day' \in Days
  <2>1. CASE DayClock
    BY <2>1, BoundsAssumption DEF DayClock, tables, TriggerIInv, DayType, Days
  <2>2. CASE \E a \in Accounts : PlaceOrder(a) \/ Switch(a)
    BY <2>2 DEF PlaceOrder, Switch, env, TriggerIInv, DayType
  <2>3. CASE \E m \in {"normal", "paused_buy"} : SwitchAll(m)
    BY <2>3 DEF SwitchAll, env, TriggerIInv, DayType
  <2>4. QED
    BY <2>1, <2>2, <2>3
<1>2. QED
  BY <1>1, SameReports DEF TriggerIInv, DayType, ThreadType, TickType, WritersOK

LEMMA StartKeeps == ASSUME TriggerIInv, Start \/ RestartThread \/ FetchAxis PROVE TriggerIInv'
<1>1. UNCHANGED <<log, rep, chat, day>>
  BY DEF Start, RestartThread, FetchAxis, tables, env
<1>2. DayType'
  BY <1>1 DEF Start, RestartThread, FetchAxis, TriggerIInv, DayType
<1>3. TickType' /\ (tick' = tick \/ tick' = NoTick)
  BY BoundsAssumption DEF Start, RestartThread, FetchAxis, TriggerIInv, TickType, NoTick, Days
<1>4. Thread \in ThreadRecord
  BY BoundsAssumption DEF ThreadRecord, Thread, Days
<1>5. ThreadType' /\ th'.pc \in {"down", "axis", "day", "tick"} /\ (th'.pc = "tick" => th'.ctx = "live")
  <2>1. CASE RestartThread
    BY <1>4, <2>1 DEF RestartThread, ThreadType, Thread
  <2>2. CASE Start
    BY <1>4, <2>2 DEF Start, TriggerIInv, DayType, ThreadType, ThreadRecord
  <2>3. CASE FetchAxis
    <3>1. CASE th' = [th EXCEPT !.pc = "day"]
      BY <3>1 DEF TriggerIInv, ThreadType, ThreadRecord
    <3>2. CASE th' = [Thread EXCEPT !.pc = "tick"]
      BY <1>4, <3>2 DEF ThreadType, ThreadRecord, Thread
    <3>3. QED
      BY <2>3, <3>1, <3>2 DEF FetchAxis
  <2>4. QED
    BY <2>1, <2>2, <2>3
<1>6. WritersOK'
  BY <1>3, <1>5 DEF TriggerIInv, WritersOK
<1>7. QED
  BY <1>1, <1>2, <1>3, <1>5, <1>6, SameReports

LEMMA TriggerThreadKeeps ==
  ASSUME TriggerIInv, \/ CatchupDay \/ CatchupDayRun \/ LiveDayRun
                      \/ SettleOnceIdle \/ SettleOnceTracking \/ SettleOnceRun
                      \/ (\E d \in Days : CloseDay(d))
                      \/ (\E a \in Accounts : NoWork(a) \/ DataRefused(a))
  PROVE  TriggerIInv'
<1>1. UNCHANGED <<log, rep, chat, day, tick>>
  BY DEF CatchupDay, CatchupDayRun, LiveDayRun, SettleOnceIdle, SettleOnceTracking, SettleOnceRun,
         CloseDay, NoWork, DataRefused, tables, env
<1>2. TickType' /\ Thread \in ThreadRecord /\ th \in ThreadRecord /\ Eligible \subseteq Accounts
  BY <1>1, BoundsAssumption DEF TriggerIInv, TickType, ThreadType, ThreadRecord, Thread, Days, Eligible
<1>3. DayType'
  <2>1. CASE LiveDayRun
    BY <1>1, <1>2, <2>1 DEF LiveDayRun, TriggerIInv, DayType, ThreadRecord
  <2>2. CASE SettleOnceIdle \/ SettleOnceTracking
    BY <1>1, <2>2 DEF SettleOnceIdle, SettleOnceTracking, TriggerIInv, DayType
  <2>3. CASE UNCHANGED gaps
    BY <1>1, <2>3 DEF TriggerIInv, DayType
  <2>4. QED
    BY <2>1, <2>2, <2>3 DEF CatchupDay, CatchupDayRun, SettleOnceRun, CloseDay, NoWork, DataRefused
<1>4. ThreadType' /\ WritersOK'
  <2>1. CASE CatchupDay
    <3>1. CASE th.d < th.until
      BY <1>1, <1>2, <2>1, <3>1 DEF CatchupDay, ThreadType, ThreadRecord, TriggerIInv, WritersOK
    <3>2. CASE ~(th.d < th.until)
      BY <1>1, <1>2, <2>1, <3>2 DEF CatchupDay, ThreadType, ThreadRecord, TriggerIInv, WritersOK, Thread
    <3>3. QED
      BY <3>1, <3>2
  <2>2. CASE CatchupDayRun
    BY <1>1, <1>2, <2>2 DEF CatchupDayRun, ThreadType, ThreadRecord, TriggerIInv, WritersOK
  <2>3. CASE LiveDayRun
    <3>1. th' = [Thread EXCEPT !.pc = "close", !.dates = {th.d}] /\ th.d \in Days
      BY <1>2, <2>3 DEF LiveDayRun, ThreadRecord
    <3>2. ThreadType' /\ th'.pc = "close" /\ th'.ctx = "live"
      BY <1>2, <3>1 DEF ThreadType, ThreadRecord, Thread
    <3>3. QED
      BY <1>1, <3>2 DEF TriggerIInv, WritersOK
  <2>4. CASE SettleOnceIdle \/ SettleOnceTracking
    <3>1. th' = [Thread EXCEPT !.pc = "close"]
      BY <2>4 DEF SettleOnceIdle, SettleOnceTracking
    <3>2. ThreadType' /\ th'.pc = "close" /\ th'.ctx = "live"
      BY <1>2, <3>1 DEF ThreadType, ThreadRecord, Thread
    <3>3. QED
      BY <1>1, <3>2 DEF TriggerIInv, WritersOK
  <2>5. CASE SettleOnceRun
    BY <1>1, <1>2, <2>5 DEF SettleOnceRun, ThreadType, ThreadRecord, Thread, TriggerIInv, WritersOK, DayType
  <2>6. CASE \E d \in Days : CloseDay(d)
    <3>1. PICK d \in Days : CloseDay(d)
      BY <2>6
    <3>2. /\ th' = [th EXCEPT !.pc = "fill", !.d = d, !.queue = gaps[d]]
          /\ gaps[d] \subseteq Accounts /\ th.pc = "close"
      BY <3>1 DEF CloseDay, TriggerIInv, DayType
    <3>3. ThreadType'
      BY <1>2, <3>2 DEF ThreadType, ThreadRecord
    <3>4. th.ctx = "live"
      BY <3>2 DEF TriggerIInv, WritersOK
    <3>5. QED
      BY <1>1, <1>2, <3>2, <3>3, <3>4 DEF ThreadRecord, TriggerIInv, WritersOK
  <2>7. CASE \E a \in Accounts : NoWork(a) \/ DataRefused(a)
    <3>1. PICK a \in Accounts : NoWork(a) \/ DataRefused(a)
      BY <2>7
    <3>2. CASE NoWork(a)
      BY <1>1, <1>2, <3>2 DEF NoWork, ThreadType, ThreadRecord, TriggerIInv, WritersOK
    <3>3. CASE DataRefused(a)
      <4>1. th' = [th EXCEPT !.queue = th.queue \ {a}, !.errs = th.errs \cup {a}] /\ th.pc = "account"
        BY <3>3 DEF DataRefused
      <4>2. QED
        BY <1>1, <1>2, <4>1 DEF ThreadType, ThreadRecord, TriggerIInv, WritersOK
    <3>4. QED
      BY <3>1, <3>2, <3>3
  <2>8. QED
    BY <2>1, <2>2, <2>3, <2>4, <2>5, <2>6, <2>7
<1>5. QED
  BY <1>1, <1>2, <1>3, <1>4, SameReports

-----------------------------------------------------------------------------
(* The reports.                                                            *)

\* The forms the reports of a day have.
LEMMA Forms ==
  ASSUME TriggerIInv, NEW a \in Accounts, NEW d \in Days
  PROVE  IF d \in log[a] THEN rep[a][d] = <<"normal">> \/ rep[a][d] = <<"absent", "normal">>
                         ELSE rep[a][d] = <<>> \/ rep[a][d] = <<"absent">>
BY DEF TriggerIInv, ReportsTellTheSettlement

LEMMA ShownIsFirst ==
  ASSUME TriggerIInv, NEW a \in Accounts, NEW d \in Days
  PROVE  \A s \in {"normal", "absent"} : <<a, d, s>> \in chat => rep[a][d] # <<>> /\ s = rep[a][d][1]
BY DEF TriggerIInv, ReportsTellTheSettlement

\* What the chat shows stays the first version.
LEMMA ReportsChange ==
  ASSUME TriggerIInv, NEW a \in Accounts, NEW d \in Days, NEW new \in Seq({"normal", "absent"}),
         rep' = [rep EXCEPT ![a][d] = new], chat' = chat,
         log' \in [Accounts -> SUBSET Days],
         \A b \in Accounts, e \in Days : b # a \/ e # d => (e \in log'[b] <=> e \in log[b]),
         new \in IF d \in log'[a] THEN {<<"normal">>, <<"absent", "normal">>}
                                  ELSE {<<>>, <<"absent">>},
         rep[a][d] # <<>> => new # <<>> /\ new[1] = rep[a][d][1]
  PROVE  TableType' /\ ReportsTellTheSettlement'
<1>1. rep \in [Accounts -> [Days -> Seq({"normal", "absent"})]]
  BY DEF TriggerIInv, TableType
<1>2. /\ rep' \in [Accounts -> [Days -> Seq({"normal", "absent"})]]
      /\ \A b \in Accounts, e \in Days : rep'[b][e] = IF b = a /\ e = d THEN new ELSE rep[b][e]
  BY <1>1
<1>3. ASSUME NEW b \in Accounts, NEW e \in Days
      PROVE  /\ rep'[b][e] \in IF e \in log'[b] THEN {<<"normal">>, <<"absent", "normal">>}
                                               ELSE {<<>>, <<"absent">>}
             /\ \A s \in {"normal", "absent"} : <<b, e, s>> \in chat' => rep'[b][e] # <<>> /\ s = rep'[b][e][1]
  <2>1. CASE b = a /\ e = d
    <3>1. \A s \in {"normal", "absent"} : <<a, d, s>> \in chat => rep[a][d] # <<>> /\ s = rep[a][d][1]
      BY DEF TriggerIInv, ReportsTellTheSettlement
    <3>2. QED
      BY <1>2, <2>1, <3>1
  <2>2. CASE ~(b = a /\ e = d)
    <3>1. rep'[b][e] = rep[b][e]
      BY <1>2, <2>2
    <3>2. e \in log'[b] <=> e \in log[b]
      BY <2>2
    <3>3. rep[b][e] \in IF e \in log[b] THEN {<<"normal">>, <<"absent", "normal">>}
                                        ELSE {<<>>, <<"absent">>}
      BY DEF TriggerIInv, ReportsTellTheSettlement
    <3>4. \A s \in {"normal", "absent"} : <<b, e, s>> \in chat => rep[b][e] # <<>> /\ s = rep[b][e][1]
      BY ShownIsFirst
    <3>5. QED
      BY <3>1, <3>2, <3>3, <3>4
  <2>3. QED
    BY <2>1, <2>2
<1>4. QED
  BY <1>2, <1>3 DEF TableType, ReportsTellTheSettlement

LEMMA InsertKeeps ==
  ASSUME TriggerIInv, NEW a \in Accounts, NEW d \in Days, InsertAbsent(a, d), UNCHANGED <<log, chat>>
  PROVE  TableType' /\ ReportsTellTheSettlement'
<1> DEFINE new == IF rep[a][d] = <<>> THEN <<"absent">> ELSE rep[a][d]
<1>1. rep' = [rep EXCEPT ![a][d] = new]
  BY DEF InsertAbsent
<1>2. rep[a][d] \in Seq({"normal", "absent"}) /\ log \in [Accounts -> SUBSET Days]
  BY DEF TriggerIInv, TableType
<1>3. new \in Seq({"normal", "absent"})
  <2>1. <<"absent">> \in Seq({"normal", "absent"})
    OBVIOUS
  <2>2. QED
    BY <1>2, <2>1
<1>4. new \in IF d \in log[a] THEN {<<"normal">>, <<"absent", "normal">>} ELSE {<<>>, <<"absent">>}
  <2>1. CASE rep[a][d] = <<>>
    <3>1. <<>> # <<"normal">> /\ <<>> # <<"absent", "normal">>
      OBVIOUS
    <3>2. d \notin log[a]
      BY <2>1, <3>1, Forms
    <3>3. QED
      BY <2>1, <3>2
  <2>2. CASE rep[a][d] # <<>>
    BY <2>2, Forms
  <2>3. QED
    BY <2>1, <2>2
<1>5. rep[a][d] # <<>> => new # <<>> /\ new[1] = rep[a][d][1]
  OBVIOUS
<1> HIDE DEF new
<1>6. QED
  BY <1>1, <1>2, <1>3, <1>4, <1>5, ReportsChange

LEMMA TickInserts ==
  ASSUME TriggerIInv, TickInsert \/ (\E a \in Accounts, d \in Days : TickCheck(a, d))
  PROVE  TriggerIInv'
<1>1. CASE TickInsert
  <2>1. tick[1] \in Accounts /\ tick[2] \in Days
    BY <1>1 DEF TickInsert, TriggerIInv, TickType, WritersOK
  <2>2. InsertAbsent(tick[1], tick[2]) /\ UNCHANGED <<log, chat, day, gaps, th>> /\ tick' = NoTick
    BY <1>1 DEF TickInsert, env
  <2>3. TableType' /\ ReportsTellTheSettlement'
    BY <2>1, <2>2, InsertKeeps
  <2>4. DayType' /\ ThreadType' /\ TickType' /\ WritersOK'
    BY <2>2, BoundsAssumption DEF TriggerIInv, DayType, ThreadType, TickType, WritersOK, NoTick, Days
  <2>5. QED
    BY <2>3, <2>4 DEF TriggerIInv
<1>2. CASE \E a \in Accounts, d \in Days : TickCheck(a, d)
  <2>1. PICK a \in Accounts, d \in Days : TickCheck(a, d)
    BY <1>2
  <2>2. tick' = <<a, d>> /\ UNCHANGED <<log, rep, chat, day, gaps, th>> /\ a # NoAccount
    BY <2>1, NoAccountAssumption DEF TickCheck, tables, env
  <2>3. DayType' /\ ThreadType' /\ TickType' /\ WritersOK'
    BY <2>2 DEF TriggerIInv, DayType, ThreadType, TickType, WritersOK
  <2>4. QED
    BY <2>2, <2>3, SameReports
<1>3. QED
  BY <1>1, <1>2

LEMMA FillKeeps ==
  ASSUME TriggerIInv, FillInsert \/ (\E a \in Accounts : FillCheck(a))
  PROVE  TriggerIInv'
<1>1. th \in ThreadRecord
  BY DEF TriggerIInv, ThreadType
<1>2. CASE FillInsert
  <2>1. /\ th.a \in Accounts /\ th.d \in Days /\ InsertAbsent(th.a, th.d)
        /\ UNCHANGED <<log, chat, day, gaps, tick>> /\ th.pc = "insert"
        /\ th' = [th EXCEPT !.pc = "fill", !.a = NoAccount]
    BY <1>1, <1>2 DEF FillInsert, TriggerIInv, ThreadRecord, WritersOK, env
  <2>2. TableType' /\ ReportsTellTheSettlement'
    BY <2>1, InsertKeeps
  <2>3. ThreadType' /\ WritersOK'
    BY <1>1, <2>1 DEF TriggerIInv, ThreadType, ThreadRecord, WritersOK
  <2>4. QED
    BY <2>1, <2>2, <2>3 DEF TriggerIInv, DayType, TickType
<1>3. CASE \E a \in Accounts : FillCheck(a)
  <2>1. PICK a \in Accounts : FillCheck(a)
    BY <1>3
  <2>2. UNCHANGED <<log, rep, chat, day, gaps, tick>> /\ th.pc = "fill" /\ a # NoAccount
    BY <2>1, NoAccountAssumption DEF FillCheck, tables, env
  <2>3. ThreadType' /\ WritersOK'
    <3>1. CASE rep[a][th.d] = <<>>
      <4>1. th' = [th EXCEPT !.queue = th.queue \ {a}, !.a = a, !.pc = "insert"]
        BY <2>1, <3>1 DEF FillCheck
      <4>2. QED
        BY <1>1, <2>2, <4>1 DEF TriggerIInv, ThreadType, ThreadRecord, WritersOK
    <3>2. CASE rep[a][th.d] # <<>>
      <4>1. th' = [th EXCEPT !.queue = th.queue \ {a}, !.a = NoAccount, !.pc = "fill"]
        BY <2>1, <3>2 DEF FillCheck
      <4>2. QED
        BY <1>1, <2>2, <4>1 DEF TriggerIInv, ThreadType, ThreadRecord, WritersOK
    <3>3. QED
      BY <3>1, <3>2
  <2>4. QED
    BY <2>2, <2>3, SameReports DEF TriggerIInv, DayType, TickType
<1>4. QED
  BY <1>2, <1>3

LEMMA NormalAfterAbsent == Append(<<"absent">>, "normal") = <<"absent", "normal">>
<1> DEFINE old == <<"absent">>
           new == Append(old, "normal")
           two == <<"absent", "normal">>
<1>1. old \in Seq({"normal", "absent"}) /\ Len(old) = 1 /\ old[1] = "absent"
  OBVIOUS
<1>2. two \in Seq({"normal", "absent"}) /\ Len(two) = 2 /\ two[1] = "absent" /\ two[2] = "normal"
  OBVIOUS
<1> HIDE DEF old, two
<1>3. new \in Seq({"normal", "absent"}) /\ Len(new) = 2 /\ new[1] = "absent" /\ new[2] = "normal"
  <2> DEFINE S == {"normal", "absent"}
  <2>1. "normal" \in S /\ old \in Seq(S)
    BY <1>1
  <2> HIDE DEF S
  <2>2. /\ new \in Seq(S) /\ Len(new) = Len(old) + 1
        /\ \A i \in 1..Len(old) : new[i] = old[i]
        /\ new[Len(old) + 1] = "normal"
    BY <2>1, AppendProperties
  <2>3. Len(old) + 1 = 2 /\ 1 \in 1..Len(old)
    BY <1>1
  <2>4. QED
    BY <1>1, <2>2, <2>3 DEF S
<1> HIDE DEF new
<1>4. new = two
  BY <1>2, <1>3, SeqEqual
<1>5. QED
  BY <1>4 DEF new, old, two

LEMMA SettleKeeps == ASSUME TriggerIInv, NEW a \in Accounts, Settle(a) PROVE TriggerIInv'
<1> DEFINE d == th.d
<1>1. /\ th \in ThreadRecord /\ d \in Days /\ th.pc = "account"
      /\ th' = [th EXCEPT !.queue = th.queue \ {a}]
      /\ UNCHANGED <<chat, day, gaps, tick>>
  BY DEF Settle, env, TriggerIInv, ThreadType, ThreadRecord
<1>2. DayType' /\ ThreadType' /\ TickType' /\ WritersOK'
  BY <1>1 DEF TriggerIInv, DayType, ThreadType, ThreadRecord, TickType, WritersOK
<1>3. CASE d \in log[a]
  BY <1>1, <1>2, <1>3, SameReports DEF Settle
<1>4. CASE d \notin log[a]
  <2> DEFINE new == Append(rep[a][d], "normal")
  <2>1. log' = [log EXCEPT ![a] = log[a] \cup {d}] /\ rep' = [rep EXCEPT ![a][d] = new]
    BY <1>4 DEF Settle
  <2>2. rep[a][d] = <<>> \/ rep[a][d] = <<"absent">>
    BY <1>1, <1>4, Forms
  <2>3. \/ new = <<"normal">> /\ rep[a][d] = <<>>
        \/ new = <<"absent", "normal">> /\ rep[a][d] = <<"absent">>
    <3>1. CASE rep[a][d] = <<>>
      BY <3>1
    <3>2. CASE rep[a][d] = <<"absent">>
      BY <3>2, NormalAfterAbsent
    <3>3. QED
      BY <2>2, <3>1, <3>2
  <2>b. <<"normal">> \in Seq({"normal", "absent"}) /\ <<"absent", "normal">> \in Seq({"normal", "absent"})
    OBVIOUS
  <2>4. new \in Seq({"normal", "absent"})
    BY <2>3, <2>b
  <2>5. rep[a][d] # <<>> => new # <<>> /\ new[1] = rep[a][d][1]
    BY <2>2, <2>3
  <2>6. /\ log' \in [Accounts -> SUBSET Days] /\ d \in log'[a]
        /\ \A b \in Accounts, e \in Days : b # a \/ e # d => (e \in log'[b] <=> e \in log[b])
    BY <1>1, <2>1 DEF TriggerIInv, TableType
  <2> HIDE DEF new, d
  <2>7. TableType' /\ ReportsTellTheSettlement'
    BY <1>1, <2>1, <2>3, <2>4, <2>5, <2>6, ReportsChange
  <2>8. QED
    BY <1>2, <2>7 DEF TriggerIInv
<1>5. QED
  BY <1>3, <1>4

\* A delivery shows a first version that has no later one.
LEMMA DeliveryKeeps ==
  ASSUME TriggerIInv, UNCHANGED <<log, rep>>, NEW D \in SUBSET Days,
         chat' = chat \cup UNION {Delivered(d) : d \in D}
  PROVE  TableType' /\ ReportsTellTheSettlement'
<1>1. ASSUME NEW a \in Accounts, NEW d \in Days, NEW s \in {"normal", "absent"},
             <<a, d, s>> \in chat', <<a, d, s>> \notin chat
      PROVE  rep[a][d] # <<>> /\ s = rep[a][d][1]
  <2>1. PICK e \in D : <<a, d, s>> \in Delivered(e)
    BY <1>1
  <2>2. PICK b \in {x \in Accounts : Len(rep[x][e]) = 1} : <<a, d, s>> = <<b, e, rep[b][e][1]>>
    BY <2>1 DEF Delivered
  <2>3. a = b /\ d = e /\ s = rep[a][d][1] /\ Len(rep[a][d]) = 1
    BY <2>2
  <2>4. QED
    BY <2>3
<1>2. QED
  BY <1>1 DEF TriggerIInv, TableType, ReportsTellTheSettlement

LEMMA FilledKeeps == ASSUME TriggerIInv, Filled PROVE TriggerIInv'
<1>1. /\ th \in ThreadRecord /\ th.pc = "fill" /\ UNCHANGED <<log, rep, day, tick>>
      /\ day \in Days /\ th.d \in Days /\ th.until \in Days
  BY DEF Filled, env, TriggerIInv, ThreadType, DayType, ThreadRecord
<1>2. CASE th.ctx = "catchup"
  <2>1. /\ th' = [th EXCEPT !.pc = "day", !.d = th.d + 1] /\ UNCHANGED gaps
        /\ chat' = chat \cup Delivered(th.d)
    BY <1>2 DEF Filled
  <2>2. th.d + 1 \in Days
    BY <1>1, <1>2, BoundsAssumption DEF TriggerIInv, WritersOK, Days
  <2>3. ThreadType' /\ WritersOK'
    BY <1>1, <2>1, <2>2 DEF TriggerIInv, ThreadType, ThreadRecord, WritersOK
  <2>4. chat' = chat \cup UNION {Delivered(d) : d \in {th.d}}
    BY <2>1
  <2>5. TableType' /\ ReportsTellTheSettlement'
    <3>1. {th.d} \in SUBSET Days
      BY <1>1
    <3>2. QED
      BY <1>1, <2>4, <3>1, DeliveryKeeps
  <2>6. QED
    BY <1>1, <2>1, <2>3, <2>5 DEF TriggerIInv, DayType, TickType
<1>3. CASE th.ctx # "catchup"
  <2>1. /\ th' = [th EXCEPT !.pc = "close", !.d = 1, !.dates = th.dates \cup {th.d}]
        /\ gaps' = [gaps EXCEPT ![th.d] = {}] /\ UNCHANGED chat
    BY <1>3 DEF Filled
  <2>2. 1 \in Days /\ th.ctx = "live"
    BY <1>1, <1>3, BoundsAssumption DEF Days, ThreadRecord
  <2>3. ThreadType' /\ WritersOK'
    BY <1>1, <2>1, <2>2 DEF TriggerIInv, ThreadType, ThreadRecord, WritersOK
  <2>4. DayType' /\ TickType'
    BY <1>1, <2>1 DEF TriggerIInv, DayType, TickType
  <2>5. QED
    BY <1>1, <2>1, <2>3, <2>4, SameReports
<1>4. QED
  BY <1>2, <1>3

LEMMA PushKeeps == ASSUME TriggerIInv, Push PROVE TriggerIInv'
<1>1. /\ chat' = chat \cup UNION {Delivered(d) : d \in th.dates} /\ th.dates \in SUBSET Days
      /\ UNCHANGED <<log, rep, day, gaps, tick>> /\ th' = [Thread EXCEPT !.pc = "tick"]
  BY DEF Push, env, TriggerIInv, ThreadType, ThreadRecord
<1>2. TableType' /\ ReportsTellTheSettlement'
  BY <1>1, DeliveryKeeps
<1>3. Thread \in ThreadRecord
  BY BoundsAssumption DEF ThreadRecord, Thread, Days
<1>4. ThreadType' /\ th'.pc = "tick" /\ th'.ctx = "live"
  BY <1>1, <1>3 DEF ThreadType, ThreadRecord, Thread
<1>5. WritersOK' /\ DayType' /\ TickType'
  BY <1>1, <1>4 DEF TriggerIInv, WritersOK, DayType, TickType
<1>6. QED
  BY <1>2, <1>4, <1>5 DEF TriggerIInv

-----------------------------------------------------------------------------
LEMMA TriggerStepIInv == TriggerIInv /\ [TriggerNext]_triggerVars => TriggerIInv'
<1> SUFFICES ASSUME TriggerIInv, [TriggerNext]_triggerVars PROVE TriggerIInv'
  OBVIOUS
<1>1. CASE DayClock \/ (\E a \in Accounts : PlaceOrder(a) \/ Switch(a))
           \/ (\E m \in {"normal", "paused_buy"} : SwitchAll(m))
  BY <1>1, UserKeeps
<1>2. CASE Start \/ RestartThread \/ FetchAxis
  BY <1>2, StartKeeps
<1>3. CASE \/ CatchupDay \/ CatchupDayRun \/ LiveDayRun
           \/ SettleOnceIdle \/ SettleOnceTracking \/ SettleOnceRun
           \/ (\E d \in Days : CloseDay(d))
           \/ (\E a \in Accounts : NoWork(a) \/ DataRefused(a))
  BY <1>3, TriggerThreadKeeps
<1>4. CASE TickInsert \/ (\E a \in Accounts, d \in Days : TickCheck(a, d))
  BY <1>4, TickInserts
<1>5. CASE FillInsert \/ (\E a \in Accounts : FillCheck(a))
  BY <1>5, FillKeeps
<1>6. CASE \E a \in Accounts : Settle(a)
  BY <1>6, SettleKeeps
<1>7. CASE Filled \/ Push
  BY <1>7, FilledKeeps, PushKeeps
<1>8. CASE UNCHANGED triggerVars
  BY <1>8, SameReports DEF triggerVars, env, tables, TriggerIInv, DayType, ThreadType, TickType, WritersOK
<1>9. QED
  BY <1>1, <1>2, <1>3, <1>4, <1>5, <1>6, <1>7, <1>8 DEF TriggerNext, Step

LEMMA TriggerInductive == TriggerSpec => []TriggerIInv
BY TriggerInitIInv, TriggerStepIInv, PTL DEF TriggerSpec

\* One normal report when the day is settled and none otherwise, with at most one absent
\* report, before it, although two threads write them after a check of their own; and the
\* chat shows the first version (reporting.py:339-414).
THEOREM ReportsAreTrue == TriggerSpec => []ReportsTellTheSettlement
<1>1. TriggerIInv => ReportsTellTheSettlement
  BY DEF TriggerIInv
<1>2. QED
  BY TriggerInductive, <1>1, PTL
=============================================================================
