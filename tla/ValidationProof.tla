--------------------------- MODULE ValidationProof ---------------------------
(***************************************************************************)
(* Theorems about the two ways a strategy is put to the test: Evolution,   *)
(* separate windows, the active version, what a rejection and the main     *)
(* account's pointer stand for; and TrialReplay, the sessions of a trial,  *)
(* the evidence a launch rests on, and the page that previews it.          *)
(***************************************************************************)
EXTENDS Evolution, TrialReplay, FiniteSetTheorems, SequenceTheorems, TLAPS

-----------------------------------------------------------------------------
(***************************************************************************)
(* Evolution                                                               *)
(***************************************************************************)

Status == {"none", "draft", "validated", "active", "rolled_back"}
Account == [st : {"trial", "archived"}, ver : Versions \cup {"none"}]

\* The types the proof needs: those of the versions, the windows' states, the
\* accounts, the callers and the settlement thread.
VerType == vst \in [Versions -> Status] /\ mainVer \in Versions \cup {"none"}
WindowRow == [st : {"none", "in_progress", "done"}, acct : Nat, sess : SUBSET Int, start : Int,
              opened : Int, decision : {"none", "activate", "rollback", "sealed"}]
WinType == wins \in [Versions -> WindowRow] /\ \A v \in Versions : wins[v].acct <= Len(accts)
AcctType == accts \in Seq(Account)
CallRow == [pc : {"free", "draft", "account", "register"}, v : Versions \cup {"none"}, acct : Nat]
CallType == /\ call \in [Callers -> CallRow]
            /\ \A c \in Callers : /\ call[c].acct <= Len(accts)
                                  /\ call[c].pc # "free" => call[c].v \in Versions
AdjRow == [pc : {"idle", "count", "apply", "memo", "close"}, v : Versions \cup {"none"}, d : Int,
           verdict : {"none", "activate", "rollback", "sealed"}]
AdjType == adj \in AdjRow /\ (adj.pc # "idle" => adj.v \in Versions)
Types == VerType /\ WinType /\ AcctType /\ CallType /\ AdjType /\ nextDay \in Int /\ today \in Int

\* A caller that has its draft is the only one with that version, which has had no
\* window; one that has its account is the only one with it.
HasDraft(c) == call[c].pc \in {"account", "register"}
CallersOK == \A c \in Callers :
    /\ HasDraft(c) => vst[call[c].v] # "none" /\ wins[call[c].v].st = "none"
    /\ call[c].pc = "register" <=> call[c].acct # 0
    /\ call[c].pc = "register" => accts[call[c].acct].st = "trial" /\ accts[call[c].acct].ver = "none"
    /\ \A b \in Callers \ {c} :
          /\ HasDraft(b) /\ HasDraft(c) => call[b].v # call[c].v
          /\ call[c].pc = "register" => call[b].acct # call[c].acct

\* A window that exists has a version that does, and an account of its own; only a
\* closed one has a decision.
WindowsOK == \A v \in Versions :
    /\ wins[v].st # "none" =>
          /\ vst[v] # "none"
          /\ wins[v].acct # 0
          /\ accts[wins[v].acct].ver = v
          /\ accts[wins[v].acct].st = IF wins[v].st = "done" THEN "archived" ELSE "trial"
          /\ \A c \in Callers : call[c].acct # wins[v].acct
    /\ wins[v].st # "done" => wins[v].decision = "none"
    /\ \A u \in Versions : wins[u].st = "in_progress" /\ wins[v].st = "in_progress" => u = v

\* The window that is being advanced is open until it is closed, and the verdict has
\* been carried out by then; an activation has left the agent with an active version.
SomeActive == \E v \in Versions : vst[v] = "active"
Had == {"active", "validated", "rolled_back"}
AdvanceOK ==
    adj.pc # "idle" =>
       /\ wins[adj.v].st = "in_progress"
       /\ adj.pc = "memo" => adj.verdict = "rollback"
       /\ adj.pc \in {"memo", "close"} /\ adj.verdict = "rollback" => vst[adj.v] = "rolled_back"
       /\ adj.pc = "close" /\ adj.verdict = "rollback" => adj.v \in memory
       /\ adj.pc = "close" /\ adj.verdict = "activate" => vst[adj.v] \in Had /\ SomeActive

\* One active version at most, and one whenever a version was demoted or a window
\* ended with an activation.
OnlyActive ==
    /\ \A u, v \in Versions : vst[u] = "active" /\ vst[v] = "active" => u = v
    /\ \A v \in Versions : vst[v] = "validated" \/ wins[v].decision = "activate" => SomeActive

IInv == /\ Types /\ CallersOK /\ WindowsOK /\ AdvanceOK
        /\ OnlyActive /\ RejectedStaysOut /\ PointerIsEarned

LEMMA InitIInv == Init => IInv
<1> SUFFICES ASSUME Init PROVE IInv
  OBVIOUS
<1> USE WindowAssumption DEF Init
<1>1. VerType /\ AdjType /\ nextDay \in Int /\ today \in Int
  BY DEF VerType, AdjType, AdjRow, IdleAdj, Status
<1>2. AcctType /\ Len(accts) = 0
  BY DEF AcctType
<1>3. WinType
  BY <1>2 DEF WinType, WindowRow, NoWindow
<1>4. CallType
  BY <1>2 DEF CallType, CallRow, FreeCall
<1>5. CallersOK /\ WindowsOK /\ AdvanceOK
  BY DEF CallersOK, HasDraft, WindowsOK, AdvanceOK, NoWindow, FreeCall, IdleAdj
<1>6. OnlyActive /\ RejectedStaysOut /\ PointerIsEarned
  BY DEF OnlyActive, RejectedStaysOut, PointerIsEarned, NoWindow
<1>7. QED
  BY <1>1, <1>2, <1>3, <1>4, <1>5, <1>6 DEF IInv, Types

-----------------------------------------------------------------------------
(* The four transactions of open_validation.                               *)

\* A caller goes back or forward without an account, and no table changes.
LEMMA CallerMoves ==
  ASSUME IInv, NEW c \in Callers, NEW v \in Versions \cup {"none"}, NEW pc \in {"free", "draft"},
         pc # "free" => v \in Versions,
         call' = [call EXCEPT ![c] = [pc |-> pc, v |-> v, acct |-> 0]],
         UNCHANGED <<today, nextDay, tables, adj>>
  PROVE  IInv'
<1> USE DEF IInv, tables
<1>1. Types'
  <2>1. CallType'
    BY DEF Types, CallType, CallRow, AcctType
  <2>2. QED
    BY <2>1 DEF Types, VerType, WinType, AcctType, AdjType
<1>2. \A b \in Callers : /\ b # c => call'[b] = call[b]
                         /\ call'[c].pc = pc /\ call'[c].acct = 0
  BY DEF Types, CallType
<1>3. CallersOK'
  BY <1>2 DEF CallersOK, HasDraft
<1>4. WindowsOK'
  <2>1. \A b \in Callers, u \in Versions : wins[u].st # "none" => call'[b].acct # wins[u].acct
    BY <1>2 DEF WindowsOK
  <2>2. QED
    BY <2>1 DEF WindowsOK
<1>5. AdvanceOK' /\ OnlyActive' /\ RejectedStaysOut' /\ PointerIsEarned'
  BY DEF AdvanceOK, OnlyActive, SomeActive, RejectedStaysOut, PointerIsEarned
<1>6. QED
  BY <1>1, <1>3, <1>4, <1>5

LEMMA AskKeeps == ASSUME IInv, NEW c \in Callers, NEW v \in Versions, Ask(c, v) PROVE IInv'
BY CallerMoves DEF Ask

LEMMA RefusedKeeps == ASSUME IInv, NEW c \in Callers, ProvisionRefused(c) PROVE IInv'
BY CallerMoves DEF ProvisionRefused, FreeCall

LEMMA CheckpointKeeps == ASSUME IInv, NEW c \in Callers, Checkpoint(c) PROVE IInv'
<1> DEFINE v == call[c].v
<1>1. v \in Versions /\ call[c].pc = "draft"
  BY DEF Checkpoint, IInv, Types, CallType
<1>2. CASE vst[v] # "none"
  <2>1. call' = [call EXCEPT ![c] = [pc |-> "free", v |-> "none", acct |-> 0]]
    BY <1>2 DEF Checkpoint, FreeCall
  <2>2. UNCHANGED <<today, nextDay, tables, adj>>
    BY <1>2 DEF Checkpoint, tables
  <2>3. QED
    BY <2>1, <2>2, CallerMoves
<1>3. CASE vst[v] = "none"
  <2>1. /\ vst' = [vst EXCEPT ![v] = "draft"]
        /\ call' = [call EXCEPT ![c].pc = "account"]
        /\ UNCHANGED <<today, nextDay, wins, accts, mainVer, memory, adj>>
    BY <1>3 DEF Checkpoint
  <2>2. \A u \in Versions : vst'[u] = IF u = v THEN "draft" ELSE vst[u]
    BY <2>1 DEF IInv, Types, VerType
  <2>3. call[c].acct = 0
    BY <1>1 DEF IInv, CallersOK
  <2>4. /\ call'[c].pc = "account" /\ call'[c].v = v /\ call'[c].acct = 0
        /\ \A b \in Callers : b # c => call'[b] = call[b]
    BY <1>1, <2>1, <2>3 DEF IInv, Types, CallType, CallRow
  <2>5. \A b \in Callers : HasDraft(b) => call[b].v \in Versions
    BY DEF IInv, Types, CallType, HasDraft
  <2> HIDE DEF v
  <2>6. Types'
    <3>1. VerType' /\ CallType'
      BY <1>1, <2>1 DEF IInv, Types, VerType, CallType, CallRow, Status
    <3>2. QED
      BY <2>1, <3>1 DEF IInv, Types, WinType, AcctType, AdjType
  <2>7. wins[v].st = "none"
    BY <1>1, <1>3 DEF IInv, WindowsOK
  <2>8. CallersOK'
    <3>1. \A b \in Callers : HasDraft(b) => call[b].v # v
      BY <1>3 DEF IInv, CallersOK
    <3>2. \A b \in Callers : HasDraft(b)' <=> (b = c \/ HasDraft(b))
      BY <2>4 DEF HasDraft
    <3>3. ASSUME NEW b \in Callers
          PROVE  /\ HasDraft(b)' => vst'[call'[b].v] # "none" /\ wins'[call'[b].v].st = "none"
                 /\ call'[b].pc = "register" <=> call'[b].acct # 0
                 /\ call'[b].pc = "register" => accts'[call'[b].acct].st = "trial"
                                                /\ accts'[call'[b].acct].ver = "none"
      BY <1>1, <2>1, <2>2, <2>4, <2>5, <2>7, <3>1, <3>2 DEF IInv, CallersOK
    <3>4. ASSUME NEW b \in Callers, NEW d \in Callers \ {b}
          PROVE  /\ HasDraft(d)' /\ HasDraft(b)' => call'[d].v # call'[b].v
                 /\ call'[b].pc = "register" => call'[d].acct # call'[b].acct
      BY <2>3, <2>4, <3>1, <3>2 DEF IInv, CallersOK
    <3>5. QED
      BY <3>3, <3>4 DEF CallersOK, HasDraft
  <2>9. WindowsOK'
    <3>1. \A b \in Callers : call'[b].acct = call[b].acct
      BY <2>3, <2>4
    <3>2. \A u \in Versions : vst[u] # "none" => vst'[u] # "none"
      BY <2>2
    <3>3. QED
      BY <2>1, <3>1, <3>2 DEF IInv, WindowsOK
  <2>10. AdvanceOK' /\ RejectedStaysOut' /\ PointerIsEarned'
    BY <1>3, <2>1, <2>2 DEF IInv, AdvanceOK, SomeActive, RejectedStaysOut, PointerIsEarned,
                            Had, Types, AdjType, VerType
  <2>11. OnlyActive'
    BY <1>3, <2>1, <2>2 DEF IInv, OnlyActive, SomeActive
  <2>12. QED
    BY <2>6, <2>8, <2>9, <2>10, <2>11 DEF IInv
<1>4. QED
  BY <1>2, <1>3

LEMMA ProvisionKeeps == ASSUME IInv, NEW c \in Callers, Provision(c) PROVE IInv'
<1> DEFINE n == Len(accts)
           v == call[c].v
<1>1. /\ call[c].pc = "account" /\ accts' = Append(accts, [st |-> "trial", ver |-> "none"])
      /\ UNCHANGED <<today, nextDay, vst, wins, mainVer, memory, adj>>
  BY DEF Provision
<1>2. /\ n \in Nat /\ AcctType' /\ Len(accts') = n + 1
      /\ accts'[n + 1].st = "trial" /\ accts'[n + 1].ver = "none"
      /\ \A i \in 1..n : accts'[i] = accts[i]
  BY <1>1 DEF IInv, Types, AcctType, Account
<1>3. /\ v \in Versions /\ call'[c].pc = "register" /\ call'[c].v = v /\ call'[c].acct = n + 1
      /\ \A b \in Callers : b # c => call'[b] = call[b]
      /\ \A b \in Callers : call[b].acct \in Nat /\ call[b].acct <= n
                            /\ (HasDraft(b) => call[b].v \in Versions)
  BY <1>2 DEF Provision, IInv, Types, CallType, CallRow, HasDraft
<1>4. \A u \in Versions : wins[u].acct \in Nat /\ wins[u].acct <= n
  BY DEF IInv, Types, WinType, WindowRow
<1>5. Types'
  <2>1. CallType'
    <3>1. call' \in [Callers -> CallRow]
      BY <1>2 DEF Provision, IInv, Types, CallType, CallRow
    <3>2. QED
      BY <1>2, <1>3, <3>1 DEF IInv, Types, CallType
  <2>2. WinType'
    BY <1>1, <1>2, <1>4 DEF IInv, Types, WinType
  <2>3. QED
    BY <1>1, <1>2, <2>1, <2>2 DEF IInv, Types, VerType, AdjType
<1> HIDE DEF n, v
<1>6. CallersOK'
  <2>1. /\ HasDraft(c) /\ \A b \in Callers : HasDraft(b)' <=> HasDraft(b)
        /\ \A b \in Callers : call'[b].v = call[b].v
    BY <1>1, <1>3 DEF HasDraft, v
  <2>2. ASSUME NEW b \in Callers
        PROVE  /\ HasDraft(b)' => vst'[call'[b].v] # "none" /\ wins'[call'[b].v].st = "none"
               /\ call'[b].pc = "register" <=> call'[b].acct # 0
               /\ call'[b].pc = "register" => accts'[call'[b].acct].st = "trial"
                                              /\ accts'[call'[b].acct].ver = "none"
    BY <1>1, <1>2, <1>3, <2>1 DEF IInv, CallersOK
  <2>3. ASSUME NEW b \in Callers, NEW d \in Callers \ {b}
        PROVE  /\ HasDraft(d)' /\ HasDraft(b)' => call'[d].v # call'[b].v
               /\ call'[b].pc = "register" => call'[d].acct # call'[b].acct
    BY <1>2, <1>3, <2>1 DEF IInv, CallersOK
  <2>4. QED
    BY <2>2, <2>3 DEF CallersOK, HasDraft
<1>7. WindowsOK'
  <2>1. \A u \in Versions : wins[u].st # "none" => accts'[wins[u].acct] = accts[wins[u].acct]
    BY <1>2, <1>4 DEF IInv, WindowsOK
  <2>2. \A u \in Versions, b \in Callers : wins[u].st # "none" => call'[b].acct # wins[u].acct
    BY <1>2, <1>3, <1>4 DEF IInv, WindowsOK
  <2>3. ASSUME NEW u \in Versions, wins[u].st # "none"
        PROVE  /\ vst[u] # "none" /\ wins[u].acct # 0 /\ accts'[wins[u].acct].ver = u
               /\ accts'[wins[u].acct].st = IF wins[u].st = "done" THEN "archived" ELSE "trial"
    <3>1. accts'[wins[u].acct] = accts[wins[u].acct]
      BY <2>1, <2>3
    <3>2. QED
      BY <2>3, <3>1 DEF IInv, WindowsOK
  <2>4. \A u, x \in Versions : /\ wins[u].st # "done" => wins[u].decision = "none"
                               /\ wins[x].st = "in_progress" /\ wins[u].st = "in_progress" => x = u
    BY DEF IInv, WindowsOK
  <2>5. wins' = wins /\ vst' = vst
    BY <1>1
  <2>6. QED
    BY <2>2, <2>3, <2>4, <2>5 DEF WindowsOK
<1>8. AdvanceOK' /\ OnlyActive' /\ RejectedStaysOut' /\ PointerIsEarned'
  BY <1>1 DEF IInv, AdvanceOK, OnlyActive, SomeActive, RejectedStaysOut, PointerIsEarned
<1>9. QED
  BY <1>5, <1>6, <1>7, <1>8 DEF IInv

LEMMA RegisterKeeps == ASSUME IInv, NEW c \in Callers, Register(c) PROVE IInv'
<1> DEFINE v == call[c].v
           a == call[c].acct
           n == Len(accts)
           free == [pc |-> "free", v |-> "none", acct |-> 0]
           w == [st |-> "in_progress", acct |-> a, sess |-> {}, start |-> 0,
                 opened |-> today, decision |-> "none"]
<1>1. /\ call[c].pc = "register" /\ call' = [call EXCEPT ![c] = free]
      /\ UNCHANGED <<today, nextDay, vst, mainVer, memory, adj>>
  BY DEF Register, FreeCall
<1>2. CASE InProgress # {}
  <2>1. UNCHANGED <<today, nextDay, tables, adj>>
    BY <1>2 DEF Register, tables
  <2>2. QED
    BY <1>1, <2>1, CallerMoves
<1>3. CASE InProgress = {}
  <2>1. /\ v \in Versions /\ n \in Nat /\ a \in 1..n
        /\ \A b \in Callers : /\ call[b].acct \in Nat /\ call[b].acct <= n
                              /\ HasDraft(b) => call[b].v \in Versions
                              /\ b # c => call'[b] = call[b]
        /\ call'[c].pc = "free" /\ call'[c].acct = 0
    BY <1>1 DEF IInv, Types, CallType, CallRow, AcctType, CallersOK, HasDraft
  <2>2. /\ vst[v] # "none" /\ wins[v].st = "none"
        /\ accts[a].st = "trial" /\ accts[a].ver = "none"
        /\ \A b \in Callers \ {c} : /\ HasDraft(b) => call[b].v # v
                                    /\ call[b].acct # a
    BY <1>1 DEF IInv, CallersOK, HasDraft
  <2>3. wins' = [wins EXCEPT ![v] = w] /\ accts' = [accts EXCEPT ![a].ver = v]
    BY <1>3 DEF Register, OpenWindow
  <2>4. /\ AcctType' /\ Len(accts') = n /\ accts'[a].st = "trial" /\ accts'[a].ver = v
        /\ \A i \in 1..n : i # a => accts'[i] = accts[i]
    <3>1. accts \in Seq(Account) /\ v \in Versions \cup {"none"} /\ accts[a] \in Account
      BY <2>1 DEF IInv, Types, AcctType
    <3>2. [accts[a] EXCEPT !.ver = v] \in Account
      BY <3>1 DEF Account
    <3>3. accts' = [accts EXCEPT ![a] = [accts[a] EXCEPT !.ver = v]]
      BY <2>3
    <3>4. AcctType' /\ Len(accts') = n /\ accts'[a] = [accts[a] EXCEPT !.ver = v]
          /\ \A i \in 1..n : i # a => accts'[i] = accts[i]
      BY <2>1, <3>1, <3>2, <3>3 DEF AcctType
    <3>5. QED
      BY <2>2, <3>1, <3>4 DEF Account
  <2>5. w \in WindowRow /\ w.st = "in_progress" /\ w.acct = a /\ w.decision = "none"
    BY <2>1 DEF IInv, Types, WindowRow
  <2>6. /\ \A u \in Versions : wins[u].acct \in Nat /\ wins[u].acct <= n /\ wins[u].st # "in_progress"
        /\ wins \in [Versions -> WindowRow]
    BY <1>3 DEF IInv, Types, WinType, WindowRow, InProgress
  <2> HIDE DEF w
  <2>7. \A u \in Versions : wins'[u] = IF u = v THEN w ELSE wins[u]
    BY <2>1, <2>3, <2>6
  <2>8. \A u \in Versions : wins[u].st # "none" => wins[u].acct # a
    BY DEF IInv, WindowsOK
  <2>9. adj.pc = "idle" /\ mainVer \in Versions \cup {"none"}
    BY <2>6 DEF IInv, AdvanceOK, Types, AdjType, VerType
  <2>10. Types'
    <3>1. WinType'
      BY <2>1, <2>3, <2>4, <2>5, <2>6, <2>7 DEF WinType
    <3>2. call' \in [Callers -> CallRow]
      BY <1>1 DEF IInv, Types, CallType, CallRow
    <3>3. CallType'
      BY <2>1, <2>4, <3>2 DEF IInv, Types, CallType
    <3>4. QED
      BY <1>1, <2>4, <3>1, <3>3 DEF IInv, Types, VerType, AdjType
  <2> HIDE DEF v, a, n
  <2>11. CallersOK'
    <3>1. \A b \in Callers : (HasDraft(b)' <=> (b # c /\ HasDraft(b)))
                             /\ (call'[b].pc = "register" <=> (b # c /\ call[b].pc = "register"))
      BY <2>1 DEF HasDraft
    <3>2. ASSUME NEW b \in Callers, b # c
          PROVE  /\ HasDraft(b)' => vst'[call'[b].v] # "none" /\ wins'[call'[b].v].st = "none"
                 /\ call'[b].pc = "register" <=> call'[b].acct # 0
                 /\ call'[b].pc = "register" => accts'[call'[b].acct].st = "trial"
                                                /\ accts'[call'[b].acct].ver = "none"
      <4>1. HasDraft(b)' => wins'[call'[b].v].st = "none"
        BY <2>1, <2>2, <2>7, <3>1, <3>2 DEF IInv, CallersOK
      <4>2. call'[b].pc = "register" => accts'[call'[b].acct] = accts[call[b].acct]
        BY <2>1, <2>2, <2>4, <3>2 DEF IInv, CallersOK
      <4>3. QED
        BY <1>1, <2>1, <3>1, <3>2, <4>1, <4>2 DEF IInv, CallersOK
    <3>3. ASSUME NEW b \in Callers, NEW d \in Callers \ {b}
          PROVE  /\ HasDraft(d)' /\ HasDraft(b)' => call'[d].v # call'[b].v
                 /\ call'[b].pc = "register" => call'[d].acct # call'[b].acct
      BY <2>1, <3>1 DEF IInv, CallersOK
    <3>4. QED
      BY <2>1, <3>1, <3>2, <3>3 DEF CallersOK, HasDraft
  <2>12. WindowsOK'
    <3>1. \A b \in Callers : call'[b].acct # a
      BY <2>1, <2>2
    <3>2. ASSUME NEW u \in Versions, wins'[u].st # "none"
          PROVE  /\ vst'[u] # "none" /\ wins'[u].acct # 0 /\ accts'[wins'[u].acct].ver = u
                 /\ accts'[wins'[u].acct].st = IF wins'[u].st = "done" THEN "archived" ELSE "trial"
                 /\ \A b \in Callers : call'[b].acct # wins'[u].acct
      <4>1. CASE u = v
        BY <1>1, <2>1, <2>2, <2>4, <2>5, <2>7, <3>1, <4>1
      <4>2. CASE u # v
        <5>1. wins'[u] = wins[u] /\ wins[u].acct \in 1..n /\ wins[u].acct # a
          BY <2>1, <2>6, <2>7, <2>8, <3>2, <4>2 DEF IInv, WindowsOK
        <5>2. \A b \in Callers : call'[b].acct # wins[u].acct
          BY <2>1, <3>2, <5>1 DEF IInv, WindowsOK
        <5>3. QED
          BY <1>1, <2>4, <3>2, <5>1, <5>2 DEF IInv, WindowsOK
      <4>3. QED
        BY <4>1, <4>2
    <3>3. \A u \in Versions : wins'[u].st # "done" => wins'[u].decision = "none"
      <4>1. \A u \in Versions : wins[u].st # "done" => wins[u].decision = "none"
        BY DEF IInv, WindowsOK
      <4>2. QED
        BY <2>5, <2>7, <4>1
    <3>4. \A u \in Versions : wins'[u].st = "in_progress" => u = v
      BY <2>6, <2>7
    <3>5. QED
      BY <3>2, <3>3, <3>4 DEF WindowsOK
  <2>13. AdvanceOK'
    BY <1>1, <2>9 DEF AdvanceOK
  <2>14. OnlyActive' /\ RejectedStaysOut' /\ PointerIsEarned'
    <3>1. wins[v].decision = "none"
      BY <2>1, <2>2 DEF IInv, WindowsOK
    <3>2. \A u \in Versions : wins'[u].decision = wins[u].decision
      BY <2>5, <2>7, <3>1
    <3>3. QED
      BY <1>1, <2>9, <3>2 DEF IInv, OnlyActive, SomeActive, RejectedStaysOut, PointerIsEarned
  <2>15. QED
    BY <2>10, <2>11, <2>12, <2>13, <2>14 DEF IInv
<1>4. QED
  BY <1>2, <1>3

-----------------------------------------------------------------------------
(* The settlement thread.                                                  *)

\* A step that leaves the versions, the accounts, the callers and what a window has
\* been registered and closed with.
LEMMA SameWindows ==
  ASSUME IInv, UNCHANGED <<vst, accts, mainVer, call>>,
         WinType', AdjType', AdvanceOK', today' \in Int, nextDay' \in Int,
         memory \subseteq memory',
         \A u \in Versions : /\ wins'[u].st = wins[u].st /\ wins'[u].acct = wins[u].acct
                             /\ wins'[u].decision = wins[u].decision
  PROVE  IInv'
<1>1. Types'
  BY DEF IInv, Types, VerType, AcctType, CallType
<1>2. CallersOK'
  <2>1. \A c \in Callers : HasDraft(c) => wins'[call[c].v].st = wins[call[c].v].st
    BY DEF IInv, Types, CallType, HasDraft
  <2>2. QED
    BY <2>1 DEF IInv, CallersOK, HasDraft
<1>3. WindowsOK'
  BY DEF IInv, WindowsOK
<1>4. OnlyActive' /\ RejectedStaysOut' /\ PointerIsEarned'
  <2>1. mainVer \in Versions \cup {"none"}
    BY DEF IInv, Types, VerType
  <2>2. QED
    BY <2>1 DEF IInv, OnlyActive, SomeActive, RejectedStaysOut, PointerIsEarned
<1>5. QED
  BY <1>1, <1>2, <1>3, <1>4 DEF IInv

\* A step that gives versions a new status and leaves everything that was rejected
\* rejected, and everything that was active one of Had.
LEMMA NewStatus ==
  ASSUME IInv, UNCHANGED <<today, wins, accts, mainVer, memory, call>>,
         vst' \in [Versions -> Status], AdjType', AdvanceOK', OnlyActive', nextDay' \in Int,
         \A u \in Versions : /\ vst[u] # "none" => vst'[u] # "none"
                             /\ vst[u] = "rolled_back" => vst'[u] = "rolled_back"
                             /\ vst[u] \in Had => vst'[u] \in Had
  PROVE  IInv'
<1>1. Types'
  BY DEF IInv, Types, VerType, WinType, AcctType, CallType
<1>2. CallersOK'
  <2>1. \A c \in Callers : HasDraft(c) => (vst[call[c].v] # "none" => vst'[call[c].v] # "none")
    BY DEF IInv, Types, CallType, HasDraft
  <2>2. QED
    BY <2>1 DEF IInv, CallersOK, HasDraft
<1>3. WindowsOK'
  BY DEF IInv, WindowsOK
<1>4. RejectedStaysOut' /\ PointerIsEarned'
  <2>1. mainVer \in Versions \cup {"none"}
    BY DEF IInv, Types, VerType
  <2>2. QED
    BY <2>1 DEF IInv, RejectedStaysOut, PointerIsEarned, Had
<1>5. QED
  BY <1>1, <1>2, <1>3, <1>4 DEF IInv

LEMMA DayKeeps == ASSUME IInv, NewDay \/ SkipDay PROVE IInv'
<1>1. /\ UNCHANGED <<vst, wins, accts, mainVer, memory, call, adj>>
      /\ today' \in Int /\ nextDay' \in Int
  BY DEF NewDay, SkipDay, tables, IInv, Types
<1>2. WinType' /\ AdjType' /\ AdvanceOK'
  BY <1>1 DEF IInv, Types, WinType, AdjType, AdvanceOK, SomeActive
<1>3. QED
  BY <1>1, <1>2, SameWindows

LEMMA AddSessionKeeps == ASSUME IInv, NEW v \in Versions, AddSession(v) PROVE IInv'
<1>1. /\ wins' = [wins EXCEPT ![v].sess = @ \cup {nextDay}]
      /\ adj' = [pc |-> "count", v |-> v, d |-> nextDay, verdict |-> "none"]
      /\ UNCHANGED <<today, nextDay, vst, accts, mainVer, memory, call>>
      /\ wins[v].st = "in_progress"
  BY DEF AddSession, InProgress
<1>2. nextDay \in Int /\ today \in Int /\ wins \in [Versions -> WindowRow]
  BY DEF IInv, Types, WinType
<1>3. /\ wins' \in [Versions -> WindowRow]
      /\ \A u \in Versions : /\ wins'[u].st = wins[u].st /\ wins'[u].acct = wins[u].acct
                             /\ wins'[u].decision = wins[u].decision
  BY <1>1, <1>2 DEF WindowRow
<1>4. WinType'
  BY <1>1, <1>3 DEF IInv, Types, WinType
<1>5. AdjType' /\ AdvanceOK'
  BY <1>1, <1>2, <1>3 DEF AdjType, AdjRow, AdvanceOK
<1>6. QED
  BY <1>1, <1>2, <1>3, <1>4, <1>5, SameWindows

LEMMA CountKeeps ==
  ASSUME IInv, NEW enough \in BOOLEAN, NEW e \in Evidence, Count(enough, e)
  PROVE  IInv'
<1>1. /\ adj.pc = "count" /\ adj \in AdjRow /\ adj.v \in Versions
      /\ UNCHANGED <<today, vst, accts, mainVer, memory, call>>
      /\ wins[adj.v].st = "in_progress"
  BY DEF Count, IInv, Types, AdjType, AdvanceOK
<1>2. nextDay \in Int /\ today \in Int /\ wins \in [Versions -> WindowRow] /\ WinType
  BY DEF IInv, Types, WinType
<1>3. CASE adj' = [adj EXCEPT !.pc = "apply", !.verdict = Verdict(e)] /\ UNCHANGED <<wins, nextDay>>
  <2>1. Verdict(e) \in {"none", "activate", "rollback", "sealed"}
    BY DEF Verdict
  <2>2. AdjType' /\ adj'.pc = "apply" /\ adj'.v = adj.v
    BY <1>1, <1>3, <2>1 DEF AdjType, AdjRow
  <2>3. WinType' /\ AdvanceOK'
    BY <1>1, <1>2, <1>3, <2>2 DEF WinType, AdvanceOK
  <2>4. QED
    BY <1>1, <1>2, <1>3, <2>2, <2>3, SameWindows
<1>4. CASE /\ wins' = [wins EXCEPT ![adj.v].start = Start(wins[adj.v], adj.d)]
           /\ adj' = IdleAdj /\ nextDay' = nextDay + 1
  <2>1. Start(wins[adj.v], adj.d) \in Int
    BY <1>1, <1>2 DEF Start, WindowRow, AdjRow
  <2>2. /\ wins' \in [Versions -> WindowRow]
        /\ \A u \in Versions : /\ wins'[u].st = wins[u].st /\ wins'[u].acct = wins[u].acct
                               /\ wins'[u].decision = wins[u].decision
    BY <1>1, <1>2, <1>4, <2>1 DEF WindowRow
  <2>3. WinType' /\ AdjType' /\ AdvanceOK'
    BY <1>1, <1>2, <1>4, <2>2 DEF WinType, AdjType, AdjRow, AdvanceOK, IdleAdj
  <2>4. QED
    BY <1>1, <1>2, <1>4, <2>2, <2>3, SameWindows
<1>5. QED
  BY <1>3, <1>4 DEF Count

\* The thread goes on with the same window, or stops with it.
LEMMA ActivateKeeps == ASSUME IInv, Activate PROVE IInv'
<1> DEFINE v == adj.v
<1>1. /\ adj.pc = "apply" /\ adj.verdict = "activate" /\ v \in Versions
      /\ UNCHANGED <<today, wins, accts, mainVer, memory, call>>
      /\ wins[v].st = "in_progress" /\ nextDay \in Int /\ today \in Int
  BY DEF Activate, IInv, Types, AdjType, AdvanceOK
<1>2. adj' = [adj EXCEPT !.pc = "close"] \/ adj' = IdleAdj => AdjType'
  BY <1>1 DEF IInv, Types, AdjType, AdjRow, IdleAdj
<1>3. WinType'
  BY <1>1 DEF IInv, Types, WinType
<1>4. CASE vst[v] = "active"
  <2>1. adj' = [adj EXCEPT !.pc = "close"] /\ UNCHANGED <<vst, nextDay>>
    BY <1>4 DEF Activate
  <2>2. AdvanceOK'
    BY <1>1, <1>4, <2>1 DEF AdvanceOK, Had, SomeActive, IInv, Types, AdjType, AdjRow
  <2>3. QED
    BY <1>1, <1>2, <1>3, <2>1, <2>2, SameWindows
<1>5. CASE vst[v] \in {"draft", "validated"}
  <2>1. vst' = Promote(v) /\ adj' = [adj EXCEPT !.pc = "close"] /\ UNCHANGED nextDay
    BY <1>5 DEF Activate
  <2>2. /\ vst' \in [Versions -> Status]
        /\ \A u \in Versions : vst'[u] = IF u = v THEN "active"
                                         ELSE IF vst[u] = "active" THEN "validated" ELSE vst[u]
    BY <2>1 DEF Promote, IInv, Types, VerType, Status
  <2>3. \A u \in Versions : /\ vst[u] # "none" => vst'[u] # "none"
                            /\ vst[u] = "rolled_back" => vst'[u] = "rolled_back"
                            /\ vst[u] \in Had => vst'[u] \in Had
    BY <1>5, <2>2 DEF Had
  <2>4. AdvanceOK'
    BY <1>1, <2>1, <2>2 DEF AdvanceOK, Had, SomeActive, IInv, Types, AdjType, AdjRow
  <2>5. OnlyActive'
    BY <1>1, <2>2 DEF OnlyActive, SomeActive
  <2>6. QED
    BY <1>1, <1>2, <2>1, <2>2, <2>3, <2>4, <2>5, NewStatus
<1>6. CASE vst[v] \notin {"active", "draft", "validated"}
  <2>1. adj' = IdleAdj /\ nextDay' = nextDay + 1 /\ UNCHANGED vst
    BY <1>6 DEF Activate
  <2>2. AdvanceOK' /\ nextDay' \in Int
    BY <1>1, <2>1 DEF AdvanceOK, IdleAdj
  <2>3. QED
    BY <1>1, <1>2, <1>3, <2>1, <2>2, SameWindows
<1>7. QED
  BY <1>4, <1>5, <1>6

LEMMA RejectKeeps == ASSUME IInv, Reject PROVE IInv'
<1> DEFINE v == adj.v
<1>1. /\ adj.pc = "apply" /\ adj.verdict = "rollback" /\ v \in Versions
      /\ UNCHANGED <<today, nextDay, wins, accts, mainVer, memory, call>>
      /\ wins[v].st = "in_progress" /\ nextDay \in Int /\ today \in Int
  BY DEF Reject, IInv, Types, AdjType, AdvanceOK
<1>2. CASE vst[v] \in {"draft", "validated"}
  <2>1. vst' = [vst EXCEPT ![v] = "rolled_back"] /\ adj' = [adj EXCEPT !.pc = "memo"]
    BY <1>2 DEF Reject
  <2>2. /\ vst' \in [Versions -> Status]
        /\ \A u \in Versions : vst'[u] = IF u = v THEN "rolled_back" ELSE vst[u]
    BY <1>1, <2>1 DEF IInv, Types, VerType, Status
  <2>3. AdjType' /\ adj'.pc = "memo" /\ adj'.v = v /\ adj'.verdict = "rollback"
    BY <1>1, <2>1 DEF IInv, Types, AdjType, AdjRow
  <2>4. AdvanceOK'
    BY <1>1, <2>2, <2>3 DEF AdvanceOK
  <2>5. OnlyActive'
    BY <1>1, <1>2, <2>2 DEF IInv, OnlyActive, SomeActive
  <2>6. \A u \in Versions : /\ vst[u] # "none" => vst'[u] # "none"
                            /\ vst[u] = "rolled_back" => vst'[u] = "rolled_back"
                            /\ vst[u] \in Had => vst'[u] \in Had
    BY <2>2 DEF Had
  <2>7. QED
    BY <1>1, <2>2, <2>3, <2>4, <2>5, <2>6, NewStatus
<1>3. CASE vst[v] \notin {"draft", "validated"}
  <2>1. adj' = [adj EXCEPT !.pc = "close", !.verdict = "sealed"] /\ UNCHANGED vst
    BY <1>3 DEF Reject
  <2>2. AdjType' /\ adj'.pc = "close" /\ adj'.v = v /\ adj'.verdict = "sealed"
    BY <1>1, <2>1 DEF IInv, Types, AdjType, AdjRow
  <2>3. AdvanceOK' /\ WinType'
    BY <1>1, <2>2 DEF AdvanceOK, IInv, Types, WinType
  <2>4. QED
    BY <1>1, <2>1, <2>2, <2>3, SameWindows
<1>4. QED
  BY <1>2, <1>3

LEMMA MemoKeeps == ASSUME IInv, Memo PROVE IInv'
<1>1. /\ adj.pc = "memo" /\ memory' = memory \cup {adj.v} /\ adj' = [adj EXCEPT !.pc = "close"]
      /\ UNCHANGED <<today, nextDay, vst, wins, accts, mainVer, call>>
  BY DEF Memo
<1>2. AdjType' /\ adj'.pc = "close" /\ adj'.v = adj.v /\ adj'.verdict = adj.verdict
  BY <1>1 DEF IInv, Types, AdjType, AdjRow
<1>3. AdvanceOK' /\ WinType' /\ today' \in Int /\ nextDay' \in Int
  BY <1>1, <1>2 DEF AdvanceOK, IInv, Types, WinType
<1>4. QED
  BY <1>1, <1>2, <1>3, SameWindows

LEMMA SealKeeps == ASSUME IInv, Seal PROVE IInv'
<1>1. /\ adj.pc = "apply" /\ adj.verdict = "sealed" /\ adj' = [adj EXCEPT !.pc = "close"]
      /\ UNCHANGED <<today, nextDay, vst, wins, accts, mainVer, memory, call>>
  BY DEF Seal, tables
<1>2. AdjType' /\ adj'.pc = "close" /\ adj'.v = adj.v /\ adj'.verdict = "sealed"
  BY <1>1 DEF IInv, Types, AdjType, AdjRow
<1>3. AdvanceOK' /\ WinType' /\ today' \in Int /\ nextDay' \in Int
  BY <1>1, <1>2 DEF AdvanceOK, IInv, Types, WinType
<1>4. QED
  BY <1>1, <1>2, <1>3, SameWindows

LEMMA RollbackKeeps == ASSUME IInv, Rollback PROVE IInv'
<1>1. PICK old \in Active, new \in Versions :
         /\ vst[new] = "validated"
         /\ vst' = [vst EXCEPT ![old] = "rolled_back", ![new] = "active"]
         /\ UNCHANGED <<today, nextDay, wins, accts, mainVer, memory, call, adj>>
  BY DEF Rollback
<1>2. old \in Versions /\ vst[old] = "active" /\ vst \in [Versions -> Status]
  BY DEF Active, IInv, Types, VerType
<1>3. /\ vst' \in [Versions -> Status]
      /\ \A u \in Versions : vst'[u] = IF u = new THEN "active"
                                       ELSE IF u = old THEN "rolled_back" ELSE vst[u]
  BY <1>1, <1>2 DEF Status
<1>4. \A u \in Versions : /\ vst[u] # "none" => vst'[u] # "none"
                          /\ vst[u] = "rolled_back" => vst'[u] = "rolled_back"
                          /\ vst[u] \in Had => vst'[u] \in Had
  BY <1>1, <1>2, <1>3 DEF Had
<1>5. SomeActive' /\ OnlyActive'
  BY <1>2, <1>3 DEF IInv, OnlyActive, SomeActive
<1>6. AdjType' /\ nextDay' \in Int /\ (adj.pc # "idle" => adj.v \in Versions)
  BY <1>1 DEF IInv, Types, AdjType
<1>7. AdvanceOK'
  BY <1>1, <1>4, <1>5, <1>6 DEF IInv, AdvanceOK
<1>8. QED
  BY <1>1, <1>3, <1>4, <1>5, <1>6, <1>7, NewStatus

LEMMA RestartKeeps == ASSUME IInv, Restart PROVE IInv'
<1>1. /\ nextDay' = 1 /\ adj' = IdleAdj /\ call' = [c \in Callers |-> FreeCall]
      /\ UNCHANGED <<today, vst, wins, accts, mainVer, memory>>
  BY DEF Restart, tables
<1>2. \A c \in Callers : call'[c].pc = "free" /\ call'[c].acct = 0
  BY <1>1 DEF FreeCall
<1>3. Types'
  <2>1. CallType' /\ AdjType'
    BY <1>1 DEF CallType, CallRow, AdjType, AdjRow, FreeCall, IdleAdj, IInv, Types, AcctType
  <2>2. QED
    BY <1>1, <2>1 DEF IInv, Types, VerType, WinType, AcctType
<1>4. CallersOK'
  BY <1>2 DEF CallersOK, HasDraft
<1>5. WindowsOK'
  BY <1>1, <1>2 DEF IInv, WindowsOK
<1>6. AdvanceOK'
  BY <1>1 DEF AdvanceOK, IdleAdj
<1>7. OnlyActive' /\ RejectedStaysOut' /\ PointerIsEarned'
  BY <1>1 DEF IInv, OnlyActive, SomeActive, RejectedStaysOut, PointerIsEarned
<1>8. QED
  BY <1>3, <1>4, <1>5, <1>6, <1>7 DEF IInv

LEMMA CloseKeeps == ASSUME IInv, Close PROVE IInv'
<1> DEFINE v == adj.v
           a == wins[v].acct
           n == Len(accts)
<1>1. /\ adj.pc = "close" /\ v \in Versions /\ wins[v].st = "in_progress"
      /\ adj.verdict \in {"none", "activate", "rollback", "sealed"}
      /\ nextDay \in Int /\ n \in Nat /\ a \in 1..n /\ accts[a].ver = v
      /\ mainVer \in Versions \cup {"none"} /\ wins \in [Versions -> WindowRow]
  BY DEF Close, IInv, Types, AdjType, AdjRow, AdvanceOK, WinType, WindowRow, AcctType, WindowsOK, VerType
<1>2. /\ wins' = [wins EXCEPT ![v].st = "done", ![v].decision = adj.verdict]
      /\ accts' = [accts EXCEPT ![a].st = "archived"]
      /\ mainVer' = IF adj.verdict = "activate" THEN v ELSE mainVer
      /\ adj' = IdleAdj /\ nextDay' = nextDay + 1
      /\ UNCHANGED <<today, vst, memory, call>>
  BY DEF Close
<1>3. /\ AcctType' /\ Len(accts') = n /\ accts'[a].st = "archived" /\ accts'[a].ver = v
      /\ \A i \in 1..n : i # a => accts'[i] = accts[i]
  <2>1. accts \in Seq(Account) /\ accts[a] \in Account
    BY <1>1 DEF IInv, Types, AcctType
  <2>2. /\ [accts[a] EXCEPT !.st = "archived"] \in Account
        /\ accts' = [accts EXCEPT ![a] = [accts[a] EXCEPT !.st = "archived"]]
    BY <1>2, <2>1 DEF Account
  <2>3. AcctType' /\ Len(accts') = n /\ accts'[a] = [accts[a] EXCEPT !.st = "archived"]
        /\ \A i \in 1..n : i # a => accts'[i] = accts[i]
    BY <1>1, <2>1, <2>2 DEF AcctType
  <2>4. QED
    BY <1>1, <2>1, <2>3 DEF Account
<1>4. /\ wins' \in [Versions -> WindowRow]
      /\ wins'[v].st = "done" /\ wins'[v].decision = adj.verdict /\ wins'[v].acct = a
      /\ \A u \in Versions : u # v => wins'[u] = wins[u]
  BY <1>1, <1>2, ZenonT(40) DEF WindowRow
<1>5. \A u \in Versions : /\ wins[u].acct \in Nat /\ wins[u].acct <= n
                          /\ wins[u].st = "none" => u # v
                          /\ u # v /\ wins[u].st # "none" => wins[u].acct # a
  BY <1>1 DEF IInv, Types, WinType, WindowRow, WindowsOK
<1>6. Types'
  <2>1. \A u \in Versions : wins'[u].acct = wins[u].acct
    BY <1>4
  <2>2. WinType'
    BY <1>3, <1>4, <1>5, <2>1 DEF WinType
  <2>3. CallType'
    BY <1>2, <1>3 DEF IInv, Types, CallType
  <2>4. AdjType' /\ VerType'
    BY <1>1, <1>2 DEF IInv, Types, AdjType, AdjRow, VerType, IdleAdj
  <2>5. QED
    BY <1>1, <1>2, <1>3, <2>2, <2>3, <2>4 DEF IInv, Types
<1>7. \A c \in Callers : call[c].acct \in Nat /\ call[c].acct <= n /\ call[c].acct # a
                         /\ (HasDraft(c) => call[c].v \in Versions)
  BY <1>1 DEF IInv, Types, CallType, CallRow, WindowsOK, HasDraft
<1> HIDE DEF v, a, n
<1>8. CallersOK'
  <2>1. \A c \in Callers : HasDraft(c) => wins'[call[c].v].st = "none"
    BY <1>1, <1>4, <1>7 DEF IInv, CallersOK
  <2>2. \A c \in Callers : call[c].pc = "register" => accts'[call[c].acct] = accts[call[c].acct]
    BY <1>1, <1>3, <1>7 DEF IInv, CallersOK
  <2>3. ASSUME NEW c \in Callers
        PROVE  /\ HasDraft(c)' => vst'[call'[c].v] # "none" /\ wins'[call'[c].v].st = "none"
               /\ call'[c].pc = "register" <=> call'[c].acct # 0
               /\ call'[c].pc = "register" => accts'[call'[c].acct].st = "trial"
                                              /\ accts'[call'[c].acct].ver = "none"
    <3>1. HasDraft(c)' <=> HasDraft(c)
      BY <1>2 DEF HasDraft
    <3>2. /\ HasDraft(c) => vst[call[c].v] # "none"
          /\ call[c].pc = "register" <=> call[c].acct # 0
          /\ call[c].pc = "register" => accts[call[c].acct].st = "trial" /\ accts[call[c].acct].ver = "none"
      BY DEF IInv, CallersOK
    <3>3. call' = call /\ vst' = vst
      BY <1>2
    <3>4. QED
      BY <2>1, <2>2, <3>1, <3>2, <3>3
  <2>4. ASSUME NEW c \in Callers, NEW b \in Callers \ {c}
        PROVE  /\ HasDraft(b)' /\ HasDraft(c)' => call'[b].v # call'[c].v
               /\ call'[c].pc = "register" => call'[b].acct # call'[c].acct
    BY <1>2 DEF IInv, CallersOK, HasDraft
  <2>5. QED
    BY <2>3, <2>4 DEF CallersOK, HasDraft
<1>9. WindowsOK'
  <2>1. ASSUME NEW u \in Versions, wins'[u].st # "none"
        PROVE  /\ vst'[u] # "none" /\ wins'[u].acct # 0 /\ accts'[wins'[u].acct].ver = u
               /\ accts'[wins'[u].acct].st = IF wins'[u].st = "done" THEN "archived" ELSE "trial"
               /\ \A c \in Callers : call'[c].acct # wins'[u].acct
    <3>1. CASE u = v
      <4>1. vst[v] # "none"
        BY <1>1 DEF IInv, WindowsOK
      <4>2. QED
        BY <1>1, <1>2, <1>3, <1>4, <1>7, <3>1, <4>1
    <3>2. CASE u # v
      <4>1. wins'[u] = wins[u] /\ wins[u].st # "none"
        BY <1>4, <2>1, <3>2
      <4>2. /\ vst[u] # "none" /\ wins[u].acct # 0 /\ accts[wins[u].acct].ver = u
            /\ accts[wins[u].acct].st = IF wins[u].st = "done" THEN "archived" ELSE "trial"
            /\ \A c \in Callers : call[c].acct # wins[u].acct
        BY <4>1 DEF IInv, WindowsOK
      <4>3. accts'[wins[u].acct] = accts[wins[u].acct]
        BY <1>1, <1>3, <1>5, <3>2, <4>1, <4>2
      <4>4. QED
        BY <1>2, <4>1, <4>2, <4>3
    <3>3. QED
      BY <3>1, <3>2
  <2>2. \A u \in Versions : wins'[u].st # "done" => wins'[u].decision = "none"
    <3>1. \A u \in Versions : wins[u].st # "done" => wins[u].decision = "none"
      BY DEF IInv, WindowsOK
    <3>2. QED
      BY <1>4, <3>1
  <2>3. \A u, x \in Versions : wins'[x].st = "in_progress" /\ wins'[u].st = "in_progress" => x = u
    <3>1. \A u, x \in Versions : wins[x].st = "in_progress" /\ wins[u].st = "in_progress" => x = u
      BY DEF IInv, WindowsOK
    <3>2. QED
      BY <1>4, <3>1
  <2>4. QED
    BY <2>1, <2>2, <2>3 DEF WindowsOK
<1>10. AdvanceOK' /\ OnlyActive'
  <2>1. AdvanceOK'
    BY <1>2 DEF AdvanceOK, IdleAdj
  <2>2. adj.verdict = "activate" => SomeActive
    BY <1>1 DEF IInv, AdvanceOK
  <2>3. \A u \in Versions : wins'[u].decision = "activate" => SomeActive
    BY <1>4, <2>2 DEF IInv, OnlyActive
  <2>4. QED
    BY <1>2, <2>1, <2>3 DEF IInv, OnlyActive, SomeActive
<1>11. RejectedStaysOut'
  <2>1. adj.verdict = "rollback" => vst[v] = "rolled_back" /\ v \in memory
    BY <1>1 DEF IInv, AdvanceOK, v
  <2>2. QED
    BY <1>2, <1>4, <2>1 DEF IInv, RejectedStaysOut
<1>12. PointerIsEarned'
  <2>1. CASE adj.verdict = "activate"
    <3>1. vst[v] \in Had
      BY <1>1, <2>1 DEF IInv, AdvanceOK, v
    <3>2. QED
      BY <1>2, <1>4, <2>1, <3>1 DEF PointerIsEarned, Had
  <2>2. CASE adj.verdict # "activate"
    <3>1. wins[v].decision = "none"
      BY <1>1 DEF IInv, WindowsOK
    <3>2. QED
      BY <1>1, <1>2, <1>4, <2>2, <3>1 DEF IInv, PointerIsEarned
  <2>3. QED
    BY <2>1, <2>2
<1>13. QED
  BY <1>6, <1>8, <1>9, <1>10, <1>11, <1>12 DEF IInv

-----------------------------------------------------------------------------
LEMMA StepIInv == IInv /\ [Next]_vars => IInv'
<1> SUFFICES ASSUME IInv, [Next]_vars PROVE IInv'
  OBVIOUS
<1>1. ASSUME NEW c \in Callers, Open(c) PROVE IInv'
  BY <1>1, AskKeeps, CheckpointKeeps, ProvisionKeeps, RefusedKeeps, RegisterKeeps DEF Open
<1>2. CASE Advance
  BY <1>2, AddSessionKeeps, CountKeeps, ActivateKeeps, RejectKeeps, MemoKeeps, SealKeeps, CloseKeeps
     DEF Advance
<1>3. CASE NewDay \/ SkipDay
  BY <1>3, DayKeeps
<1>4. CASE Rollback \/ Restart
  BY <1>4, RollbackKeeps, RestartKeeps
<1>5. CASE UNCHANGED vars
  BY <1>5 DEF vars, tables, IInv, Types, VerType, WinType, AcctType, CallType, AdjType, CallersOK,
              HasDraft, WindowsOK, AdvanceOK, OnlyActive, SomeActive, RejectedStaysOut, PointerIsEarned
<1>6. QED
  BY <1>1, <1>2, <1>3, <1>4, <1>5 DEF Next

LEMMA Inductive == Spec => []IInv
BY InitIInv, StepIInv, PTL DEF Spec

\* However callers of open_validation race, an agent has one window in progress at most,
\* and each window an account of its own that trades with the window's version
\* (evoquant.py:113-187).
THEOREM Separate == Spec => []WindowsAreSeparate
<1>1. IInv => WindowsAreSeparate
  <2> SUFFICES ASSUME IInv PROVE WindowsAreSeparate
    OBVIOUS
  <2>1. Cardinality(InProgress) <= 1
    <3>1. CASE InProgress = {}
      BY <3>1, FS_EmptySet
    <3>2. CASE InProgress # {}
      <4>1. PICK v \in InProgress : TRUE
        BY <3>2
      <4>2. InProgress = {v}
        BY <4>1 DEF InProgress, IInv, WindowsOK
      <4>3. Cardinality({v}) = 1
        BY FS_Singleton
      <4>4. QED
        BY <4>2, <4>3
    <3>3. QED
      BY <3>1, <3>2
  <2>2. ASSUME NEW v \in Versions, wins[v].st # "none"
        PROVE  /\ accts[wins[v].acct] = [ver |-> v, st |-> IF wins[v].st = "done" THEN "archived" ELSE "trial"]
               /\ \A c \in Callers : call[c].acct # wins[v].acct
    <3>1. /\ accts[wins[v].acct].ver = v
          /\ accts[wins[v].acct].st = IF wins[v].st = "done" THEN "archived" ELSE "trial"
          /\ \A c \in Callers : call[c].acct # wins[v].acct
          /\ wins[v].acct # 0
      BY <2>2 DEF IInv, WindowsOK
    <3>2. wins[v].acct \in 1..Len(accts)
      BY <3>1 DEF IInv, Types, WinType, WindowRow, AcctType
    <3>3. accts[wins[v].acct] \in Account
      BY <3>2 DEF IInv, Types, AcctType
    <3>4. QED
      BY <3>1, <3>3 DEF Account
  <2>3. QED
    BY <2>1, <2>2 DEF WindowsAreSeparate
<1>2. QED
  BY Inductive, <1>1, PTL

\* The agent has one active version at most (strategy_versions.py:15), and from its
\* first promotion on always one, whatever crashes come between a verdict and the
\* window's closing and whoever rolls back by hand (activate, rollback); without one its
\* main account points at none.
THEOREM ActiveIsKept == Spec => []OneActive
<1>1. IInv => OneActive
  <2> SUFFICES ASSUME IInv PROVE OneActive
    OBVIOUS
  <2>1. Cardinality(Active) <= 1
    <3>1. CASE Active = {}
      BY <3>1, FS_EmptySet
    <3>2. CASE Active # {}
      <4>1. PICK v \in Active : TRUE
        BY <3>2
      <4>2. Active = {v}
        BY <4>1 DEF Active, IInv, OnlyActive
      <4>3. Cardinality({v}) = 1
        BY FS_Singleton
      <4>4. QED
        BY <4>2, <4>3
    <3>3. QED
      BY <3>1, <3>2
  <2>2. ASSUME Active = {}
        PROVE  mainVer = "none" /\ \A v \in Versions : vst[v] # "validated" /\ wins[v].decision # "activate"
    <3>1. ~SomeActive
      BY <2>2 DEF Active, SomeActive
    <3>2. \A v \in Versions : vst[v] # "validated" /\ wins[v].decision # "activate"
      BY <3>1 DEF IInv, OnlyActive
    <3>3. mainVer \in Versions \cup {"none"}
      BY DEF IInv, Types, VerType
    <3>4. QED
      BY <3>2, <3>3 DEF IInv, PointerIsEarned
  <2>3. QED
    BY <2>1, <2>2 DEF OneActive
<1>2. QED
  BY Inductive, <1>1, PTL

\* A version whose window was closed with a rejection is never promoted again, and the
\* reason is in the agent's memory (decide, evoquant.py:331-354).
THEOREM RejectionLasts == Spec => []RejectedStaysOut
<1>1. IInv => RejectedStaysOut
  BY DEF IInv
<1>2. QED
  BY Inductive, <1>1, PTL

\* The main account's pointer names no version, or one whose window ended with an
\* activation and which had been active (decide, evoquant.py:401-405).
THEOREM PointerStandsForAVerdict == Spec => []PointerIsEarned
<1>1. IInv => PointerIsEarned
  BY DEF IInv
<1>2. QED
  BY Inductive, <1>1, PTL

-----------------------------------------------------------------------------
(***************************************************************************)
(* TrialReplay                                                             *)
(***************************************************************************)

TableType ==
    /\ day \in Days /\ agent \in [Agents -> {"none", "trial", "running", "archived"}]
    /\ acct \in [Agents -> {"none", "trial", "archived"}]
    /\ ordered \in [Agents -> SUBSET Days] /\ active \in [Agents -> SUBSET Days]
    /\ log \in [Agents -> SUBSET Days] /\ sess \in [Agents -> SUBSET Days]
    /\ replay \in [Agents -> {"none", "in_progress", "done"}]
    /\ archive \in [Agents -> [decision : {"none", "launch", "reject"}, ordered : SUBSET Days,
                               log : SUBSET Days, sess : SUBSET Days]]
ThreadType == th \in [pc : {"next", "settle", "count"}, a : Agents \cup {Nobody}, d : Days,
                      todo : [Agents -> SUBSET Days]]

\* An order is active or settled, and only of a day up to today.
OrdersOK == \A a \in Agents : /\ ordered[a] \subseteq active[a] \cup log[a]
                              /\ active[a] \cap log[a] = {}
                              /\ \A d \in log[a] : d < day
\* The replay is in progress while the window is not full.
WindowOK == \A a \in Agents :
    /\ replay[a] = "in_progress" => agent[a] = "trial" /\ Cardinality(sess[a]) < Window
    /\ agent[a] = "trial" => replay[a] = "in_progress" \/ Cardinality(sess[a]) >= Window
    /\ agent[a] = "none" => sess[a] = {}
    /\ Cardinality(sess[a]) <= Window
\* The thread works on past days of agents that exist, and only a trial's end
\* takes a replay away from it.
ThreadOK ==
    /\ \A a \in Agents : /\ \A d \in th.todo[a] : d < day
                         /\ th.todo[a] # {} => agent[a] # "none"
    /\ th.pc # "next" => th.a \in Agents /\ th.d \in th.todo[th.a]
    /\ th.pc = "settle" => replay[th.a] = "in_progress" \/ agent[th.a] = "archived"
    /\ th.pc = "count" /\ OpenTrial(th.a) => /\ th.d \notin active[th.a]
                                             /\ th.d \in ordered[th.a] => th.d \in log[th.a]

TrialIInv == /\ TableType /\ ThreadType /\ OrdersOK /\ WindowOK /\ ThreadOK
             /\ SessionsAreHonest /\ LaunchStandsOnEvidence

LEMMA DaysFinite == ASSUME NEW S, S \subseteq Days PROVE IsFiniteSet(S) /\ Cardinality(S) \in Nat
<1>1. IsFiniteSet(Days)
  BY DaysAssumption, FS_Interval DEF Days
<1>2. IsFiniteSet(S)
  BY <1>1, FS_Subset
<1>3. QED
  BY <1>2, FS_CardinalityType

LEMMA DayOne == 1 \in Days /\ FirstDay \in Days
BY DaysAssumption, TrialWindowAssumption DEF Days

LEMMA TrialInitIInv == TrialInit => TrialIInv
<1> SUFFICES ASSUME TrialInit PROVE TrialIInv
  OBVIOUS
<1>1. TableType
  BY DayOne DEF TrialInit, TableType, NotArchived
<1>2. ThreadType /\ th.pc = "next" /\ \A a \in Agents : th.todo[a] = {}
  BY DayOne DEF TrialInit, ThreadType, Idle
<1>3. ThreadOK
  BY <1>2 DEF ThreadOK
<1>4. Cardinality({}) = 0
  BY FS_EmptySet
<1>5. OrdersOK /\ WindowOK
  BY <1>4, TrialWindowAssumption DEF TrialInit, OrdersOK, WindowOK
<1>6. SessionsAreHonest
  BY <1>4, TrialWindowAssumption DEF TrialInit, SessionsAreHonest, Abnormal
<1>7. LaunchStandsOnEvidence
  BY DEF TrialInit, LaunchStandsOnEvidence
<1>8. QED
  BY <1>1, <1>2, <1>3, <1>5, <1>6, <1>7 DEF TrialIInv

-----------------------------------------------------------------------------
(* The day, the user and the agent.                                        *)

LEMMA NewDayKeeps == ASSUME TrialIInv, TrialNewDay PROVE TrialIInv'
<1>1. day' = day + 1 /\ day' \in Days /\ day \in Nat /\ Days \subseteq Nat
  BY DaysAssumption DEF TrialIInv, TableType, TrialNewDay, Days
<1>2. UNCHANGED <<agent, acct, archive, ordered, active, held, log, replay, sess, th>>
  BY DEF TrialNewDay, status, book
<1>3. TableType' /\ ThreadType' /\ WindowOK' /\ LaunchStandsOnEvidence'
  BY <1>1, <1>2 DEF TrialIInv, TableType, ThreadType, WindowOK, LaunchStandsOnEvidence
<1>4. ASSUME NEW d \in Days, d < day PROVE d < day'
  BY <1>1, <1>4
<1>5. OrdersOK'
  BY <1>2, <1>4 DEF TrialIInv, TableType, OrdersOK
<1>6. ThreadOK'
  <2>1. \A a \in Agents : /\ \A d \in th.todo[a] : d \in Days
    BY DEF TrialIInv, ThreadType
  <2>2. QED
    BY <1>2, <1>4, <2>1 DEF TrialIInv, ThreadOK, OpenTrial
<1>7. SessionsAreHonest'
  BY <1>2, <1>4 DEF TrialIInv, TableType, SessionsAreHonest, Abnormal
<1>8. QED
  BY <1>3, <1>5, <1>6, <1>7 DEF TrialIInv

LEMMA CreateKeeps == ASSUME TrialIInv, NEW a \in Agents, Create(a) PROVE TrialIInv'
<1>1. /\ agent[a] = "none" /\ sess[a] = {} /\ Cardinality(sess[a]) < Window
      /\ UNCHANGED <<day, archive, ordered, active, held, log, sess, th>>
  <2>1. agent[a] = "none" /\ UNCHANGED <<day, archive, ordered, active, held, log, sess, th>>
    BY DEF Create, book
  <2>2. sess[a] = {}
    BY <2>1 DEF TrialIInv, WindowOK
  <2>3. Cardinality({}) = 0
    BY FS_EmptySet
  <2>4. QED
    BY <2>1, <2>2, <2>3, TrialWindowAssumption
<1>2. /\ agent' \in [Agents -> {"none", "trial", "running", "archived"}]
      /\ replay' \in [Agents -> {"none", "in_progress", "done"}]
      /\ acct' \in [Agents -> {"none", "trial", "archived"}]
      /\ \A b \in Agents : /\ agent'[b] = IF b = a THEN "trial" ELSE agent[b]
                           /\ replay'[b] = IF b = a THEN "in_progress" ELSE replay[b]
  BY DEF TrialIInv, TableType, Create
<1>3. TableType' /\ ThreadType' /\ OrdersOK'
  BY <1>1, <1>2 DEF TrialIInv, TableType, ThreadType, OrdersOK
<1>4. WindowOK'
  BY <1>1, <1>2 DEF TrialIInv, WindowOK
<1>5. ThreadOK'
  <2>1. th.todo[a] = {}
    BY <1>1 DEF TrialIInv, ThreadOK
  <2>2. th.pc # "next" => th.a \in Agents /\ th.a # a
    BY <2>1 DEF TrialIInv, ThreadOK
  <2>3. \A b \in Agents \ {a} : OpenTrial(b)' <=> OpenTrial(b)
    BY <1>2 DEF OpenTrial
  <2>4. QED
    BY <1>1, <1>2, <2>1, <2>2, <2>3 DEF TrialIInv, ThreadOK
<1>6. SessionsAreHonest' /\ LaunchStandsOnEvidence'
  BY <1>1, <1>2 DEF TrialIInv, SessionsAreHonest, Abnormal, LaunchStandsOnEvidence
<1>7. QED
  BY <1>1, <1>3, <1>4, <1>5, <1>6 DEF TrialIInv

LEMMA PlaceOrderKeeps == ASSUME TrialIInv, NEW a \in Agents, PlaceOrder(a) PROVE TrialIInv'
<1>1. /\ agent[a] = "trial" /\ day \in Days
      /\ UNCHANGED <<day, agent, acct, archive, held, log, replay, sess, th>>
  BY DEF TrialIInv, TableType, PlaceOrder, status
<1>2. /\ ordered' \in [Agents -> SUBSET Days] /\ active' \in [Agents -> SUBSET Days]
      /\ \A b \in Agents : /\ ordered'[b] = IF b = a THEN ordered[b] \cup {day} ELSE ordered[b]
                           /\ active'[b] = IF b = a THEN active[b] \cup {day} ELSE active[b]
  BY <1>1 DEF TrialIInv, TableType, PlaceOrder
<1>3. \A d \in Days : d < day => d # day
  BY DEF Days
<1>4. TableType' /\ ThreadType' /\ WindowOK'
  BY <1>1, <1>2 DEF TrialIInv, TableType, ThreadType, WindowOK
<1>5. OrdersOK'
  <2>1. \A b \in Agents : day \notin log[b]
    BY <1>1, <1>3 DEF TrialIInv, OrdersOK, TableType
  <2>2. QED
    BY <1>1, <1>2, <2>1 DEF TrialIInv, OrdersOK
<1>6. ThreadOK'
  <2>1. th.pc # "next" => th.a \in Agents /\ th.d # day
    BY <1>3 DEF TrialIInv, ThreadOK, ThreadType
  <2>2. QED
    BY <1>1, <1>2, <2>1 DEF TrialIInv, ThreadOK, OpenTrial
<1>7. SessionsAreHonest'
  <2>1. \A b \in Agents : day \notin sess[b]
    BY <1>1, <1>3 DEF TrialIInv, SessionsAreHonest, TableType
  <2>2. QED
    BY <1>1, <1>2, <2>1 DEF TrialIInv, SessionsAreHonest, Abnormal
<1>8. LaunchStandsOnEvidence'
  BY <1>1, <1>2 DEF TrialIInv, LaunchStandsOnEvidence
<1>9. QED
  BY <1>4, <1>5, <1>6, <1>7, <1>8 DEF TrialIInv

LEMMA FinishKeeps ==
  ASSUME TrialIInv, NEW a \in Agents, NEW decision \in {"launch", "reject"}, Finish(a, decision)
  PROVE  TrialIInv'
<1> DEFINE evidence == [decision |-> decision, ordered |-> ordered[a], log |-> log[a], sess |-> sess[a]]
<1>1. /\ agent[a] = "trial" /\ UNCHANGED <<day, ordered, active, held, log, sess, th>>
      /\ decision = "launch" => /\ replay[a] = "done" /\ ordered[a] # {}
                                /\ Cardinality(sess[a]) >= Window
  BY DEF TrialIInv, WindowOK, Finish, MayLaunch, book
<1>2. /\ agent' \in [Agents -> {"none", "trial", "running", "archived"}]
      /\ replay' \in [Agents -> {"none", "in_progress", "done"}]
      /\ acct' \in [Agents -> {"none", "trial", "archived"}]
      /\ \A b \in Agents : /\ agent'[b] = IF b # a THEN agent[b]
                                          ELSE IF decision = "launch" THEN "running" ELSE "archived"
                           /\ replay'[b] = IF b = a THEN "done" ELSE replay[b]
  BY DEF TrialIInv, TableType, Finish
<1>3. evidence \in [decision : {"none", "launch", "reject"}, ordered : SUBSET Days,
                    log : SUBSET Days, sess : SUBSET Days]
  BY DEF TrialIInv, TableType
<1>4. archive' = [archive EXCEPT ![a] = evidence]
  BY DEF Finish
<1> HIDE DEF evidence
<1>5. /\ archive' \in [Agents -> [decision : {"none", "launch", "reject"}, ordered : SUBSET Days,
                                  log : SUBSET Days, sess : SUBSET Days]]
      /\ \A b \in Agents : archive'[b] = IF b = a THEN evidence ELSE archive[b]
  BY <1>3, <1>4 DEF TrialIInv, TableType
<1>6. TableType' /\ ThreadType' /\ OrdersOK'
  BY <1>1, <1>2, <1>5 DEF TrialIInv, TableType, ThreadType, OrdersOK
<1>7. WindowOK'
  BY <1>1, <1>2 DEF TrialIInv, WindowOK
<1>8. ThreadOK'
  <2>1. \A b \in Agents : OpenTrial(b)' => OpenTrial(b)
    BY <1>1, <1>2 DEF OpenTrial
  <2>2. th.pc = "settle" /\ th.a = a => decision # "launch"
    BY <1>1 DEF TrialIInv, ThreadOK
  <2>3. QED
    BY <1>1, <1>2, <2>1, <2>2 DEF TrialIInv, ThreadOK
<1>9. SessionsAreHonest'
  BY <1>1 DEF TrialIInv, SessionsAreHonest, Abnormal
<1>10. LaunchStandsOnEvidence'
  <2>1. ASSUME NEW b \in Agents, agent'[b] = "running", b # a
        PROVE  /\ archive'[b] = [decision |-> "launch", ordered |-> ordered'[b], log |-> log'[b],
                                 sess |-> sess'[b]]
               /\ Cardinality(sess'[b]) >= Window /\ ordered'[b] # {}
    BY <1>1, <1>2, <1>5, <2>1 DEF TrialIInv, LaunchStandsOnEvidence
  <2>2. ASSUME agent'[a] = "running"
        PROVE  /\ archive'[a] = [decision |-> "launch", ordered |-> ordered'[a], log |-> log'[a],
                                 sess |-> sess'[a]]
               /\ Cardinality(sess'[a]) >= Window /\ ordered'[a] # {}
    <3>1. decision = "launch"
      BY <1>2, <2>2
    <3>2. QED
      BY <1>1, <1>5, <3>1 DEF evidence
  <2>3. QED
    BY <2>1, <2>2 DEF LaunchStandsOnEvidence
<1>11. QED
  BY <1>6, <1>7, <1>8, <1>9, <1>10 DEF TrialIInv

-----------------------------------------------------------------------------
(* run_trial_backfill                                                      *)

\* A step of the thread alone.
LEMMA ThreadStep ==
  ASSUME TrialIInv, UNCHANGED <<day, agent, acct, archive, ordered, active, log, replay, sess>>,
         ThreadType', ThreadOK'
  PROVE  TrialIInv'
BY DEF TrialIInv, TableType, OrdersOK, WindowOK, SessionsAreHonest, Abnormal, LaunchStandsOnEvidence

LEMMA IdleOK == Idle.pc = "next" /\ Idle.todo = [a \in Agents |-> {}] /\
                Idle \in [pc : {"next", "settle", "count"}, a : Agents \cup {Nobody}, d : Days,
                          todo : [Agents -> SUBSET Days]]
BY DayOne DEF Idle

LEMMA RoundKeeps == ASSUME TrialIInv, Round \/ RestartReplay PROVE TrialIInv'
<1>1. UNCHANGED <<day, agent, acct, archive, ordered, active, log, replay, sess>>
  BY DEF Round, RestartReplay, status, book
<1>2. CASE Round
  <2> DEFINE todo == [a \in Agents |-> Picks(a)]
  <2>1. ASSUME NEW a \in Agents
        PROVE  /\ Picks(a) \subseteq Days
               /\ \A d \in Picks(a) : d < day
               /\ Picks(a) # {} => agent[a] = "trial"
    <3>1. Picks(a) \subseteq 1..(day - 1) /\ (Picks(a) # {} => OpenTrial(a))
      BY DEF Picks, Latest
    <3>2. day \in Days /\ \A d \in 1..(day - 1) : d < day /\ d \in Days
      BY DaysAssumption DEF TrialIInv, TableType, Days
    <3>3. QED
      BY <3>1, <3>2 DEF OpenTrial
  <2>2. th' = [Idle EXCEPT !.todo = todo]
    BY <1>2 DEF Round
  <2>3. todo \in [Agents -> SUBSET Days] /\ \A a \in Agents : todo[a] = Picks(a)
    BY <2>1
  <2> HIDE DEF todo
  <2>4. ThreadType' /\ th'.pc = "next" /\ th'.todo = todo
    BY <2>2, <2>3, IdleOK DEF ThreadType
  <2>5. ThreadOK'
    BY <1>1, <2>1, <2>3, <2>4 DEF ThreadOK
  <2>6. QED
    BY <1>1, <2>4, <2>5, ThreadStep
<1>3. CASE RestartReplay
  <2>1. ThreadType' /\ th'.pc = "next" /\ \A a \in Agents : th'.todo[a] = {}
    BY <1>3, IdleOK DEF RestartReplay, ThreadType
  <2>2. ThreadOK'
    BY <2>1 DEF ThreadOK
  <2>3. QED
    BY <1>1, <2>1, <2>2, ThreadStep
<1>4. QED
  BY <1>2, <1>3

LEMMA BeginDayKeeps == ASSUME TrialIInv, NEW a \in Agents, BeginDay(a) PROVE TrialIInv'
<1>1. UNCHANGED <<day, agent, acct, archive, ordered, active, log, replay, sess>>
  BY DEF BeginDay, status, book
<1>2. PICK d \in Days :
        /\ d \in th.todo[a]
        /\ th' = [th EXCEPT !.a = a, !.d = d,
                            !.pc = IF OpenTrial(a) /\ Need(a) > 0 THEN "settle" ELSE "count"]
  BY DEF BeginDay, IsFirst
<1>3. /\ ThreadType' /\ th'.a = a /\ th'.d = d /\ th'.todo = th.todo
      /\ th'.pc = IF OpenTrial(a) /\ Need(a) > 0 THEN "settle" ELSE "count"
  BY <1>2 DEF TrialIInv, ThreadType
<1>4. OpenTrial(a) => Need(a) > 0
  <2>1. Cardinality(sess[a]) \in Nat
    BY DaysFinite DEF TrialIInv, TableType
  <2>2. QED
    BY <2>1, TrialWindowAssumption DEF TrialIInv, WindowOK, OpenTrial, Need
<1>5. ThreadOK'
  BY <1>1, <1>2, <1>3, <1>4 DEF TrialIInv, ThreadOK, OpenTrial
<1>6. QED
  BY <1>1, <1>3, <1>5, ThreadStep

LEMMA SettleKeeps == ASSUME TrialIInv, Settle PROVE TrialIInv'
<1> DEFINE a == th.a
           d == th.d
<1>1. /\ a \in Agents /\ d \in th.todo[a] /\ d \in Days /\ d < day
      /\ replay[a] = "in_progress" \/ agent[a] = "archived"
  BY DEF TrialIInv, ThreadOK, ThreadType, Settle
<1>2. UNCHANGED <<day, agent, acct, archive, ordered, replay, sess>>
  BY DEF Settle, status
<1>3. th' = [th EXCEPT !.pc = "count"]
  BY DEF Settle
<1>4. ThreadType' /\ th'.a = a /\ th'.d = d /\ th'.todo = th.todo /\ th'.pc = "count"
  BY <1>3 DEF TrialIInv, ThreadType
<1> DEFINE does == HasWork(a, d) /\ d \notin log[a]
<1>5. /\ log' \in [Agents -> SUBSET Days] /\ active' \in [Agents -> SUBSET Days]
      /\ \A b \in Agents : /\ log'[b] = IF b = a /\ does THEN log[b] \cup {d} ELSE log[b]
                           /\ active'[b] = IF b = a /\ does THEN active[b] \ {d} ELSE active[b]
  <2>1. log \in [Agents -> SUBSET Days] /\ active \in [Agents -> SUBSET Days]
    BY DEF TrialIInv, TableType
  <2>2. CASE does
    BY <1>1, <2>1, <2>2 DEF Settle
  <2>3. CASE ~does
    BY <2>1, <2>3 DEF Settle
  <2>4. QED
    BY <2>2, <2>3
<1>6. agent[a] # "running"
  BY <1>1 DEF TrialIInv, WindowOK
<1>7. d \notin active'[a] /\ (d \in ordered[a] => d \in log'[a])
  <2>1. CASE does
    BY <1>1, <1>5, <2>1
  <2>2. CASE d \in log[a]
    BY <1>1, <1>5, <2>2 DEF TrialIInv, OrdersOK
  <2>3. CASE ~HasWork(a, d)
    BY <1>1, <1>5, <2>3 DEF TrialIInv, OrdersOK, HasWork
  <2>4. QED
    BY <2>1, <2>2, <2>3
<1> HIDE DEF does, a, d
<1>8. TableType'
  BY <1>2, <1>5 DEF TrialIInv, TableType
<1>9. OrdersOK'
  BY <1>1, <1>2, <1>5 DEF TrialIInv, OrdersOK
<1>10. WindowOK'
  BY <1>2 DEF TrialIInv, WindowOK
<1>11. ThreadOK'
  BY <1>1, <1>2, <1>4, <1>7 DEF TrialIInv, ThreadOK
<1>12. SessionsAreHonest'
  BY <1>2, <1>5 DEF TrialIInv, SessionsAreHonest, Abnormal
<1>13. LaunchStandsOnEvidence'
  BY <1>2, <1>5, <1>6 DEF TrialIInv, LaunchStandsOnEvidence
<1>14. QED
  BY <1>4, <1>8, <1>9, <1>10, <1>11, <1>12, <1>13 DEF TrialIInv

\* The day at hand is done.
LEMMA Advances ==
  ASSUME TrialIInv, th.pc # "next", th' = NextPick,
         UNCHANGED <<day, agent>>
  PROVE  ThreadType' /\ ThreadOK'
<1>1. th.a \in Agents /\ th \in [pc : {"next", "settle", "count"}, a : Agents \cup {Nobody}, d : Days,
                                 todo : [Agents -> SUBSET Days]]
  BY DEF TrialIInv, ThreadType, ThreadOK
<1>2. th' = [th EXCEPT !.pc = "next", !.d = 1, !.todo = [th.todo EXCEPT ![th.a] = th.todo[th.a] \ {th.d}]]
  BY DEF NextPick
<1> DEFINE left == [th.todo EXCEPT ![th.a] = th.todo[th.a] \ {th.d}]
<1>3. left \in [Agents -> SUBSET Days] /\ \A a \in Agents : left[a] \subseteq th.todo[a]
  BY <1>1
<1> HIDE DEF left
<1>4. th'.pc = "next" /\ th'.todo = left /\ ThreadType'
  BY <1>1, <1>2, <1>3, DayOne DEF left, ThreadType
<1>5. QED
  BY <1>3, <1>4 DEF TrialIInv, ThreadOK

LEMMA DayFailsKeeps == ASSUME TrialIInv, DayFails PROVE TrialIInv'
<1>1. /\ UNCHANGED <<day, agent, acct, archive, ordered, active, log, replay, sess>>
      /\ th.pc # "next" /\ th' = NextPick
  BY DEF DayFails, status, book
<1>2. QED
  BY <1>1, Advances, ThreadStep

LEMMA SessionCountKeeps == ASSUME TrialIInv, CountSession PROVE TrialIInv'
<1>0. PICK a \in Agents, d \in Days : a = th.a /\ d = th.d
  BY DEF TrialIInv, ThreadOK, ThreadType, CountSession
<1>1. /\ d \in th.todo[a] /\ d < day /\ th.pc = "count"
      /\ UNCHANGED <<day, agent, acct, archive, ordered, active, log>>
  BY <1>0 DEF TrialIInv, ThreadOK, ThreadType, CountSession, status, book
<1>2. CASE ~OpenTrial(a)
  <2>1. UNCHANGED <<sess, replay>> /\ th' = Idle
    BY <1>0, <1>2 DEF CountSession
  <2>2. ThreadType' /\ th'.pc = "next" /\ \A b \in Agents : th'.todo[b] = {}
    BY <2>1, IdleOK DEF ThreadType
  <2>3. ThreadOK'
    BY <2>2 DEF ThreadOK
  <2>4. QED
    BY <1>1, <2>1, <2>2, <2>3, ThreadStep
<1>3. CASE OpenTrial(a)
  <2> DEFINE S == sess[a] \cup {d}
  <2>1. /\ sess' = [sess EXCEPT ![a] = S] /\ th' = NextPick
        /\ replay' = [replay EXCEPT ![a] = IF Cardinality(S) >= Window THEN "done" ELSE replay[a]]
    BY <1>0, <1>3 DEF CountSession
  <2>2. /\ d \notin active[a] /\ (d \in ordered[a] => d \in log[a])
        /\ agent[a] = "trial" /\ replay[a] = "in_progress" /\ Cardinality(sess[a]) < Window
    BY <1>0, <1>1, <1>3 DEF TrialIInv, ThreadOK, WindowOK, OpenTrial
  <2>3. S \subseteq Days /\ Cardinality(S) \in Nat /\ Cardinality(S) <= Window
    <3>1. sess[a] \subseteq Days /\ IsFiniteSet(sess[a]) /\ Cardinality(sess[a]) \in Nat
      BY <1>1, DaysFinite DEF TrialIInv, TableType
    <3>2. Cardinality(S) = Cardinality(sess[a]) \/ Cardinality(S) = Cardinality(sess[a]) + 1
      BY <3>1, FS_AddElement
    <3>3. QED
      BY <1>1, <2>2, <3>1, <3>2, TrialWindowAssumption
  <2> HIDE DEF S
  <2>4. /\ sess' \in [Agents -> SUBSET Days] /\ replay' \in [Agents -> {"none", "in_progress", "done"}]
        /\ \A b \in Agents :
             /\ sess'[b] = IF b = a THEN S ELSE sess[b]
             /\ replay'[b] = IF b = a /\ Cardinality(S) >= Window THEN "done" ELSE replay[b]
    BY <2>1, <2>3 DEF TrialIInv, TableType
  <2>5. TableType' /\ OrdersOK'
    BY <1>1, <2>4 DEF TrialIInv, TableType, OrdersOK
  <2>6. WindowOK'
    BY <1>1, <2>2, <2>3, <2>4, TrialWindowAssumption DEF TrialIInv, WindowOK
  <2>7. ThreadType' /\ ThreadOK'
    BY <1>1, <2>1, Advances
  <2>8. SessionsAreHonest'
    <3>1. ASSUME NEW b \in Agents, b # a
          PROVE  /\ \A e \in sess'[b] : e < day' /\ e \notin active'[b]
                 /\ Abnormal(b)' = {} /\ Cardinality(sess'[b]) <= Window
      BY <1>1, <2>4, <3>1 DEF TrialIInv, SessionsAreHonest, Abnormal
    <3>2. /\ \A e \in S : e < day /\ e \notin active[a]
          /\ (S \cap ordered[a]) \ log[a] = {}
      BY <1>1, <2>2 DEF TrialIInv, SessionsAreHonest, Abnormal, S
    <3>3. /\ \A e \in sess'[a] : e < day' /\ e \notin active'[a]
          /\ Abnormal(a)' = {} /\ Cardinality(sess'[a]) <= Window
      BY <1>1, <2>3, <2>4, <3>2 DEF Abnormal
    <3>4. QED
      BY <3>1, <3>3 DEF SessionsAreHonest
  <2>9. LaunchStandsOnEvidence'
    BY <1>1, <2>2, <2>4 DEF TrialIInv, LaunchStandsOnEvidence
  <2>10. QED
    BY <2>5, <2>6, <2>7, <2>8, <2>9 DEF TrialIInv
<1>4. QED
  BY <1>2, <1>3

-----------------------------------------------------------------------------
LEMMA TrialStepIInv == TrialIInv /\ [TrialNext]_trialVars => TrialIInv'
<1> SUFFICES ASSUME TrialIInv, [TrialNext]_trialVars PROVE TrialIInv'
  OBVIOUS
<1>1. CASE TrialNewDay
  BY <1>1, NewDayKeeps
<1>2. CASE Round \/ RestartReplay
  BY <1>2, RoundKeeps
<1>3. CASE \E a \in Agents : BeginDay(a)
  BY <1>3, BeginDayKeeps
<1>4. CASE Settle \/ DayFails \/ CountSession
  BY <1>4, SettleKeeps, DayFailsKeeps, SessionCountKeeps
<1>5. CASE \E a \in Agents : Create(a) \/ PlaceOrder(a)
  BY <1>5, CreateKeeps, PlaceOrderKeeps
<1>6. CASE \E a \in Agents, d \in {"launch", "reject"} : Finish(a, d)
  BY <1>6, FinishKeeps
<1>7. CASE UNCHANGED trialVars
  <2>1. UNCHANGED <<day, agent, acct, archive, ordered, active, log, replay, sess, th>>
    BY <1>7 DEF trialVars, status, book
  <2>2. ThreadType' /\ ThreadOK'
    BY <2>1 DEF TrialIInv, ThreadType, ThreadOK, OpenTrial
  <2>3. QED
    BY <2>1, <2>2, ThreadStep
<1>8. QED
  BY <1>1, <1>2, <1>3, <1>4, <1>5, <1>6, <1>7 DEF TrialNext, Backfill

LEMMA TrialInductive == TrialSpec => []TrialIInv
BY TrialInitIInv, TrialStepIInv, PTL DEF TrialSpec

\* A session stands for a day that is over and settled if the agent had ordered
\* something on it, and none is counted beyond the window, whatever fails,
\* restarts or is decided in between (run_trial_backfill, add_trial_session).
THEOREM SessionsHonest == TrialSpec => []SessionsAreHonest
<1>1. TrialIInv => SessionsAreHonest
  BY DEF TrialIInv
<1>2. QED
  BY TrialInductive, <1>1, PTL

\* The evidence archived at a launch is the trial as it is ever after
\* (finish_trial, place_order, settle_account).
THEOREM LaunchIsFounded == TrialSpec => []LaunchStandsOnEvidence
<1>1. TrialIInv => LaunchStandsOnEvidence
  BY DEF TrialIInv
<1>2. QED
  BY TrialInductive, <1>1, PTL

\* The gates the page shows are those of the decision (trial_progress and
\* finish_trial).
THEOREM PreviewIsTheGate == TrialSpec => []PreviewTellsTheGate
<1>1. TrialIInv => PreviewTellsTheGate
  <2> SUFFICES ASSUME TrialIInv, NEW a \in Agents, agent[a] = "trial"
               PROVE  MayLaunch(a) <=> Preview(a).window /\ Preview(a).attempt /\ Preview(a).abnormal = {}
    BY DEF PreviewTellsTheGate
  <2>1. replay[a] = "done" => Cardinality(sess[a]) >= Window
    BY DEF TrialIInv, WindowOK
  <2>2. QED
    BY <2>1 DEF MayLaunch, Preview
<1>2. QED
  BY TrialInductive, <1>1, PTL
=============================================================================
