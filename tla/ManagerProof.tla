---------------------------- MODULE ManagerProof ----------------------------
(***************************************************************************)
(* Theorems about what the manager is bound by.  Approval: its types, the  *)
(* record of what was granted, the quota, and that it implements           *)
(* AccountConfig.  ManagerMode: the LLM duties that autonomous mode puts   *)
(* off.                                                                    *)
(***************************************************************************)
EXTENDS Approval, ManagerMode, SumTheorems

-----------------------------------------------------------------------------
(***************************************************************************)
(* Approval                                                                *)
(***************************************************************************)

\* What a thread in the middle of a request holds: a submission its payload, a
\* decision a request that exists, and a receipt one that is decided.
ThreadsOK ==
    /\ \A s \in Submitters : sub[s].pc = "insert" => sub[s].p \in Payloads
    /\ \A d \in Deciders : dec[d].pc # "free" =>
          /\ dec[d].r \in Requests
          /\ payload[dec[d].r] # NoPayload
          /\ dec[d].pc = "tell" => status[dec[d].r] \notin {"none", "pending"}

GrantedWereMade == \A r \in applied : payload[r] # NoPayload

IInv == TypeOK /\ ThreadsOK /\ GrantedWereMade

LEMMA InitTyped == Init => IInv
  BY TimesAssumption DEF Init, IInv, TypeOK, ThreadsOK, GrantedWereMade, FreeSub, FreeDec, ConfigType,
     Config!InitialConfig

\* The effect of a payload keeps the type of the configuration and never takes an
\* exemption away.
LEMMA EffectKeeps ==
  ASSUME TypeOK, NEW p \in Payloads
  PROVE  /\ Config!Effect(p) \in ConfigType
         /\ cfg.exempt \subseteq Config!Effect(p).exempt
         /\ p.type = "exemption" => p.value \in Config!Effect(p).exempt
<1>1. cfg \in ConfigType /\ p.value \in Values
  BY DEF TypeOK, Values
<1>2. CASE p.type = "risk"
  BY <1>1, <1>2 DEF Config!Effect, ConfigType
<1>3. CASE p.type = "granularity"
  BY <1>1, <1>3 DEF Config!Effect, ConfigType
<1>4. CASE p.type = "exemption"
  BY <1>1, <1>4 DEF Config!Effect, ConfigType
<1>5. CASE p.type = "capability"
  BY <1>1, <1>5 DEF Config!Effect, ConfigType
<1>6. CASE p.type \notin {"risk", "granularity", "exemption", "capability"}
  BY <1>1, <1>6 DEF Config!Effect, ConfigType
<1>7. QED
  BY <1>2, <1>3, <1>4, <1>5, <1>6

\* A thread with a decision to write holds a request that was made.
LEMMA DecisionHasRequest ==
  ASSUME IInv, NEW d \in Deciders, dec[d].pc # "free"
  PROVE  dec[d].r \in Requests /\ payload[dec[d].r] \in Payloads
  BY DEF IInv, TypeOK, ThreadsOK

LEMMA WriteKeeps ==
  ASSUME IInv, NEW d \in Deciders, NEW st \in {"approved", "rejected", "expired"},
         dec[d].pc \in {"late", "approve", "reject"}, Write(d, st),
         cfg' \in ConfigType, applied' \subseteq applied \cup {dec[d].r}, UNCHANGED deprecated
  PROVE  IInv'
<1> DEFINE r == dec[d].r
<1>1. r \in Requests /\ payload[r] # NoPayload /\ payload' = payload
  BY DEF IInv, ThreadsOK, Write
<1>2. status' = [status EXCEPT ![r] = st] /\ sub' = sub
  BY DEF Write
<1>3. TypeOK'
  BY <1>1, <1>2, TimesAssumption DEF IInv, TypeOK, Write
<1>4. ThreadsOK'
  BY <1>1, <1>2 DEF IInv, TypeOK, ThreadsOK, Write
<1>5. GrantedWereMade'
  BY <1>1 DEF IInv, GrantedWereMade
<1>6. QED
  BY <1>3, <1>4, <1>5 DEF IInv

LEMMA NextTyped == ASSUME IInv, [Next]_vars PROVE IInv'
<1> USE DEF IInv, GrantedWereMade
<1>1. ASSUME NEW s \in Submitters, NEW p \in Payloads, NEW exempt \in BOOLEAN, Check(s, p, exempt)
      PROVE  IInv'
  BY <1>1 DEF Check, TypeOK, ThreadsOK, rows, config
<1>2. ASSUME NEW s \in Submitters, NEW r \in Requests, Insert(s, r)
      PROVE  IInv'
  <2>1. sub[s].p \in Payloads
    BY <1>2 DEF Insert, ThreadsOK
  <2>2. TypeOK'
    BY <1>2, <2>1, PayloadAssumption DEF Insert, TypeOK, config, FreeSub
  <2>3. ThreadsOK'
    BY <1>2, <2>1, PayloadAssumption DEF Insert, TypeOK, ThreadsOK, FreeSub
  <2>4. GrantedWereMade'
    BY <1>2, <2>1, PayloadAssumption DEF Insert, TypeOK, config
  <2>5. QED
    BY <2>2, <2>3, <2>4
<1>3. ASSUME NEW d \in Deciders, NEW r \in Requests, Read(d, r)
      PROVE  IInv'
  <2>1. PICK to \in {"late", "approve", "reject"} : dec' = [dec EXCEPT ![d] = [pc |-> to, r |-> r]]
    BY <1>3 DEF Read
  <2>2. payload[r] # NoPayload /\ UNCHANGED <<now, rows, config, notice, sub>>
    BY <1>3 DEF Read, TypeOK
  <2>3. QED
    BY <2>1, <2>2 DEF TypeOK, ThreadsOK, rows, config
<1>4. ASSUME NEW d \in Deciders, Late(d)
      PROVE  IInv'
  BY <1>4, WriteKeeps DEF Late, config, TypeOK
<1>5. ASSUME NEW d \in Deciders, Approve(d)
      PROVE  IInv'
  <2>1. dec[d].r \in Requests /\ payload[dec[d].r] \in Payloads
    BY <1>5, DecisionHasRequest DEF Approve
  <2>2. cfg' \in ConfigType /\ applied' \subseteq applied \cup {dec[d].r}
    BY <1>5, <2>1, EffectKeeps DEF Approve, TypeOK
  <2>3. QED
    BY <1>5, <2>2, WriteKeeps DEF Approve
<1>6. ASSUME NEW d \in Deciders, EffectFails(d)
      PROVE  IInv'
  BY <1>6 DEF EffectFails, FreeDec, TypeOK, ThreadsOK, rows, config
<1>7. ASSUME NEW d \in Deciders, Reject(d)
      PROVE  IInv'
  BY <1>7, WriteKeeps DEF Reject, config, TypeOK
<1>8. ASSUME NEW d \in Deciders, Tell(d)
      PROVE  IInv'
  BY <1>8 DEF Tell, FreeDec, TypeOK, ThreadsOK, rows, config
<1>9. ASSUME NEW r \in Requests, Expire(r) \/ CloseForInterrupt(r)
      PROVE  IInv'
  BY <1>9 DEF Expire, CloseForInterrupt, TypeOK, ThreadsOK, config
<1>10. ASSUME NEW k \in Capabilities, Unbind(k)
       PROVE  IInv'
  BY <1>10 DEF Unbind, TypeOK, ThreadsOK, rows, ConfigType
<1>11. ASSUME NEW k \in Capabilities, Deprecate(k)
       PROVE  IInv'
  BY <1>11 DEF Deprecate, TypeOK, ThreadsOK, rows
<1>12. CASE Clock
  BY <1>12, TimesAssumption DEF Clock, TypeOK, ThreadsOK, rows, config
<1>13. CASE Restart
  BY <1>13 DEF Restart, TypeOK, ThreadsOK, rows, config, FreeSub, FreeDec
<1>14. CASE UNCHANGED vars
  BY <1>14 DEF vars, TypeOK, ThreadsOK, rows, config
<1>15. QED
  BY <1>1, <1>2, <1>3, <1>4, <1>5, <1>6, <1>7, <1>8, <1>9, <1>10, <1>11, <1>12, <1>13, <1>14
  DEF Next, Submit, Decide

\* Typed: in every reachable state every variable has its type, and a thread holds
\* what the step it stands before needs.
THEOREM Typed == Spec => []IInv
<1>1. QED
  BY InitTyped, NextTyped, PTL DEF Spec

-----------------------------------------------------------------------------
(* What was granted is kept.                                               *)

LEMMA NextKeeps == ASSUME IInv, NothingGrantedIsLost, [Next]_vars PROVE NothingGrantedIsLost'
<1> USE DEF NothingGrantedIsLost
<1>1. ASSUME NEW s \in Submitters, NEW p \in Payloads, NEW exempt \in BOOLEAN, Check(s, p, exempt)
      PROVE  NothingGrantedIsLost'
  BY <1>1 DEF Check, rows, config
<1>2. ASSUME NEW s \in Submitters, NEW r \in Requests, Insert(s, r)
      PROVE  NothingGrantedIsLost'
  <2>1. r \notin applied /\ payload' = [payload EXCEPT ![r] = sub[s].p]
    BY <1>2 DEF Insert, IInv, GrantedWereMade
  <2>2. status' = [status EXCEPT ![r] = "pending"] /\ UNCHANGED <<config, notice>>
    BY <1>2 DEF Insert
  <2>3. QED
    BY <2>1, <2>2 DEF IInv, TypeOK, config
<1>3. ASSUME NEW d \in Deciders, NEW r \in Requests, Read(d, r)
      PROVE  NothingGrantedIsLost'
  BY <1>3 DEF Read, rows, config
<1>4. ASSUME NEW d \in Deciders, Late(d) \/ Reject(d)
      PROVE  NothingGrantedIsLost'
  <2>1. PICK st \in {"expired", "rejected"} : status' = [status EXCEPT ![dec[d].r] = st]
    BY <1>4 DEF Late, Reject, Write
  <2>2. UNCHANGED <<payload, config, notice>>
    BY <1>4 DEF Late, Reject, Write
  <2>3. QED
    BY <2>1, <2>2 DEF IInv, TypeOK, config
<1>5. ASSUME NEW d \in Deciders, Approve(d)
      PROVE  NothingGrantedIsLost'
  <2> DEFINE r == dec[d].r
             p == payload[r]
  <2>1. r \in Requests /\ p \in Payloads
    BY <1>5, DecisionHasRequest DEF Approve
  <2>2. /\ cfg' = Config!Effect(p) /\ applied' = applied \cup {r}
        /\ status' = [status EXCEPT ![r] = "approved"] /\ UNCHANGED <<payload, notice>>
    BY <1>5 DEF Approve, Write
  <2>3. /\ cfg.exempt \subseteq cfg'.exempt
        /\ p.type = "exemption" => p.value \in cfg'.exempt
    BY <2>1, <2>2, EffectKeeps DEF IInv
  <2>4. QED
    BY <2>1, <2>2, <2>3 DEF IInv, TypeOK
<1>6. ASSUME NEW d \in Deciders, EffectFails(d)
      PROVE  NothingGrantedIsLost'
  BY <1>6 DEF EffectFails, rows, config
<1>7. ASSUME NEW d \in Deciders, Tell(d)
      PROVE  NothingGrantedIsLost'
  BY <1>7 DEF Tell, IInv, TypeOK, rows, config
<1>8. ASSUME NEW r \in Requests, Expire(r) \/ CloseForInterrupt(r)
      PROVE  NothingGrantedIsLost'
  BY <1>8 DEF Expire, CloseForInterrupt, IInv, TypeOK, config
<1>9. ASSUME NEW k \in Capabilities, Unbind(k) \/ Deprecate(k)
      PROVE  NothingGrantedIsLost'
  BY <1>9 DEF Unbind, Deprecate, IInv, TypeOK, ConfigType, rows
<1>10. CASE Clock \/ Restart \/ UNCHANGED vars
  BY <1>10 DEF Clock, Restart, vars, rows, config
<1>11. QED
  BY <1>1, <1>2, <1>3, <1>4, <1>5, <1>6, <1>7, <1>8, <1>9, <1>10 DEF Next, Submit, Decide

\* GrantedIsKept: an exemption once granted is there for ever, and neither a row
\* nor a receipt says approved without the effect, for any number of threads.
THEOREM GrantedIsKept == Spec => []NothingGrantedIsLost
<1>1. Init => NothingGrantedIsLost
  BY DEF Init, NothingGrantedIsLost
<1>2. QED
  BY <1>1, InitTyped, NextTyped, NextKeeps, PTL DEF Spec

-----------------------------------------------------------------------------
(* The quota: nothing but a check and an insert makes the number of pending *)
(* requests of a type and of submissions on their way grow.                *)

Load(t) == Cardinality(OfType(t, "pending")) + Cardinality(InFlight(t))
Allowed == PendingLimit + Cardinality(Submitters) - 1

LEMMA LoadIsBounded == ASSUME IInv, QuotaOverrun, [Next]_vars PROVE QuotaOverrun'
<1> SUFFICES ASSUME NEW q \in Payloads PROVE Load(q.type)' <= Allowed
  BY DEF QuotaOverrun, Load, Allowed
<1> DEFINE t == q.type
           P == OfType(t, "pending")
           F == InFlight(t)
<1>0. /\ Load(t) <= Allowed
      /\ IsFiniteSet(P) /\ IsFiniteSet(F) /\ IsFiniteSet(P') /\ IsFiniteSet(F')
      /\ Cardinality(P) \in Nat /\ Cardinality(F) \in Nat
      /\ Cardinality(P') \in Nat /\ Cardinality(F') \in Nat
      /\ Cardinality(Submitters) \in Nat
  <2>1. IsFiniteSet(P) /\ IsFiniteSet(F) /\ IsFiniteSet(P') /\ IsFiniteSet(F')
    BY FiniteAssumption, FS_Subset DEF OfType, InFlight
  <2>2. QED
    BY <2>1, FS_CardinalityType, FiniteAssumption DEF QuotaOverrun, Load, Allowed
<1>1. ASSUME P' \subseteq P, F' \subseteq F
      PROVE  Load(t)' <= Allowed
  <2>1. Cardinality(P') <= Cardinality(P) /\ Cardinality(F') <= Cardinality(F)
    BY <1>0, <1>1, FS_Subset
  <2>2. QED
    BY <2>1, <1>0, LimitAssumption DEF Load, Allowed
<1>2. ASSUME NEW s \in Submitters, NEW p \in Payloads, NEW exempt \in BOOLEAN, Check(s, p, exempt)
      PROVE  Load(t)' <= Allowed
  <2>1. P' = P
    BY <1>2 DEF Check, OfType, rows
  <2>2. CASE p.type # t
    <3>1. F' \subseteq F
      BY <1>2, <2>2 DEF Check, InFlight, IInv, TypeOK
    <3>2. QED
      BY <2>1, <3>1, <1>1
  <2>3. CASE p.type = t
    <3>1. Cardinality(P) < PendingLimit
      BY <1>2, <2>3, <1>0, LimitAssumption DEF Check, QuotaFull
    <3>2. Cardinality(F') <= Cardinality(Submitters)
      BY FiniteAssumption, FS_Subset DEF InFlight
    <3>3. QED
      BY <2>1, <3>1, <3>2, <1>0, LimitAssumption DEF Load, Allowed
  <2>4. QED
    BY <2>2, <2>3
<1>3. ASSUME NEW s \in Submitters, NEW r \in Requests, Insert(s, r)
      PROVE  Load(t)' <= Allowed
  <2>1. r \notin P /\ P' \subseteq P \cup {r}
    BY <1>3 DEF Insert, OfType, IInv, TypeOK
  <2>2. CASE sub[s].p.type = t
    <3>1. s \in F /\ F' \subseteq F \ {s}
      BY <1>3, <2>2 DEF Insert, InFlight, FreeSub, IInv, TypeOK
    <3>2. Cardinality(F') <= Cardinality(F) - 1
      <4>1. IsFiniteSet(F \ {s}) /\ Cardinality(F \ {s}) = Cardinality(F) - 1
        BY <3>1, <1>0, FS_RemoveElement
      <4>2. QED
        BY <4>1, <3>1, FS_Subset
    <3>3. Cardinality(P') <= Cardinality(P) + 1
      <4>1. IsFiniteSet(P \cup {r}) /\ Cardinality(P \cup {r}) = Cardinality(P) + 1
        BY <2>1, <1>0, FS_AddElement
      <4>2. QED
        BY <4>1, <2>1, FS_Subset
    <3>4. QED
      BY <3>2, <3>3, <1>0, LimitAssumption DEF Load, Allowed
  <2>3. CASE sub[s].p.type # t
    <3>1. P' \subseteq P /\ F' \subseteq F
      BY <1>3, <2>3 DEF Insert, OfType, InFlight, FreeSub, IInv, TypeOK
    <3>2. QED
      BY <3>1, <1>1
  <2>4. QED
    BY <2>2, <2>3
<1>4. ASSUME NEW d \in Deciders, Decide(d)
      PROVE  Load(t)' <= Allowed
  <2>1. sub' = sub /\ payload' = payload
    BY <1>4 DEF Decide, Read, Late, Approve, EffectFails, Reject, Tell, Write, rows
  <2>2. \A r \in Requests : status'[r] = "pending" => status[r] = "pending"
    BY <1>4 DEF Decide, Read, Late, Approve, EffectFails, Reject, Tell, Write, rows, IInv, TypeOK
  <2>3. P' \subseteq P /\ F' = F
    BY <2>1, <2>2 DEF OfType, InFlight
  <2>4. QED
    BY <2>3, <1>1
<1>5. ASSUME NEW r \in Requests, Expire(r) \/ CloseForInterrupt(r)
      PROVE  Load(t)' <= Allowed
  <2>1. P' \subseteq P /\ F' = F
    BY <1>5 DEF Expire, CloseForInterrupt, OfType, InFlight, IInv, TypeOK
  <2>2. QED
    BY <2>1, <1>1
<1>6. ASSUME NEW k \in Capabilities, Unbind(k) \/ Deprecate(k)
      PROVE  Load(t)' <= Allowed
  <2>1. P' = P /\ F' = F
    BY <1>6 DEF Unbind, Deprecate, OfType, InFlight, rows
  <2>2. QED
    BY <2>1, <1>1
<1>7. CASE Clock \/ Restart \/ UNCHANGED vars
  <2>1. P' = P /\ F' \subseteq F
    BY <1>7 DEF Clock, Restart, vars, OfType, InFlight, rows, FreeSub, IInv, TypeOK
  <2>2. QED
    BY <2>1, <1>1
<1>8. QED
  BY <1>2, <1>3, <1>4, <1>5, <1>6, <1>7 DEF Next, Submit

\* QuotaHolds: racing submissions exceed the quota by one less than their number at
\* most, for every number of route threads and every quota.
THEOREM QuotaHolds == Spec => []QuotaOverrun
<1>1. ASSUME Init PROVE QuotaOverrun
  <2> SUFFICES ASSUME NEW p \in Payloads PROVE Load(p.type) <= Allowed
    BY DEF QuotaOverrun, Load, Allowed
  <2>1. OfType(p.type, "pending") = {} /\ InFlight(p.type) = {}
    BY <1>1 DEF Init, OfType, InFlight, FreeSub
  <2>2. Cardinality({}) = 0 /\ Cardinality(Submitters) \in Nat
    BY FS_EmptySet, FS_CardinalityType, FiniteAssumption
  <2>3. Load(p.type) = 0
    BY <2>1, <2>2 DEF Load
  <2>4. QED
    BY <2>2, <2>3, LimitAssumption DEF Allowed
<1>2. QED
  BY <1>1, InitTyped, NextTyped, LoadIsBounded, PTL DEF Spec

-----------------------------------------------------------------------------
(* The refinement.                                                         *)

LEMMA NextRefines == ASSUME IInv, [Next]_vars PROVE [Config!Next]_(Config!vars)
<1> USE DEF Config!Next, Config!vars
<1>1. ASSUME NEW s \in Submitters, NEW r \in Requests, Insert(s, r)
      PROVE  [Config!Next]_(Config!vars)
  <2>1. Config!Ask(r, sub[s].p) /\ sub[s].p \in Payloads
    BY <1>1 DEF Insert, Config!Ask, config, IInv, ThreadsOK
  <2>2. QED
    BY <2>1
<1>2. ASSUME NEW d \in Deciders, Approve(d)
      PROVE  [Config!Next]_(Config!vars)
  <2>1. dec[d].r \in Requests /\ payload[dec[d].r] # NoPayload
    BY <1>2 DEF Approve, IInv, ThreadsOK
  <2>2. Config!Grant(dec[d].r)
    BY <1>2, <2>1 DEF Approve, Write, Config!Grant
  <2>3. QED
    BY <2>1, <2>2
<1>3. ASSUME NEW k \in Capabilities, Unbind(k) \/ Deprecate(k)
      PROVE  [Config!Next]_(Config!vars)
  <2>1. Config!Unbind(k) \/ Config!Deprecate(k)
    BY <1>3 DEF Unbind, Deprecate, Config!Unbind, Config!Deprecate, rows
  <2>2. QED
    BY <2>1
<1>4. ASSUME NEW d \in Deciders, Late(d) \/ EffectFails(d) \/ Reject(d) \/ Tell(d)
      PROVE  UNCHANGED Config!vars
  BY <1>4 DEF Late, EffectFails, Reject, Tell, Write, rows, config
<1>5. ASSUME NEW r \in Requests, Expire(r) \/ CloseForInterrupt(r) \/ \E d \in Deciders : Read(d, r)
      PROVE  UNCHANGED Config!vars
  BY <1>5 DEF Expire, CloseForInterrupt, Read, rows, config
<1>6. ASSUME NEW s \in Submitters, NEW p \in Payloads, NEW exempt \in BOOLEAN, Check(s, p, exempt)
      PROVE  UNCHANGED Config!vars
  BY <1>6 DEF Check, rows, config
<1>7. CASE Clock \/ Restart \/ UNCHANGED vars
  BY <1>7 DEF Clock, Restart, vars, rows, config
<1>8. QED
  BY <1>1, <1>2, <1>3, <1>4, <1>5, <1>6, <1>7 DEF Next, Submit, Decide

\* Refines: the threads, sweeps and restarts of Approval implement AccountConfig, in
\* which a request is made, granted by its whole effect, and nothing else happens.
THEOREM Refines == Spec => ImplementsAccountConfig
<1>1. Init => Config!Init
  BY DEF Init, Config!Init
<1>2. QED
  BY <1>1, InitTyped, NextTyped, NextRefines, PTL DEF Spec, ImplementsAccountConfig, Config!Spec

-----------------------------------------------------------------------------
(***************************************************************************)
(* ManagerMode                                                             *)
(***************************************************************************)

\* A free thread has no row in hand, and one between a ping and its record has the
\* health check.
HandsFitPlace == \A th \in Threads : /\ pc[th] = "free" => work[th] = NoWork
                                     /\ pc[th] = "record" => work[th].checks > 0

ModeInv == ManagerTypeOK /\ HandsFitPlace /\ BacklogIsKept

HeavyInHand == [th \in Threads |-> work[th].heavy]

\* One value more or less changes a sum by the difference.
LEMMA OneChanges ==
  ASSUME NEW F \in [Threads -> Int], NEW G \in [Threads -> Int], NEW th \in Threads,
         \A x \in Threads \ {th} : G[x] = F[x]
  PROVE  /\ SumFunction(F) \in Int
         /\ SumFunction(G) = SumFunction(F) + G[th] - F[th]
<1> DEFINE R == Threads \ {th}
           A == SumFunctionOnSet(F, R)
<1>1. IsFiniteSet(Threads) /\ IsFiniteSet(R) /\ DOMAIN F = Threads /\ DOMAIN G = Threads
  BY ThreadsAssumption, FS_RemoveElement
<1>2. SumFunctionOnSet(F, Threads) = F[th] + A
  BY <1>1, SumRemove
<1>3. SumFunctionOnSet(G, Threads) = G[th] + SumFunctionOnSet(G, R)
  BY <1>1, SumRemove
<1>4. SumFunctionOnSet(G, R) = A
  BY <1>1, SumAgree
<1>5. A \in Int
  BY <1>1, SumInt
<1>6. SumFunction(F) = SumFunctionOnSet(F, Threads) /\ SumFunction(G) = SumFunctionOnSet(G, Threads)
  BY <1>1 DEF SumFunction
<1>7. F[th] \in Int /\ G[th] \in Int
  OBVIOUS
<1> QED BY <1>2, <1>3, <1>4, <1>5, <1>6, <1>7
LEMMA Thresholds == Limit \in Nat \ {0} /\ DegradeAfter \in Nat \ {0} /\ RecoverAfter \in Nat \ {0}
  BY ThresholdsAssumption

WorkType == [Threads -> [heavy : 0..Limit, checks : 0..Limit]]

LEMMA InHandIsNat == ASSUME work \in WorkType PROVE InHand \in Nat
<1>1. DOMAIN HeavyInHand = Threads /\ \A th \in Threads : HeavyInHand[th] \in Nat
  BY ThresholdsAssumption DEF HeavyInHand, WorkType
<1>2. SumFunction(HeavyInHand) \in Nat
  BY <1>1, ThreadsAssumption, FunSumNat
<1> QED BY <1>2 DEF InHand, HeavyInHand

\* A thread's step moves what is in hand by what it takes or gives itself.
LEMMA InHandFollows ==
  ASSUME work \in WorkType, work' \in WorkType, NEW th \in Threads,
         \A x \in Threads \ {th} : work'[x].heavy = work[x].heavy
  PROVE  /\ InHand \in Nat /\ InHand' \in Nat
         /\ InHand' = InHand + work'[th].heavy - work[th].heavy
<1>1. HeavyInHand \in [Threads -> Int] /\ HeavyInHand' \in [Threads -> Int]
  BY ThresholdsAssumption DEF HeavyInHand, WorkType
<1>2. \A x \in Threads \ {th} : HeavyInHand'[x] = HeavyInHand[x]
  BY DEF HeavyInHand
<1>3. SumFunction(HeavyInHand') = SumFunction(HeavyInHand) + HeavyInHand'[th] - HeavyInHand[th]
  BY <1>1, <1>2, OneChanges
<1>4. InHand \in Nat
  BY InHandIsNat
<1>5. InHand' \in Nat
  <2>1. DOMAIN HeavyInHand' = Threads /\ \A x \in Threads : HeavyInHand'[x] \in Nat
    BY ThresholdsAssumption DEF HeavyInHand, WorkType
  <2>2. SumFunction(HeavyInHand') \in Nat
    BY <2>1, ThreadsAssumption, FunSumNat
  <2> QED BY <2>2 DEF InHand, HeavyInHand
<1> QED BY <1>3, <1>4, <1>5 DEF InHand, HeavyInHand

LEMMA ModeInit == ManagerInit => ModeInv
<1> SUFFICES ASSUME ManagerInit PROVE ModeInv
  OBVIOUS
<1>1. ManagerTypeOK
  <2>1. /\ 0 \in 0..Limit /\ 0 \in 0..DegradeAfter /\ 0 \in 0..RecoverAfter
        /\ 0 \in 0..MaxHeavy /\ 0 \in 0..MaxChecks
    BY Thresholds, CapsAssumption
  <2>2. NoWork \in [heavy : 0..Limit, checks : 0..Limit]
    BY <2>1 DEF NoWork
  <2>3. NoSnap \in [mode : {"active", "autonomous"}, fails : 0..DegradeAfter,
                    succs : 0..RecoverAfter, ok : BOOLEAN]
    BY <2>1 DEF NoSnap
  <2> QED BY <2>1, <2>2, <2>3 DEF ManagerInit, ManagerTypeOK
<1>2. HandsFitPlace
  BY DEF ManagerInit, HandsFitPlace
<1>3. BacklogIsKept
  <2> DEFINE Z == [th \in Threads |-> 0]
  <2>1. HeavyInHand = Z
    BY DEF ManagerInit, HeavyInHand, NoWork
  <2>2. SumFunctionOnSet(Z, Threads) = 0
    BY ThreadsAssumption, SumZero
  <2>3. InHand = 0
    BY <2>1, <2>2 DEF InHand, HeavyInHand, SumFunction
  <2> QED BY <2>3 DEF ManagerInit, BacklogIsKept
<1> QED BY <1>1, <1>2, <1>3 DEF ModeInv

\* The steps that leave the backlog and the threads' rows alone.
LEMMA ModeStepsAside ==
  ASSUME ModeInv, UNCHANGED <<heavy, owed>>, work' \in WorkType,
         \A th \in Threads : work'[th].heavy = work[th].heavy
  PROVE  BacklogIsKept'
<1>1. HeavyInHand' = HeavyInHand
  BY DEF HeavyInHand
<1>2. InHand' = InHand
  BY <1>1 DEF InHand, HeavyInHand
<1> QED BY <1>2 DEF ModeInv, BacklogIsKept

\* A step of a thread that moves rows between the queue and its hands, and
\* executes some of them, keeps the books of the backlog.
LEMMA BooksOfBacklog ==
  ASSUME ModeInv, NEW th \in Threads, work' \in WorkType, heavy' \in Nat, owed' \in Int,
         \A x \in Threads \ {th} : work'[x].heavy = work[x].heavy,
         owed' - owed = (heavy' + work'[th].heavy) - (heavy + work[th].heavy), owed' <= MaxHeavy
  PROVE  BacklogIsKept' /\ heavy' \in 0..MaxHeavy /\ owed' \in 0..MaxHeavy
<1>1. work \in WorkType /\ heavy \in Nat /\ owed \in Nat
  BY CapsAssumption DEF ModeInv, ManagerTypeOK, WorkType
<1>2. /\ InHand \in Nat /\ InHand' \in Nat
      /\ InHand' = InHand + work'[th].heavy - work[th].heavy
  BY <1>1, InHandFollows
<1>3. work[th].heavy \in Nat /\ work'[th].heavy \in Nat
  BY <1>1, Thresholds DEF WorkType
<1>4. owed = heavy + InHand
  BY DEF ModeInv, BacklogIsKept
<1>5. owed' = heavy' + InHand'
  BY <1>1, <1>2, <1>3, <1>4
<1> QED BY <1>2, <1>5, CapsAssumption DEF BacklogIsKept

LEMMA ModeNext == ASSUME ModeInv, [ManagerNext]_managerVars PROVE ModeInv'
<1>0. /\ ManagerTypeOK /\ HandsFitPlace /\ BacklogIsKept /\ work \in WorkType
      /\ heavy \in Nat /\ owed \in Nat /\ checks \in Nat /\ heavy <= MaxHeavy /\ owed <= MaxHeavy
  BY CapsAssumption DEF ModeInv, ManagerTypeOK, WorkType
<1>1. CASE LlmFlip
  <2>1. ManagerTypeOK' /\ HandsFitPlace'
    BY <1>0, <1>1 DEF LlmFlip, ManagerTypeOK, HandsFitPlace, row, news
  <2>2. BacklogIsKept'
    BY <1>0, <1>1, ModeStepsAside DEF LlmFlip
  <2> QED BY <2>1, <2>2 DEF ModeInv
<1>2. CASE EnqueueHeavy
  <2>1. InHand' = InHand /\ InHand \in Nat
    BY <1>0, <1>2, InHandIsNat DEF EnqueueHeavy, InHand
  <2>2. BacklogIsKept'
    BY <1>0, <1>2, <2>1 DEF EnqueueHeavy, BacklogIsKept
  <2>3. heavy' \in 0..MaxHeavy /\ owed' \in 0..MaxHeavy
    BY <1>0, <1>2, <2>1, CapsAssumption DEF EnqueueHeavy, BacklogIsKept
  <2>4. ManagerTypeOK' /\ HandsFitPlace'
    BY <1>0, <1>2, <2>3 DEF EnqueueHeavy, ManagerTypeOK, HandsFitPlace, row, news
  <2> QED BY <2>2, <2>4 DEF ModeInv
<1>3. CASE EnsureHealth
  <2>1. BacklogIsKept'
    BY <1>0, <1>3, ModeStepsAside DEF EnsureHealth
  <2>2. checks' \in 0..MaxChecks
    BY <1>0, <1>3, CapsAssumption DEF EnsureHealth
  <2>3. ManagerTypeOK' /\ HandsFitPlace'
    BY <1>0, <1>3, <2>2 DEF EnsureHealth, ManagerTypeOK, HandsFitPlace, row, news
  <2> QED BY <2>1, <2>3 DEF ModeInv
<1>4. CASE ResumeCall
  <2>1. BacklogIsKept'
    BY <1>0, <1>4, ModeStepsAside DEF ResumeCall
  <2>2. resume' \in 0..DegradeAfter
    <3>1. resume' = 0 \/ resume' = Least(resume + 1, DegradeAfter)
      BY <1>4 DEF ResumeCall
    <3>2. resume \in 0..DegradeAfter
      BY <1>0 DEF ManagerTypeOK
    <3> QED BY <3>1, <3>2, Thresholds DEF Least
  <2>3. mode' \in {"active", "autonomous"} /\ told' \in BOOLEAN
    BY <1>0, <1>4 DEF ResumeCall, ManagerTypeOK
  <2>4. ManagerTypeOK' /\ HandsFitPlace'
    BY <1>0, <1>4, <2>2, <2>3 DEF ResumeCall, ManagerTypeOK, HandsFitPlace
  <2> QED BY <2>1, <2>4 DEF ModeInv
<1>5. ASSUME NEW th \in Threads, Claim(th) PROVE ModeInv'
  <2> DEFINE h == Least(heavy, Limit)
             c == Least(checks, Limit - h)
  <2>1. /\ heavy' = heavy - h /\ checks' = checks - c /\ pc[th] = "free"
        /\ work' = [work EXCEPT ![th] = [heavy |-> h, checks |-> c]]
        /\ pc' = [pc EXCEPT ![th] = "claimed"]
        /\ UNCHANGED <<row, llm, owed, snap, news>>
    BY <1>5 DEF Claim
  <2>2. h \in 0..Limit /\ h <= heavy /\ c \in 0..Limit /\ c <= checks /\ c \in Nat
    BY <1>0, Thresholds DEF Least
  <2>3. work[th].heavy = 0
    BY <1>0, <2>1 DEF HandsFitPlace, NoWork
  <2>4. work' \in WorkType
    <3>1. [heavy |-> h, checks |-> c] \in [heavy : 0..Limit, checks : 0..Limit]
      BY <2>2
    <3> HIDE DEF h, c
    <3> QED BY <1>0, <2>1, <3>1 DEF WorkType
  <2>5. work'[th].heavy = h /\ \A x \in Threads \ {th} : work'[x] = work[x]
    BY <1>0, <2>1 DEF WorkType
  <2>6. BacklogIsKept' /\ heavy' \in 0..MaxHeavy
    <3>1. heavy' \in Nat /\ owed' \in Int /\ owed' <= MaxHeavy
      BY <1>0, <2>1, <2>2
    <3>2. owed' - owed = (heavy' + work'[th].heavy) - (heavy + work[th].heavy)
      BY <1>0, <2>1, <2>2, <2>3, <2>5
    <3> HIDE DEF h, c
    <3> QED BY <2>4, <2>5, <3>1, <3>2, BooksOfBacklog
  <2>7. checks' \in 0..MaxChecks
    BY <1>0, <2>1, <2>2, CapsAssumption DEF ManagerTypeOK
  <2> HIDE DEF h, c
  <2>8. ManagerTypeOK'
    BY <1>0, <2>1, <2>4, <2>6, <2>7 DEF ManagerTypeOK, WorkType, row, news
  <2>9. HandsFitPlace'
    BY <1>0, <2>1, <2>5 DEF ManagerTypeOK, HandsFitPlace
  <2> QED BY <2>6, <2>8, <2>9 DEF ModeInv
<1>6. ASSUME NEW th \in Threads, ReadMode(th) PROVE ModeInv'
  <2>1. /\ pc[th] = "claimed" /\ pc' = [pc EXCEPT ![th] = "run"]
        /\ UNCHANGED <<row, llm, checks, owed, snap, news>>
    BY <1>6 DEF ReadMode
  <2>2. /\ work[th] \in [heavy : 0..Limit, checks : 0..Limit]
        /\ \/ /\ heavy' = heavy + work[th].heavy
              /\ work' = [work EXCEPT ![th].heavy = 0]
           \/ UNCHANGED <<heavy, work>>
    BY <1>0, <1>6 DEF ReadMode, WorkType
  <2>3. /\ work' \in WorkType /\ \A x \in Threads \ {th} : work'[x] = work[x]
        /\ heavy' + work'[th].heavy = heavy + work[th].heavy
        /\ heavy' \in Nat
    BY <1>0, <2>2, Thresholds DEF WorkType
  <2>4. BacklogIsKept' /\ heavy' \in 0..MaxHeavy
    <3>1. work[th].heavy \in Nat /\ work'[th].heavy \in Nat
      BY <2>2, <2>3, Thresholds DEF WorkType
    <3>2. /\ owed' \in Int /\ owed' <= MaxHeavy
          /\ owed' - owed = (heavy' + work'[th].heavy) - (heavy + work[th].heavy)
      BY <1>0, <2>1, <2>3, <3>1
    <3> QED BY <2>3, <3>2, BooksOfBacklog
  <2>5. ManagerTypeOK'
    BY <1>0, <2>1, <2>3, <2>4 DEF ManagerTypeOK, WorkType, row, news
  <2>6. HandsFitPlace'
    BY <1>0, <2>1, <2>3 DEF ManagerTypeOK, HandsFitPlace
  <2> QED BY <2>4, <2>5, <2>6 DEF ModeInv
<1>7. ASSUME NEW th \in Threads, RunHeavy(th) PROVE ModeInv'
  <2>1. /\ pc[th] = "run" /\ work[th].heavy > 0 /\ owed' = owed - 1
        /\ work' = [work EXCEPT ![th].heavy = @ - 1]
        /\ UNCHANGED <<row, llm, heavy, checks, pc, snap, news>>
    BY <1>7 DEF RunHeavy
  <2>2. work[th] \in [heavy : 0..Limit, checks : 0..Limit]
    BY <1>0 DEF WorkType
  <2>3. /\ work' \in WorkType /\ \A x \in Threads \ {th} : work'[x] = work[x]
        /\ work'[th].heavy = work[th].heavy - 1
    BY <1>0, <2>1, <2>2, Thresholds DEF WorkType
  <2>4. BacklogIsKept' /\ owed' \in 0..MaxHeavy
    <3>1. work[th].heavy \in Nat
      BY <2>2, Thresholds
    <3>2. /\ heavy' \in Nat /\ owed' \in Int /\ owed' <= MaxHeavy
          /\ owed' - owed = (heavy' + work'[th].heavy) - (heavy + work[th].heavy)
      BY <1>0, <2>1, <2>3, <3>1, CapsAssumption
    <3> QED BY <2>3, <3>2, BooksOfBacklog
  <2>5. ManagerTypeOK'
    BY <1>0, <2>1, <2>3, <2>4 DEF ManagerTypeOK, WorkType, row, news
  <2>6. HandsFitPlace'
    BY <1>0, <2>1, <2>3 DEF ManagerTypeOK, HandsFitPlace
  <2> QED BY <2>4, <2>5, <2>6 DEF ModeInv
<1>8. ASSUME NEW th \in Threads, Ping(th) PROVE ModeInv'
  <2>1. BacklogIsKept'
    BY <1>0, <1>8, ModeStepsAside DEF Ping
  <2>2. snap' \in [Threads -> [mode : {"active", "autonomous"}, fails : 0..DegradeAfter,
                               succs : 0..RecoverAfter, ok : BOOLEAN]]
    <3>1. [mode |-> mode, fails |-> fails, succs |-> succs, ok |-> llm]
             \in [mode : {"active", "autonomous"}, fails : 0..DegradeAfter,
                  succs : 0..RecoverAfter, ok : BOOLEAN]
      BY <1>0 DEF ManagerTypeOK
    <3> QED BY <1>0, <1>8, <3>1 DEF ManagerTypeOK, Ping
  <2>3. ManagerTypeOK' /\ HandsFitPlace'
    BY <1>0, <1>8, <2>2 DEF Ping, ManagerTypeOK, HandsFitPlace, row, news
  <2> QED BY <2>1, <2>3 DEF ModeInv
<1>9. ASSUME NEW th \in Threads, Record(th) PROVE ModeInv'
  <2>1. /\ pc[th] = "record" /\ snap' = [snap EXCEPT ![th] = NoSnap]
        /\ work' = [work EXCEPT ![th].checks = @ - 1]
        /\ pc' = [pc EXCEPT ![th] = "run"]
        /\ UNCHANGED <<llm, heavy, checks, owed>>
    BY <1>9 DEF Record
  <2>2. work[th] \in [heavy : 0..Limit, checks : 0..Limit] /\ work[th].checks > 0
    BY <1>0, <2>1 DEF WorkType, HandsFitPlace
  <2>3. /\ work' \in WorkType /\ \A x \in Threads \ {th} : work'[x] = work[x]
        /\ work'[th].heavy = work[th].heavy
    BY <1>0, <2>1, <2>2, Thresholds DEF WorkType
  <2>4. BacklogIsKept'
    BY <1>0, <2>1, <2>3, ModeStepsAside
  <2>5. /\ mode' \in {"active", "autonomous"} /\ fails' \in 0..DegradeAfter
        /\ succs' \in 0..RecoverAfter /\ resume' \in 0..DegradeAfter
        /\ sent' \in BOOLEAN /\ told' \in BOOLEAN
    <3>1. /\ snap[th].fails \in 0..DegradeAfter /\ snap[th].succs \in 0..RecoverAfter
          /\ snap[th].mode \in {"active", "autonomous"}
      BY <1>0 DEF ManagerTypeOK
    <3>2. /\ Least(snap[th].fails + 1, DegradeAfter) \in 0..DegradeAfter
          /\ Least(snap[th].succs + 1, RecoverAfter) \in 0..RecoverAfter
          /\ 0 \in 0..DegradeAfter /\ 0 \in 0..RecoverAfter
      BY <3>1, Thresholds DEF Least
    <3>3. CASE RecordOk(snap[th])
      BY <1>0, <3>2, <3>3 DEF RecordOk, ManagerTypeOK, news
    <3>4. CASE RecordFailure(snap[th])
      BY <1>0, <3>2, <3>4 DEF RecordFailure, ManagerTypeOK, news
    <3> QED BY <1>9, <3>3, <3>4 DEF Record
  <2>6. NoSnap \in [mode : {"active", "autonomous"}, fails : 0..DegradeAfter,
                    succs : 0..RecoverAfter, ok : BOOLEAN]
    BY Thresholds DEF NoSnap
  <2>7. ManagerTypeOK'
    BY <1>0, <2>1, <2>3, <2>5, <2>6 DEF ManagerTypeOK, WorkType
  <2>8. HandsFitPlace'
    BY <1>0, <2>1, <2>3 DEF ManagerTypeOK, HandsFitPlace
  <2> QED BY <2>4, <2>7, <2>8 DEF ModeInv
<1>10. ASSUME NEW th \in Threads, Rest(th) PROVE ModeInv'
  <2>1. BacklogIsKept'
    BY <1>0, <1>10, ModeStepsAside DEF Rest
  <2>2. ManagerTypeOK' /\ HandsFitPlace'
    BY <1>0, <1>10 DEF Rest, ManagerTypeOK, HandsFitPlace, row, news
  <2> QED BY <2>1, <2>2 DEF ModeInv
<1>11. CASE UNCHANGED managerVars
  <2>1. BacklogIsKept'
    BY <1>0, <1>11, ModeStepsAside DEF managerVars
  <2>2. ManagerTypeOK' /\ HandsFitPlace'
    BY <1>0, <1>11 DEF managerVars, ManagerTypeOK, HandsFitPlace, row, news
  <2> QED BY <2>1, <2>2 DEF ModeInv
<1> QED
  BY <1>1, <1>2, <1>3, <1>4, <1>5, <1>6, <1>7, <1>8, <1>9, <1>10, <1>11 DEF ManagerNext, Work

\* DutiesAreKept: whatever the thresholds, the size of a claim and the number of
\* threads, an llm-heavy task that autonomous mode puts off is in the queue or in
\* a thread's hands until it has been executed (run_deferrable, tasks.py).
THEOREM DutiesAreKept == ManagerSpec => []BacklogIsKept
<1>1. ModeInv => BacklogIsKept
  BY DEF ModeInv
<1> QED BY <1>1, ModeInit, ModeNext, PTL DEF ManagerSpec

=============================================================================
