-------------------------- MODULE CorpActionsProof --------------------------
(***************************************************************************)
(* Theorems about CorpActions: an event is applied once, and to every lot  *)
(* entitled to it; no share appears or vanishes unexplained; and the       *)
(* account owes money in the known cases only.                             *)
(*                                                                         *)
(* The open settlement keeps an account of its own, that becomes the       *)
(* books' when it commits.  Most of the invariant is therefore stated of   *)
(* an account (lots, positions, trades, rows and days) and holds of both:  *)
(* of the books, and of the settlement with its day counted as settled.    *)
(***************************************************************************)
EXTENDS CorpActions, SumTheorems, SequenceTheorems, FiniteSetTheorems, TLAPS

Tagged == {"split", "dividend", "rights"}
Lot == [id : 1..MaxLots, sym : Symbols, day : Days, rem : Nat, tags : SUBSET (Tagged \X Days)]
TradeRow == [side : {"buy", "sell"}, sym : Symbols, qty : Nat, amt : Int, fee : Int, day : Days]
AuditRow == [kind : Tagged \cup {"delist"}, sym : Symbols, ex : Days,
             result : {"rewritten", "credited", "waived", "declined", "paid", "zeroed", "cleared"},
             shares : Int, net : Int]

-----------------------------------------------------------------------------
(* An account: lots L, positions h, trades T, rows R, settled days D.      *)

LotsOK(L) == /\ IsFiniteSet(L) /\ L \subseteq Lot
             /\ \A l, m \in L : l.id = m.id => l = m
\* The ids go up to n, so that the next one is new; lots and tags are of settled days.
LotsFit(L, n, D) == \A l \in L :
    /\ l.id <= n /\ l.day \in Range(D)
    /\ \A k \in Tagged, d \in Days : <<k, d>> \in l.tags => d \in Range(D)
Account(L, h, T, R, D) ==
    /\ LotsOK(L) /\ h \in [Symbols -> Int] /\ T \in Seq(TradeRow) /\ R \in Seq(AuditRow)
    /\ D \in Seq(Days)
    /\ LotsFit(L, LotsSoFar(T, R), D)
    /\ \A i \in DOMAIN R : R[i].ex \in Range(D)
    /\ Once(R)
    /\ \A s \in Symbols : /\ h[s] = Shares(LotsOf(L, s))
                          /\ h[s] = Bought(T, s) + Added(R, s) \/ YoungCleared(R, D, s)

-----------------------------------------------------------------------------
(* The open settlement.                                                    *)

TradesNow == trades \o tx.new
AuditNow == audit \o tx.rows
DaysNow == Append(settled, tx.date)

Settlement == [date : Days, events : Seq(Events), todo : Seq(Events), cash : Int,
               lots : SUBSET Lot, hold : [Symbols -> Int],
               new : Seq(TradeRow), rows : Seq(AuditRow)]

\* Every entitled lot of the symbol has the tag of today's event of that kind; as
\* no lot ever has the tag of a delisting, after one no lot is entitled.
AllTagged(k, s) == \A l \in Entitled(s) : <<k, tx.date>> \in l.tags

\* The events are applied in their order, each to all the lots that are entitled.
EventsOK ==
    /\ tx.date \in gaps \/ tx.events = official[tx.date]
    /\ Len(tx.todo) <= Len(tx.events)
    /\ \A i \in 1..Len(tx.todo) : tx.todo[i] = tx.events[Len(tx.events) - Len(tx.todo) + i]
    /\ \A i \in 1..(Len(tx.events) - Len(tx.todo)) : AllTagged(tx.events[i].kind, tx.events[i].sym)
    /\ \A s \in Symbols, k \in Tagged : \A l, m \in Entitled(s) :
          <<k, tx.date>> \in l.tags => <<k, tx.date>> \in m.tags
RowsOK ==
    /\ tx.todo # <<>> => tx.new = <<>>
    /\ \A i \in DOMAIN tx.rows : /\ tx.rows[i].ex = tx.date
                                 /\ AllTagged(tx.rows[i].kind, tx.rows[i].sym)
    \* before the orders, a lot of today is that of a call
    /\ tx.todo # <<>> => \A l \in tx.lots : l.day = tx.date =>
          \E i \in Calls(tx.rows) : tx.rows[i].sym = l.sym
\* Until a call is paid the money of the settlement is no less than the account's.
MoneyOK == MayOwe(TradesNow, AuditNow) \/
    /\ tx.cash >= 0
    /\ tx.new = <<>> /\ Calls(tx.rows) = {} => tx.cash >= cash
TxOK == /\ tx \in Settlement /\ tx.date \notin Range(settled)
        /\ Account(tx.lots, tx.hold, TradesNow, AuditNow, DaysNow)
        /\ ServedOn(tx.lots, settled, Days \ gaps)
        /\ EventsOK /\ RowsOK /\ MoneyOK

BooksOK == /\ Account(lots, hold, trades, audit, settled)
           /\ EntitledAreServed /\ OverdraftNeedsTwoCalls
Typed == /\ official \in [Days -> Seq(Events)] /\ today \in Days /\ cash \in Int
         /\ gaps \subseteq Days
IInv == Typed /\ BooksOK /\ (tx # NoTx => TxOK)

-----------------------------------------------------------------------------
(* Lots, and the shares in them.                                           *)

LEMMA LotsSubset ==
  ASSUME NEW L, LotsOK(L), NEW M \in SUBSET L
  PROVE  LotsOK(M)
BY FS_Subset DEF LotsOK

LEMMA SharesNat == ASSUME NEW L, LotsOK(L) PROVE Shares(L) \in Nat
<1> DEFINE F == [l \in L |-> l.rem]
<1>1. IsFiniteSet(DOMAIN F) /\ \A l \in DOMAIN F : F[l] \in Nat
  BY DEF LotsOK, Lot
<1> HIDE DEF F
<1>2. SumFunction(F) \in Nat
  BY <1>1, FunSumNat
<1> QED BY <1>2 DEF F, Shares

LEMMA SharesEmpty == Shares({}) = 0
BY FunSumEmpty DEF Shares

LEMMA SharesSplit ==
  ASSUME NEW N, LotsOK(N), NEW L, NEW M, N = L \cup M, L \cap M = {}
  PROVE  Shares(N) = Shares(L) + Shares(M)
<1> DEFINE F == [l \in N |-> l.rem]
           G == [l \in L |-> l.rem]
           H == [l \in M |-> l.rem]
<1>1. /\ IsFiniteSet(DOMAIN F)
      /\ DOMAIN F = DOMAIN G \cup DOMAIN H /\ DOMAIN G \cap DOMAIN H = {}
      /\ \A l \in DOMAIN G : G[l] = F[l]
      /\ \A l \in DOMAIN H : H[l] = F[l]
      /\ \A l \in DOMAIN F : F[l] \in Int
  BY DEF LotsOK, Lot
<1> HIDE DEF F, G, H
<1>2. SumFunction(F) = SumFunction(G) + SumFunction(H)
  BY <1>1, FunSumSplit
<1> QED BY <1>2 DEF F, G, H, Shares

LEMMA SharesAdd ==
  ASSUME NEW L, NEW x, LotsOK(L \cup {x}), x \notin L
  PROVE  Shares(L \cup {x}) = Shares(L) + x.rem
<1> DEFINE F == [l \in L \cup {x} |-> l.rem]
           G == [l \in L |-> l.rem]
<1>1. /\ IsFiniteSet(DOMAIN G) /\ x \notin DOMAIN G /\ DOMAIN F = DOMAIN G \cup {x}
      /\ \A l \in DOMAIN G : G[l] = F[l]
      /\ \A l \in DOMAIN F : F[l] \in Int
      /\ F[x] = x.rem
  BY FS_Subset DEF LotsOK, Lot
<1> HIDE DEF F, G
<1>2. SumFunction(F) = SumFunction(G) + x.rem
  BY <1>1, FunSumAdd
<1> QED BY <1>2 DEF F, G, Shares

\* Lots that have nothing left count for nothing.
LEMMA SharesOfEmptyLots ==
  ASSUME NEW L, LotsOK(L), \A l \in L : l.rem = 0
  PROVE  Shares(L) = 0
<1> DEFINE F == [l \in L |-> l.rem]
<1>1. IsFiniteSet(L) /\ \A l \in L : F[l] = 0
  BY DEF LotsOK
<1> HIDE DEF F
<1>2. SumFunctionOnSet(F, L) = 0
  BY <1>1, SumZero
<1> QED BY <1>2 DEF F, Shares, SumFunction

\* f turns some lots of a symbol into others, which keep their id and symbol.
Turns(f, L, s) == /\ DOMAIN f \subseteq LotsOf(L, s)
                  /\ \A l \in DOMAIN f : f[l] \in Lot /\ f[l].id = l.id /\ f[l].sym = l.sym
RemAfter(f) == SumFunction([l \in DOMAIN f |-> f[l].rem])
Turned(f, L) == (L \ DOMAIN f) \cup Range(f)

LEMMA TurnedLots ==
  ASSUME NEW L, LotsOK(L), NEW s \in Symbols, NEW f, Turns(f, L, s)
  PROVE  /\ LotsOK(Turned(f, L)) /\ LotsOK(Range(f))
         /\ Range(f) \cap (L \ DOMAIN f) = {}
         /\ Shares(Range(f)) = RemAfter(f)
<1> DEFINE E == DOMAIN f
           I == Range(f)
           F == [l \in E |-> f[l].rem]
           G == [l \in I |-> l.rem]
           h == [l \in E |-> f[l]]
<1>1. E \subseteq L /\ IsFiniteSet(L) /\ L \subseteq Lot
  BY DEF Turns, LotsOf, LotsOK
<1>2. IsFiniteSet(E) /\ \A x \in I : \E l \in E : x = f[l]
  BY <1>1, FS_Subset DEF Range
<1>3. \A l, m \in E : f[l].id = f[m].id => l = m
  BY <1>1 DEF Turns, LotsOK
<1>4. I \subseteq Lot /\ \A l \in E : f[l] \in I
  BY <1>2 DEF Turns, Range
<1>5. /\ IsFiniteSet(DOMAIN F) /\ DOMAIN G = {h[x] : x \in DOMAIN F}
      /\ \A x, y \in DOMAIN F : h[x] = h[y] => x = y
      /\ \A x \in DOMAIN F : F[x] \in Int /\ G[h[x]] = F[x]
  <2>1. DOMAIN G = {h[x] : x \in DOMAIN F}
    BY DEF Range
  <2>2. \A x, y \in DOMAIN F : h[x] = h[y] => x = y
    BY <1>3
  <2>3. \A x \in DOMAIN F : F[x] \in Int /\ G[h[x]] = F[x]
    BY <1>4 DEF Lot
  <2> QED BY <1>2, <2>1, <2>2, <2>3
<1>6. IsFiniteSet(I) /\ SumFunction(G) = SumFunction(F)
  <2> HIDE DEF F, G, h
  <2>1. IsFiniteSet(DOMAIN G) /\ SumFunction(G) = SumFunction(F)
    BY <1>5, FunSumImage
  <2> QED BY <2>1 DEF G
<1>7. Shares(I) = RemAfter(f)
  BY <1>6 DEF Shares, RemAfter
<1>8. \A x, y \in I : x.id = y.id => x = y
  BY <1>2, <1>3
<1>9. \A x \in I, y \in L \ E : x.id # y.id
  BY <1>1, <1>2 DEF Turns, LotsOK
<1>10. IsFiniteSet(L \ E) /\ IsFiniteSet((L \ E) \cup I)
  BY <1>1, <1>6, FS_Subset, FS_Union
<1>11. LotsOK(I)
  BY <1>4, <1>6, <1>8 DEF LotsOK
<1>12. \A x, y \in (L \ E) \cup I : x.id = y.id => x = y
  BY <1>8, <1>9 DEF LotsOK
<1>13. LotsOK((L \ E) \cup I)
  BY <1>1, <1>4, <1>10, <1>12 DEF LotsOK
<1> QED BY <1>7, <1>9, <1>11, <1>13 DEF Turned

LEMMA TurnedShares ==
  ASSUME NEW L, LotsOK(L), NEW s \in Symbols, NEW f, Turns(f, L, s)
  PROVE  /\ LotsOK(Turned(f, L))
         /\ \A r \in Symbols \ {s} : LotsOf(Turned(f, L), r) = LotsOf(L, r)
         /\ Shares(LotsOf(Turned(f, L), s)) \in Nat /\ Shares(LotsOf(L, s)) \in Nat
         /\ Shares(DOMAIN f) \in Nat /\ RemAfter(f) \in Nat
         /\ Shares(LotsOf(Turned(f, L), s)) + Shares(DOMAIN f) = Shares(LotsOf(L, s)) + RemAfter(f)
<1> DEFINE E == DOMAIN f
           K == LotsOf(L, s) \ E
           A == LotsOf(Turned(f, L), s)
<1>1. /\ LotsOK(Turned(f, L)) /\ LotsOK(Range(f)) /\ Range(f) \cap (L \ E) = {}
      /\ Shares(Range(f)) = RemAfter(f)
  BY TurnedLots
<1>2. \A x \in Range(f) : x.sym = s
  BY DEF Turns, Range, LotsOf
<1>3. \A x \in E : x.sym = s
  BY DEF Turns, LotsOf
<1>4. A = K \cup Range(f) /\ K \cap Range(f) = {}
  <2>1. \A x : x \in A <=> x \in K \/ x \in Range(f)
    BY <1>2, <1>3 DEF Turned, LotsOf
  <2>2. K \cap Range(f) = {}
    BY <1>1 DEF LotsOf
  <2> QED BY <2>1, <2>2
<1>5. LotsOf(L, s) = K \cup E /\ K \cap E = {}
  BY DEF Turns
<1>6. \A r \in Symbols \ {s} : LotsOf(Turned(f, L), r) = LotsOf(L, r)
  <2> SUFFICES ASSUME NEW r \in Symbols \ {s} PROVE LotsOf(Turned(f, L), r) = LotsOf(L, r)
    OBVIOUS
  <2>1. \A x : x \in LotsOf(Turned(f, L), r) <=> x \in LotsOf(L, r)
    BY <1>2, <1>3 DEF Turned, LotsOf
  <2> QED BY <2>1
<1>7. A \in SUBSET Turned(f, L) /\ LotsOf(L, s) \in SUBSET L /\ K \in SUBSET L /\ E \in SUBSET L
  BY DEF LotsOf, Turns
<1>8. LotsOK(A) /\ LotsOK(LotsOf(L, s)) /\ LotsOK(K) /\ LotsOK(E)
  BY <1>1, <1>7, LotsSubset
<1> HIDE DEF A, K, E
<1>9. Shares(A) = Shares(K) + Shares(Range(f)) /\ Shares(LotsOf(L, s)) = Shares(K) + Shares(E)
  BY <1>4, <1>5, <1>8, SharesSplit
<1>10. Shares(A) \in Nat /\ Shares(K) \in Nat /\ Shares(E) \in Nat /\ Shares(Range(f)) \in Nat
       /\ Shares(LotsOf(L, s)) \in Nat
  BY <1>1, <1>8, SharesNat
<1> QED BY <1>1, <1>6, <1>9, <1>10 DEF A, E

-----------------------------------------------------------------------------
(* What one more trade, row or day changes.                                *)

LEMMA ConcatAppend ==
  ASSUME NEW S, NEW s \in Seq(S), NEW t \in Seq(S), NEW e \in S
  PROVE  s \o Append(t, e) = Append(s \o t, e)
<1>1. Append(t, e) = t \o <<e>> /\ Append(s \o t, e) = (s \o t) \o <<e>> /\ <<e>> \in Seq(S)
  BY AppendIsConcat, ConcatProperties
<1> QED BY <1>1, ConcatAssociative

\* An entry of the second of two sequences put together.
LEMMA ConcatIndex ==
  ASSUME NEW S, NEW s \in Seq(S), NEW t \in Seq(S), NEW i \in DOMAIN t
  PROVE  Len(s) + i \in DOMAIN (s \o t) /\ (s \o t)[Len(s) + i] = t[i]
<1>1. /\ Len(s) \in Nat /\ Len(t) \in Nat /\ i \in 1..Len(t)
      /\ Len(s \o t) = Len(s) + Len(t) /\ DOMAIN (s \o t) = 1..Len(s \o t)
      /\ \A j \in 1..(Len(s) + Len(t)) : (s \o t)[j] = IF j <= Len(s) THEN s[j] ELSE t[j - Len(s)]
  BY ConcatProperties, LenProperties
<1>2. Len(s) + i \in 1..(Len(s) + Len(t)) /\ ~(Len(s) + i <= Len(s)) /\ Len(s) + i - Len(s) = i
  BY <1>1
<1> QED BY <1>1, <1>2

\* Appending extends the domain by one index and leaves the others alone.
LEMMA Appended ==
  ASSUME NEW S, NEW q \in Seq(S), NEW e \in S
  PROVE  /\ Append(q, e) \in Seq(S)
         /\ Len(q) \in Nat /\ DOMAIN q = 1..Len(q) /\ Len(q) + 1 \notin DOMAIN q
         /\ DOMAIN Append(q, e) = DOMAIN q \cup {Len(q) + 1}
         /\ Append(q, e)[Len(q) + 1] = e
         /\ \A i \in DOMAIN q : Append(q, e)[i] = q[i] /\ q[i] \in S /\ i < Len(q) + 1
<1>1. /\ Append(q, e) \in Seq(S) /\ Len(Append(q, e)) = Len(q) + 1
      /\ \A i \in 1..Len(q) : Append(q, e)[i] = q[i]
      /\ Append(q, e)[Len(q) + 1] = e
  BY AppendProperties
<1>2. Len(q) \in Nat /\ DOMAIN q = 1..Len(q) /\ DOMAIN Append(q, e) = 1..(Len(q) + 1)
  BY <1>1, LenProperties
<1> QED BY <1>1, <1>2, ElementOfSeq

LEMMA RangeAppend ==
  ASSUME NEW S, NEW q \in Seq(S), NEW e \in S
  PROVE  \A x : x \in Range(Append(q, e)) <=> x \in Range(q) \/ x = e
BY Appended DEF Range

\* A sum with an index more, or with none.
LEMMA AppendedSum ==
  ASSUME NEW F, NEW G, NEW n, IsFiniteSet(DOMAIN F), n \notin DOMAIN F,
         DOMAIN G = DOMAIN F \/ DOMAIN G = DOMAIN F \cup {n},
         \A i \in DOMAIN F : G[i] = F[i], \A i \in DOMAIN F : F[i] \in Int,
         n \in DOMAIN G => G[n] \in Int
  PROVE  /\ SumFunction(F) \in Int
         /\ SumFunction(G) = SumFunction(F) + (IF n \in DOMAIN G THEN G[n] ELSE 0)
<1>1. SumFunction(F) \in Int
  BY FunSumInt
<1>2. CASE DOMAIN G = DOMAIN F \cup {n}
  <2>1. \A i \in DOMAIN G : G[i] \in Int
    BY <1>2
  <2>2. SumFunction(G) = SumFunction(F) + G[n]
    BY <1>2, <2>1, FunSumAdd
  <2> QED BY <1>1, <1>2, <2>2
<1>3. CASE DOMAIN G = DOMAIN F
  <2>1. SumFunction(F) = SumFunctionOnSet(G, DOMAIN G)
    BY <1>3, FunSumOver
  <2>2. SumFunction(G) = SumFunctionOnSet(G, DOMAIN G)
    BY DEF SumFunction
  <2> QED BY <1>1, <1>3, <2>1, <2>2
<1> QED BY <1>1, <1>2, <1>3

\* The indices of one symbol, with one entry more.
OfSymbol(q, s) == {i \in DOMAIN q : q[i].sym = s}
LEMMA SymbolAppend ==
  ASSUME NEW S, NEW q \in Seq(S), NEW e \in S, NEW s
  PROVE  /\ IsFiniteSet(OfSymbol(q, s)) /\ Len(q) + 1 \notin OfSymbol(q, s)
         /\ OfSymbol(Append(q, e), s)
              = IF e.sym = s THEN OfSymbol(q, s) \cup {Len(q) + 1} ELSE OfSymbol(q, s)
         /\ Len(q) + 1 \in OfSymbol(Append(q, e), s) <=> e.sym = s
<1> DEFINE n == Len(q) + 1
<1>1. /\ n \notin DOMAIN q /\ DOMAIN Append(q, e) = DOMAIN q \cup {n} /\ Append(q, e)[n] = e
      /\ \A i \in DOMAIN q : Append(q, e)[i] = q[i]
  BY Appended
<1>2. OfSymbol(q, s) \subseteq 1..Len(q) /\ Len(q) \in Nat
  BY Appended DEF OfSymbol
<1>3. IsFiniteSet(1..Len(q))
  BY <1>2, FS_Interval
<1>4. IsFiniteSet(OfSymbol(q, s))
  BY <1>2, <1>3, FS_Subset
<1> HIDE DEF n
<1>5. \A i : i \in OfSymbol(Append(q, e), s) <=> i \in OfSymbol(q, s) \/ (i = n /\ e.sym = s)
  BY <1>1 DEF OfSymbol
<1>6. n \notin OfSymbol(q, s)
  BY <1>1 DEF OfSymbol
<1>7. OfSymbol(Append(q, e), s) = IF e.sym = s THEN OfSymbol(q, s) \cup {n} ELSE OfSymbol(q, s)
  BY <1>5
<1> QED BY <1>4, <1>5, <1>6, <1>7 DEF n

LEMMA AddedAppend ==
  ASSUME NEW R \in Seq(AuditRow), NEW r \in AuditRow, NEW s
  PROVE  /\ Added(R, s) \in Int
         /\ Added(Append(R, r), s) = Added(R, s) + (IF r.sym = s THEN r.shares ELSE 0)
<1> DEFINE n == Len(R) + 1
           A == Append(R, r)
           F == [i \in OfSymbol(R, s) |-> R[i].shares]
           G == [i \in OfSymbol(A, s) |-> A[i].shares]
<1>1. /\ IsFiniteSet(DOMAIN F) /\ n \notin DOMAIN F
      /\ DOMAIN G = DOMAIN F \/ DOMAIN G = DOMAIN F \cup {n}
      /\ n \in DOMAIN G <=> r.sym = s
  BY SymbolAppend
<1>2. \A i \in DOMAIN F : R[i] \in AuditRow /\ A[i] = R[i]
  BY Appended DEF OfSymbol
<1>3. A[n] = r
  BY Appended
<1>4. \A i \in DOMAIN F : F[i] \in Int
  BY <1>2 DEF AuditRow
<1>5. \A i \in DOMAIN F : G[i] = F[i]
  BY <1>1, <1>2
<1>6. n \in DOMAIN G => G[n] = r.shares /\ r.shares \in Int
  BY <1>3 DEF AuditRow
<1>7. SumFunction(F) = Added(R, s) /\ SumFunction(G) = Added(A, s)
  BY DEF Added, OfSymbol
<1> HIDE DEF F, G, n, A
<1>8. /\ SumFunction(F) \in Int
      /\ SumFunction(G) = SumFunction(F) + (IF n \in DOMAIN G THEN G[n] ELSE 0)
  BY <1>1, <1>4, <1>5, <1>6, AppendedSum
<1> QED BY <1>1, <1>6, <1>7, <1>8 DEF A

LEMMA BoughtAppend ==
  ASSUME NEW T \in Seq(TradeRow), NEW t \in TradeRow, NEW s
  PROVE  /\ Bought(T, s) \in Int
         /\ Bought(Append(T, t), s) = Bought(T, s) + (IF t.sym = s THEN Sign(t) ELSE 0)
<1> DEFINE n == Len(T) + 1
           A == Append(T, t)
           F == [i \in OfSymbol(T, s) |-> Sign(T[i])]
           G == [i \in OfSymbol(A, s) |-> Sign(A[i])]
<1>1. /\ IsFiniteSet(DOMAIN F) /\ n \notin DOMAIN F
      /\ DOMAIN G = DOMAIN F \/ DOMAIN G = DOMAIN F \cup {n}
      /\ n \in DOMAIN G <=> t.sym = s
  BY SymbolAppend
<1>2. \A i \in DOMAIN F : T[i] \in TradeRow /\ A[i] = T[i]
  BY Appended DEF OfSymbol
<1>3. A[n] = t
  BY Appended
<1>4. \A i \in DOMAIN F : F[i] \in Int
  BY <1>2 DEF TradeRow, Sign
<1>5. \A i \in DOMAIN F : G[i] = F[i]
  BY <1>1, <1>2
<1>6. n \in DOMAIN G => G[n] = Sign(t) /\ Sign(t) \in Int
  BY <1>3 DEF TradeRow, Sign
<1>7. SumFunction(F) = Bought(T, s) /\ SumFunction(G) = Bought(A, s)
  BY DEF Bought, OfSymbol
<1> HIDE DEF F, G, n, A
<1>8. n \in DOMAIN G => G[n] \in Int
  BY <1>6
<1>9. /\ SumFunction(F) \in Int
      /\ SumFunction(G) = SumFunction(F) + (IF n \in DOMAIN G THEN G[n] ELSE 0)
  BY <1>1, <1>4, <1>5, <1>8, AppendedSum
<1> QED BY <1>1, <1>6, <1>7, <1>9 DEF A

LEMMA LotsSoFarNat ==
  ASSUME NEW T \in Seq(TradeRow), NEW R \in Seq(AuditRow)
  PROVE  /\ IsFiniteSet(Buys(T)) /\ IsFiniteSet(Calls(R))
         /\ Cardinality(Buys(T)) \in Nat /\ Cardinality(Calls(R)) \in Nat
         /\ LotsSoFar(T, R) \in Nat
<1>1. /\ Len(T) \in Nat /\ Buys(T) \subseteq 1..Len(T)
      /\ Len(R) \in Nat /\ Calls(R) \subseteq 1..Len(R)
  BY LenProperties DEF Buys, Calls
<1>2. IsFiniteSet(1..Len(T)) /\ IsFiniteSet(1..Len(R))
  BY <1>1, FS_Interval
<1>3. IsFiniteSet(Buys(T)) /\ IsFiniteSet(Calls(R))
  BY <1>1, <1>2, FS_Subset
<1>4. Cardinality(Buys(T)) \in Nat /\ Cardinality(Calls(R)) \in Nat
  BY <1>3, FS_CardinalityType
<1> QED BY <1>3, <1>4 DEF LotsSoFar

LEMMA CallsAppend ==
  ASSUME NEW R \in Seq(AuditRow), NEW r \in AuditRow
  PROVE  /\ IsPaid(r) => Calls(Append(R, r)) = Calls(R) \cup {Len(R) + 1}
         /\ ~IsPaid(r) => Calls(Append(R, r)) = Calls(R)
         /\ Len(R) + 1 \notin Calls(R)
BY Appended DEF Calls

LEMMA RowCounts ==
  ASSUME NEW T \in Seq(TradeRow), NEW R \in Seq(AuditRow), NEW r \in AuditRow
  PROVE  LotsSoFar(T, Append(R, r)) = LotsSoFar(T, R) + (IF IsPaid(r) THEN 1 ELSE 0)
<1>1. /\ IsFiniteSet(Calls(R)) /\ Cardinality(Buys(T)) \in Nat /\ Cardinality(Calls(R)) \in Nat
  BY LotsSoFarNat
<1>2. Cardinality(Calls(R) \cup {Len(R) + 1}) = Cardinality(Calls(R)) + 1
  BY <1>1, CallsAppend, FS_AddElement
<1>3. CASE IsPaid(r)
  <2>1. Calls(Append(R, r)) = Calls(R) \cup {Len(R) + 1}
    BY <1>3, CallsAppend
  <2>2. Cardinality(Calls(Append(R, r))) = Cardinality(Calls(R)) + 1
    BY <1>2, <2>1
  <2> QED BY <1>1, <1>3, <2>2 DEF LotsSoFar
<1>4. CASE ~IsPaid(r)
  BY <1>1, <1>4, CallsAppend DEF LotsSoFar
<1> QED BY <1>3, <1>4

LEMMA TradeCounts ==
  ASSUME NEW T \in Seq(TradeRow), NEW R \in Seq(AuditRow), NEW t \in TradeRow
  PROVE  LotsSoFar(Append(T, t), R) = LotsSoFar(T, R) + (IF t.side = "buy" THEN 1 ELSE 0)
<1>1. /\ IsFiniteSet(Buys(T)) /\ Cardinality(Buys(T)) \in Nat /\ Cardinality(Calls(R)) \in Nat
  BY LotsSoFarNat
<1>2. /\ t.side = "buy" => Buys(Append(T, t)) = Buys(T) \cup {Len(T) + 1}
      /\ t.side # "buy" => Buys(Append(T, t)) = Buys(T)
      /\ Len(T) + 1 \notin Buys(T)
  BY Appended DEF Buys
<1>3. Cardinality(Buys(T) \cup {Len(T) + 1}) = Cardinality(Buys(T)) + 1
  BY <1>1, <1>2, FS_AddElement
<1>4. CASE t.side = "buy"
  <2>1. Cardinality(Buys(Append(T, t))) = Cardinality(Buys(T)) + 1
    BY <1>2, <1>3, <1>4
  <2> QED BY <1>1, <1>4, <2>1 DEF LotsSoFar
<1>5. CASE t.side # "buy"
  BY <1>1, <1>2, <1>5 DEF LotsSoFar
<1> QED BY <1>4, <1>5

\* A delisting that cleared young lots stays in the rows, a later day among the days.
LEMMA YoungRow ==
  ASSUME NEW R \in Seq(AuditRow), NEW r \in AuditRow, NEW D, NEW s, YoungCleared(R, D, s)
  PROVE  YoungCleared(Append(R, r), D, s)
<1>1. PICK i \in DOMAIN R :
        /\ R[i].kind = "delist" /\ R[i].sym = s
        /\ SettledAfterLater(D, R[i].ex) \/ CallThatDay(R, s, R[i].ex)
  BY DEF YoungCleared
<1>2. i \in DOMAIN Append(R, r) /\ Append(R, r)[i] = R[i]
  BY Appended
<1>3. CallThatDay(R, s, R[i].ex) => CallThatDay(Append(R, r), s, R[i].ex)
  BY Appended DEF CallThatDay, Calls
<1> QED BY <1>1, <1>2, <1>3 DEF YoungCleared

LEMMA YoungDay ==
  ASSUME NEW R, NEW D \in Seq(Days), NEW d \in Days, NEW s, YoungCleared(R, D, s)
  PROVE  YoungCleared(R, Append(D, d), s)
<1>1. \A e : SettledAfterLater(D, e) => SettledAfterLater(Append(D, d), e)
  BY Appended DEF SettledAfterLater
<1> QED BY <1>1 DEF YoungCleared

LEMMA OweTrade ==
  ASSUME NEW T \in Seq(TradeRow), NEW t \in TradeRow, NEW R
  PROVE  /\ MayOwe(T, R) => MayOwe(Append(T, t), R)
         /\ t.side = "sell" /\ t.amt < t.fee => MayOwe(Append(T, t), R)
BY Appended DEF MayOwe, CostlySale

LEMMA OweRow ==
  ASSUME NEW T, NEW R \in Seq(AuditRow), NEW r \in AuditRow
  PROVE  /\ MayOwe(T, R) => MayOwe(T, Append(R, r))
         /\ r.kind = "delist" /\ r.net < 0 => MayOwe(T, Append(R, r))
         /\ IsPaid(r) /\ (\E i \in Calls(R) : R[i].ex = r.ex) => MayOwe(T, Append(R, r))
<1>1. CostlyDelisting(R) => CostlyDelisting(Append(R, r))
  BY Appended DEF CostlyDelisting
<1>2. r.kind = "delist" /\ r.net < 0 => CostlyDelisting(Append(R, r))
  BY Appended DEF CostlyDelisting
<1>3. TwoCalls(R) => TwoCalls(Append(R, r))
  BY Appended DEF TwoCalls, Calls
<1>4. IsPaid(r) /\ (\E i \in Calls(R) : R[i].ex = r.ex) => TwoCalls(Append(R, r))
  BY Appended DEF TwoCalls, Calls
<1> QED BY <1>1, <1>2, <1>3, <1>4 DEF MayOwe

-----------------------------------------------------------------------------
(* What an account is after one more row, trade or day.                    *)

SameEvent(r, q) == r.kind = q.kind /\ r.sym = q.sym /\ r.ex = q.ex

LEMMA OnceAppend ==
  ASSUME NEW R \in Seq(AuditRow), Once(R), NEW r \in AuditRow,
         \A i \in DOMAIN R : ~SameEvent(R[i], r)
  PROVE  Once(Append(R, r))
<1> DEFINE A == Append(R, r)
           n == Len(R) + 1
<1>1. /\ DOMAIN A = DOMAIN R \cup {n} /\ A[n] = r
      /\ \A i \in DOMAIN R : A[i] = R[i]
  BY Appended
<1> HIDE DEF A, n
<1>2. ASSUME NEW i \in DOMAIN A, NEW j \in DOMAIN A, SameEvent(A[i], A[j]) PROVE i = j
  BY <1>1, <1>2 DEF SameEvent, Once
<1> QED BY <1>2 DEF A, Once, SameEvent

LEMMA AccountRow ==
  ASSUME NEW L, NEW h, NEW T, NEW R, NEW D, Account(L, h, T, R, D),
         NEW r \in AuditRow, r.ex \in Range(D), \A i \in DOMAIN R : ~SameEvent(R[i], r),
         NEW M, LotsOK(M), LotsFit(M, LotsSoFar(T, Append(R, r)), D),
         \A x \in Symbols \ {r.sym} : LotsOf(M, x) = LotsOf(L, x),
         NEW g, g = [h EXCEPT ![r.sym] = Shares(LotsOf(M, r.sym))],
         g[r.sym] = h[r.sym] + r.shares \/ YoungCleared(Append(R, r), D, r.sym)
  PROVE  Account(M, g, T, Append(R, r), D)
<1> DEFINE A == Append(R, r)
           s == r.sym
<1>1. /\ T \in Seq(TradeRow) /\ R \in Seq(AuditRow) /\ D \in Seq(Days) /\ h \in [Symbols -> Int]
      /\ s \in Symbols /\ A \in Seq(AuditRow) /\ r.shares \in Int
  BY Appended DEF Account, AuditRow
<1>2. Shares(LotsOf(M, s)) \in Nat
  <2>1. LotsOf(M, s) \in SUBSET M
    BY DEF LotsOf
  <2> QED BY <2>1, LotsSubset, SharesNat
<1>3. g \in [Symbols -> Int] /\ g[s] = Shares(LotsOf(M, s)) /\ \A x \in Symbols \ {s} : g[x] = h[x]
  BY <1>1, <1>2
<1>4. \A i \in DOMAIN A : A[i].ex \in Range(D)
  BY Appended DEF Account
<1>5. Once(A)
  BY <1>1, OnceAppend DEF Account
<1>6. ASSUME NEW x \in Symbols
      PROVE  /\ g[x] = Shares(LotsOf(M, x))
             /\ g[x] = Bought(T, x) + Added(A, x) \/ YoungCleared(A, D, x)
  <2>1. /\ Added(R, x) \in Int /\ Bought(T, x) \in Int
        /\ Added(A, x) = Added(R, x) + (IF s = x THEN r.shares ELSE 0)
    <3>1. /\ Added(R, x) \in Int
          /\ Added(A, x) = Added(R, x) + (IF s = x THEN r.shares ELSE 0)
      BY <1>1, AddedAppend
    <3>2. PICK t \in TradeRow : TRUE
      <4>1. [side |-> "buy", sym |-> s, qty |-> 0, amt |-> 0, fee |-> 0, day |-> r.ex] \in TradeRow
        BY <1>1 DEF TradeRow, AuditRow
      <4> QED BY <4>1
    <3>3. Bought(T, x) \in Int
      BY <1>1, <3>2, BoughtAppend
    <3> QED BY <3>1, <3>3
  <2>2. h[x] = Shares(LotsOf(L, x)) /\ (h[x] = Bought(T, x) + Added(R, x) \/ YoungCleared(R, D, x))
    BY DEF Account
  <2>3. YoungCleared(R, D, x) => YoungCleared(A, D, x)
    BY <1>1, YoungRow
  <2>4. CASE x = s
    <3>1. g[s] = Shares(LotsOf(M, s)) /\ h[s] \in Int
      BY <1>1, <1>3
    <3>2. CASE YoungCleared(A, D, s)
      BY <2>4, <3>1, <3>2
    <3>3. CASE g[s] = h[s] + r.shares /\ h[s] = Bought(T, s) + Added(R, s)
      BY <1>1, <2>1, <2>4, <3>1, <3>3
    <3> QED BY <2>2, <2>3, <2>4, <3>2, <3>3
  <2>5. CASE x # s
    <3>1. g[x] = h[x] /\ LotsOf(M, x) = LotsOf(L, x) /\ Added(A, x) = Added(R, x)
      BY <1>3, <2>1, <2>5
    <3> QED BY <2>2, <2>3, <3>1
  <2> QED BY <2>4, <2>5
<1> QED BY <1>1, <1>3, <1>4, <1>5, <1>6 DEF Account

LEMMA AccountTrade ==
  ASSUME NEW L, NEW h, NEW T, NEW R, NEW D, Account(L, h, T, R, D), NEW t \in TradeRow,
         NEW M, LotsOK(M), LotsFit(M, LotsSoFar(Append(T, t), R), D),
         \A x \in Symbols \ {t.sym} : LotsOf(M, x) = LotsOf(L, x),
         Shares(LotsOf(M, t.sym)) = h[t.sym] + Sign(t),
         NEW g, g = [h EXCEPT ![t.sym] = h[t.sym] + Sign(t)]
  PROVE  Account(M, g, Append(T, t), R, D)
<1> DEFINE A == Append(T, t)
           s == t.sym
<1>1. /\ T \in Seq(TradeRow) /\ R \in Seq(AuditRow) /\ D \in Seq(Days) /\ h \in [Symbols -> Int]
      /\ s \in Symbols /\ A \in Seq(TradeRow) /\ Sign(t) \in Int
  BY Appended DEF Account, TradeRow, Sign
<1>2. g \in [Symbols -> Int] /\ g[s] = h[s] + Sign(t) /\ \A x \in Symbols \ {s} : g[x] = h[x]
  BY <1>1
<1>3. ASSUME NEW x \in Symbols
      PROVE  /\ g[x] = Shares(LotsOf(M, x))
             /\ g[x] = Bought(A, x) + Added(R, x) \/ YoungCleared(R, D, x)
  <2>1. /\ Bought(T, x) \in Int
        /\ Bought(A, x) = Bought(T, x) + (IF s = x THEN Sign(t) ELSE 0)
    BY <1>1, BoughtAppend
  <2>2. Added(R, x) \in Int
    <3>1. [kind |-> "delist", sym |-> s, ex |-> t.day, result |-> "cleared", shares |-> 0, net |-> 0]
            \in AuditRow
      BY <1>1 DEF TradeRow, AuditRow
    <3> QED BY <1>1, <3>1, AddedAppend
  <2>3. h[x] = Shares(LotsOf(L, x)) /\ (h[x] = Bought(T, x) + Added(R, x) \/ YoungCleared(R, D, x))
    BY DEF Account
  <2>4. CASE x = s
    BY <1>1, <1>2, <2>1, <2>2, <2>3, <2>4
  <2>5. CASE x # s
    <3>1. g[x] = h[x] /\ LotsOf(M, x) = LotsOf(L, x) /\ Bought(A, x) = Bought(T, x)
      BY <1>2, <2>1, <2>5
    <3> QED BY <2>3, <3>1
  <2> QED BY <2>4, <2>5
<1> QED BY <1>1, <1>2, <1>3 DEF Account

\* Another day counted as settled.
LEMMA AccountDay ==
  ASSUME NEW L, NEW h, NEW T, NEW R, NEW D, Account(L, h, T, R, D), NEW d \in Days
  PROVE  Account(L, h, T, R, Append(D, d))
<1>1. D \in Seq(Days) /\ Append(D, d) \in Seq(Days)
  BY Appended DEF Account
<1>2. \A x : x \in Range(D) => x \in Range(Append(D, d))
  BY <1>1, RangeAppend
<1>3. LotsFit(L, LotsSoFar(T, R), Append(D, d))
  BY <1>2 DEF Account, LotsFit
<1>4. \A s : YoungCleared(R, D, s) => YoungCleared(R, Append(D, d), s)
  BY <1>1, YoungDay
<1> QED BY <1>1, <1>2, <1>3, <1>4 DEF Account

-----------------------------------------------------------------------------
(* What an event leaves of the lots and of the events before it.           *)

\* Every lot of M that is not of today has a forebear, which keeps its tags and, if
\* it is entitled, gets those of its symbol in G.
Heirs(M, G) == \A m \in M : m.day # tx.date => \E l \in tx.lots :
    /\ l.sym = m.sym /\ l.day = m.day /\ (m.rem > 0 => l.rem > 0)
    /\ m.tags = l.tags \cup (IF l \in Entitled(l.sym) THEN G[m.sym] ELSE {})

LEMMA EntitledHeirs ==
  ASSUME tx'.date = tx.date, NEW G, Heirs(tx'.lots, G), tx.date \in Days, tx'.lots \subseteq Lot,
         NEW s, NEW m \in Entitled(s)'
  PROVE  \E l \in Entitled(s) : m.tags = l.tags \cup G[s]
<1>1. m \in tx'.lots /\ m.sym = s /\ m.day < tx.date /\ m.rem > 0
  BY DEF Entitled
<1>2. m.day # tx.date
  BY <1>1 DEF Days, Lot
<1>3. PICK l \in tx.lots :
        /\ l.sym = m.sym /\ l.day = m.day /\ (m.rem > 0 => l.rem > 0)
        /\ m.tags = l.tags \cup (IF l \in Entitled(l.sym) THEN G[m.sym] ELSE {})
  BY <1>1, <1>2 DEF Heirs
<1>4. l \in Entitled(s) /\ l \in Entitled(l.sym)
  BY <1>1, <1>3 DEF Entitled
<1> QED BY <1>1, <1>3, <1>4

LEMMA HeirsTagged ==
  ASSUME TxOK, tx'.date = tx.date, tx'.lots \subseteq Lot, NEW G, Heirs(tx'.lots, G)
  PROVE  /\ \A k, s : AllTagged(k, s) => AllTagged(k, s)'
         /\ \A k, s : <<k, tx.date>> \in G[s] => AllTagged(k, s)'
         /\ \A s \in Symbols, k \in Tagged : \A l, m \in Entitled(s)' :
              <<k, tx.date>> \in l.tags => <<k, tx.date>> \in m.tags
<1>1. tx.date \in Days
  BY DEF TxOK, Settlement
<1>2. ASSUME NEW s, NEW m \in Entitled(s)' PROVE \E l \in Entitled(s) : m.tags = l.tags \cup G[s]
  BY <1>1, <1>2, EntitledHeirs
<1>3. ASSUME NEW k, NEW s, AllTagged(k, s) \/ <<k, tx.date>> \in G[s] PROVE AllTagged(k, s)'
  BY <1>2, <1>3 DEF AllTagged
<1>4. ASSUME NEW s \in Symbols, NEW k \in Tagged, NEW l \in Entitled(s)', NEW m \in Entitled(s)',
             <<k, tx.date>> \in l.tags
      PROVE  <<k, tx.date>> \in m.tags
  <2>1. PICK a \in Entitled(s) : l.tags = a.tags \cup G[s]
    BY <1>2
  <2>2. PICK b \in Entitled(s) : m.tags = b.tags \cup G[s]
    BY <1>2
  <2>3. <<k, tx.date>> \in a.tags => <<k, tx.date>> \in b.tags
    BY DEF TxOK, EventsOK
  <2> QED BY <1>4, <2>1, <2>2, <2>3
<1> QED BY <1>3, <1>4

\* What was served before stays so.
LEMMA HeirsServed ==
  ASSUME TxOK, tx'.lots \subseteq Lot, NEW G, Heirs(tx'.lots, G),
         UNCHANGED <<official, settled, gaps>>
  PROVE  ServedOn(tx.lots, settled, Days \ gaps)'
<1> SUFFICES ASSUME NEW m \in tx'.lots, NEW d \in Days \ gaps,
                    m.rem > 0, m.day < d, Precedes(settled, m.day, d)
             PROVE  Served(m, d)'
  BY DEF ServedOn
<1>1. m.day \in Range(settled)
  BY DEF Precedes, Range
<1>2. m.day # tx.date
  BY <1>1 DEF TxOK
<1>3. PICK l \in tx.lots : l.sym = m.sym /\ l.day = m.day /\ l.rem > 0 /\ l.tags \subseteq m.tags
  BY <1>2 DEF Heirs
<1>4. Served(l, d)
  BY <1>3 DEF TxOK, ServedOn
<1> QED BY <1>3, <1>4 DEF Served

\* The events that have been applied, after one more.
LEMMA EventsStep ==
  ASSUME TxOK, tx.todo # <<>>, UNCHANGED <<official, settled, gaps>>, tx'.lots \subseteq Lot,
         tx'.date = tx.date, tx'.events = tx.events, tx'.todo = Tail(tx.todo),
         NEW G, Heirs(tx'.lots, G),
         NEW ev, ev = Head(tx.todo), AllTagged(ev.kind, ev.sym)'
  PROVE  EventsOK'
<1> DEFINE n == Len(tx.events)
           k == Len(tx.todo)
<1>1. tx.todo \in Seq(Events) /\ tx.events \in Seq(Events) /\ n \in Nat /\ k \in Nat
  BY LenProperties DEF TxOK, Settlement
<1>2. /\ k <= n /\ Len(tx.todo) = k /\ Len(Tail(tx.todo)) = k - 1 /\ k >= 1
      /\ Head(tx.todo) = tx.todo[1]
      /\ \A i \in 1..(k - 1) : Tail(tx.todo)[i] = tx.todo[i + 1]
  BY <1>1, HeadTailProperties DEF TxOK, EventsOK
<1>3. \A i \in 1..k : tx.todo[i] = tx.events[n - k + i]
  BY DEF TxOK, EventsOK
<1>4. /\ \A q, s : AllTagged(q, s) => AllTagged(q, s)'
      /\ \A s \in Symbols, q \in Tagged : \A l, m \in Entitled(s)' :
           <<q, tx.date>> \in l.tags => <<q, tx.date>> \in m.tags
  BY HeirsTagged
<1>5. \A i \in 1..(n - k) : AllTagged(tx.events[i].kind, tx.events[i].sym)
  BY DEF TxOK, EventsOK
<1>6. tx.date \in gaps \/ tx.events = official[tx.date]
  BY DEF TxOK, EventsOK
<1> HIDE DEF n, k
<1>7. n - (k - 1) = n - k + 1 /\ tx.events[n - k + 1] = ev
  BY <1>1, <1>2, <1>3
<1>8. \A i \in 1..(n - (k - 1)) : i \in 1..(n - k) \/ i = n - k + 1
  BY <1>1, <1>2
<1>9. ASSUME NEW i \in 1..(n - (k - 1)), NEW e, e = tx.events[i]
      PROVE  AllTagged(e.kind, e.sym)'
  <2>1. CASE i \in 1..(n - k)
    BY <1>4, <1>5, <1>9, <2>1
  <2>2. CASE i = n - k + 1
    BY <1>7, <1>9, <2>2
  <2> QED BY <1>8, <2>1, <2>2
<1>10. \A i \in 1..(k - 1) : Tail(tx.todo)[i] = tx.events[n - (k - 1) + i]
  <2> SUFFICES ASSUME NEW i \in 1..(k - 1)
               PROVE  Tail(tx.todo)[i] = tx.events[n - (k - 1) + i]
    OBVIOUS
  <2>1. i + 1 \in 1..k /\ n - k + (i + 1) = n - (k - 1) + i
    BY <1>1, <1>2
  <2> QED BY <1>2, <1>3, <2>1
<1>11. k - 1 <= n
  BY <1>1, <1>2
<1> QED BY <1>2, <1>4, <1>6, <1>9, <1>10, <1>11 DEF EventsOK, n, k

-----------------------------------------------------------------------------
(* An event that is applied, whatever its kind.                            *)

\* No row of it exists yet: on an earlier day the rows have that day's date, and
\* after one of today its lots are tagged or gone.
LEMMA NewEvent ==
  ASSUME BooksOK, TxOK, NEW ev, NEW kind, Due(ev, kind), NEW row \in AuditRow,
         row.kind = kind, row.sym = ev.sym, row.ex = tx.date
  PROVE  \A i \in DOMAIN AuditNow : ~SameEvent(AuditNow[i], row)
<1> SUFFICES ASSUME NEW i \in DOMAIN AuditNow, SameEvent(AuditNow[i], row) PROVE FALSE
  OBVIOUS
<1>1. audit \in Seq(AuditRow) /\ tx.rows \in Seq(AuditRow)
  BY DEF BooksOK, Account, TxOK, Settlement
<1>2. /\ Len(audit) \in Nat /\ Len(tx.rows) \in Nat
      /\ DOMAIN audit = 1..Len(audit) /\ DOMAIN tx.rows = 1..Len(tx.rows)
      /\ DOMAIN AuditNow = 1..(Len(audit) + Len(tx.rows))
      /\ AuditNow[i] = IF i <= Len(audit) THEN audit[i] ELSE tx.rows[i - Len(audit)]
  <2>1. AuditNow \in Seq(AuditRow) /\ Len(AuditNow) = Len(audit) + Len(tx.rows)
    BY <1>1, ConcatProperties DEF AuditNow
  <2>2. DOMAIN AuditNow = 1..(Len(audit) + Len(tx.rows))
    BY <2>1, LenProperties
  <2> QED BY <1>1, <2>2, ConcatProperties, LenProperties DEF AuditNow
<1>3. CASE i <= Len(audit)
  <2>1. i \in DOMAIN audit /\ audit[i].ex = tx.date
    BY <1>2, <1>3 DEF SameEvent
  <2>2. audit[i].ex \in Range(settled)
    BY <2>1 DEF BooksOK, Account
  <2> QED BY <2>1, <2>2 DEF TxOK
<1>4. CASE ~(i <= Len(audit))
  <2>1. PICK j \in DOMAIN tx.rows : AuditNow[i] = tx.rows[j]
    BY <1>2, <1>4
  <2>2. AllTagged(kind, ev.sym)
    BY <2>1 DEF SameEvent, TxOK, RowsOK
  <2>3. PICK l \in Entitled(ev.sym) : <<kind, tx.date>> \in l.tags
    BY <2>2 DEF Due, AllTagged
  <2>4. l.tags \subseteq Tagged \X Days
    BY DEF Entitled, TxOK, Settlement, Lot
  <2>5. kind # "delist"
    BY <2>3, <2>4 DEF Tagged
  <2>6. Handled(ev)
    BY <2>3 DEF Due, Handled, Tag
  <2> QED BY <2>5, <2>6 DEF Due
<1> QED BY <1>3, <1>4

LEMMA AppliedFields ==
  ASSUME tx \in Settlement, NEW row, NEW M, NEW n, tx' = Applied(row, M, n)
  PROVE  /\ tx'.date = tx.date /\ tx'.events = tx.events /\ tx'.todo = Tail(tx.todo)
         /\ tx'.cash = tx.cash + row.net /\ tx'.lots = M
         /\ tx'.hold = [tx.hold EXCEPT ![row.sym] = n]
         /\ tx'.new = tx.new /\ tx'.rows = Append(tx.rows, row)
         /\ tx' = [date |-> tx.date, events |-> tx.events, todo |-> Tail(tx.todo),
                   cash |-> tx.cash + row.net, lots |-> M,
                   hold |-> [tx.hold EXCEPT ![row.sym] = n],
                   new |-> tx.new, rows |-> Append(tx.rows, row)]
BY DEF Settlement, Applied

\* The rows of the open settlement, after those of the books.
LEMMA RowAppended ==
  ASSUME BooksOK, TxOK, UNCHANGED book, NEW row \in AuditRow, tx'.rows = Append(tx.rows, row)
  PROVE  AuditNow' = Append(AuditNow, row) /\ AuditNow \in Seq(AuditRow)
<1> DEFINE a == audit
           r == tx.rows
<1>1. a \in Seq(AuditRow) /\ r \in Seq(AuditRow)
  BY DEF BooksOK, Account, TxOK, Settlement
<1>2. AuditNow' = a \o Append(r, row) /\ AuditNow = a \o r
  BY DEF AuditNow, book
<1> HIDE DEF a, r
<1>3. a \o Append(r, row) = Append(a \o r, row)
  BY <1>1, ConcatAppend
<1>4. a \o r \in Seq(AuditRow)
  BY <1>1, ConcatProperties
<1> QED BY <1>2, <1>3, <1>4

\* The money: no event takes any but a call, which the account can pay, and a
\* delisting, which is among the excuses when it costs more than it pays.
LEMMA MoneyStep ==
  ASSUME Typed, BooksOK, TxOK, tx.todo # <<>>, UNCHANGED book, NEW row \in AuditRow, row.ex = tx.date,
         tx'.cash = tx.cash + row.net, tx'.new = tx.new, tx'.rows = Append(tx.rows, row),
         row.net >= 0 \/ row.kind = "delist" \/ (IsPaid(row) /\ cash + row.net >= 0)
  PROVE  MoneyOK'
<1>1. /\ audit \in Seq(AuditRow) /\ tx.rows \in Seq(AuditRow) /\ AuditNow \in Seq(AuditRow)
      /\ AuditNow' = Append(AuditNow, row) /\ TradesNow' = TradesNow
      /\ tx.cash \in Int /\ row.net \in Int /\ tx.new = <<>>
  <2>1. audit \in Seq(AuditRow) /\ tx.rows \in Seq(AuditRow) /\ tx.cash \in Int /\ row.net \in Int
    BY DEF BooksOK, Account, TxOK, Settlement, AuditRow
  <2>2. AuditNow \in Seq(AuditRow) /\ AuditNow' = Append(AuditNow, row)
    BY RowAppended
  <2>3. TradesNow' = TradesNow /\ tx.new = <<>>
    BY DEF TradesNow, book, TxOK, RowsOK
  <2> QED BY <2>1, <2>2, <2>3
<1>2. cash' = cash /\ cash \in Int
  BY DEF book, Typed
<1>3. CASE MayOwe(TradesNow, AuditNow)
  BY <1>1, <1>3, OweRow DEF MoneyOK
<1>4. CASE ~MayOwe(TradesNow, AuditNow)
  <2>1. tx.cash >= 0 /\ (Calls(tx.rows) = {} => tx.cash >= cash)
    BY <1>1, <1>4 DEF TxOK, MoneyOK
  <2>2. CASE row.net >= 0
    <3>1. Calls(tx'.rows) = {} => Calls(tx.rows) = {}
      BY <1>1, CallsAppend
    <3>2. tx'.cash >= 0
      BY <1>1, <2>1, <2>2
    <3>3. Calls(tx'.rows) = {} => tx'.cash >= cash'
      BY <1>1, <1>2, <2>1, <2>2, <3>1
    <3> QED BY <3>2, <3>3 DEF MoneyOK
  <2>3. CASE row.kind = "delist" /\ row.net < 0
    BY <1>1, <2>3, OweRow DEF MoneyOK
  <2>4. CASE IsPaid(row) /\ cash + row.net >= 0 /\ Calls(tx.rows) = {}
    <3>1. Calls(tx'.rows) # {}
      BY <1>1, <2>4, CallsAppend
    <3>2. tx'.cash >= 0
      BY <1>1, <1>2, <2>1, <2>4
    <3> QED BY <3>1, <3>2 DEF MoneyOK
  <2>5. CASE IsPaid(row) /\ Calls(tx.rows) # {}
    <3>1. PICK i \in Calls(tx.rows) : TRUE
      BY <2>5
    <3>2. i \in DOMAIN tx.rows /\ IsPaid(tx.rows[i]) /\ tx.rows[i].ex = tx.date
      BY <3>1 DEF Calls, TxOK, RowsOK
    <3>3. Len(audit) + i \in DOMAIN AuditNow /\ AuditNow[Len(audit) + i] = tx.rows[i]
      <4> DEFINE r == tx.rows
      <4>1. audit \in Seq(AuditRow) /\ r \in Seq(AuditRow) /\ i \in DOMAIN r
        BY <1>1, <3>2
      <4> HIDE DEF r
      <4>2. Len(audit) + i \in DOMAIN (audit \o r) /\ (audit \o r)[Len(audit) + i] = r[i]
        BY <4>1, ConcatIndex
      <4> QED BY <4>2 DEF r, AuditNow
    <3>4. Len(audit) + i \in Calls(AuditNow) /\ AuditNow[Len(audit) + i].ex = row.ex
      BY <3>2, <3>3 DEF Calls
    <3> QED BY <1>1, <2>5, <3>4, OweRow DEF MoneyOK
  <2> QED BY <1>1, <2>2, <2>3, <2>4, <2>5
<1> QED BY <1>3, <1>4

\* What every handler shows of its row, its lots M and its position n: they fit
\* together, and the entitled lots get the tag of the event or go.  G has the tags
\* that each symbol gets.
RowFits(ev, kind, row) ==
    /\ row \in AuditRow /\ row.kind = kind /\ row.sym = ev.sym /\ row.ex = tx.date
    /\ row.net >= 0 \/ kind = "delist" \/ (IsPaid(row) /\ cash + row.net >= 0)
HoldFits(row, M, n) ==
    /\ \A x \in Symbols \ {row.sym} : LotsOf(M, x) = LotsOf(tx.lots, x)
    /\ n = Shares(LotsOf(M, row.sym))
    /\ n = tx.hold[row.sym] + row.shares \/ YoungCleared(Append(AuditNow, row), DaysNow, row.sym)
LotsGetTag(row, M) ==
    /\ \A l \in M : l.sym = row.sym /\ l.day < tx.date /\ l.rem > 0 => <<row.kind, tx.date>> \in l.tags
    /\ \A m \in M : m.day = tx.date =>
          (\E l \in tx.lots : l.day = tx.date /\ l.sym = m.sym) \/ (IsPaid(row) /\ m.sym = row.sym)

\* Such an event keeps all there is to keep of the settlement.
LEMMA AppliedStep ==
  ASSUME Typed, BooksOK, TxOK, Outside, NEW kind, NEW ev, Due(ev, kind),
         NEW row, NEW M, NEW n, NEW G, tx' = Applied(row, M, n),
         RowFits(ev, kind, row), HoldFits(row, M, n), LotsGetTag(row, M), Heirs(M, G),
         LotsOK(M), LotsFit(M, LotsSoFar(TradesNow, Append(AuditNow, row)), DaysNow)
  PROVE  TxOK'
<1>0. /\ row \in AuditRow /\ row.kind = kind /\ row.sym = ev.sym /\ row.ex = tx.date
      /\ row.net >= 0 \/ kind = "delist" \/ (IsPaid(row) /\ cash + row.net >= 0)
  BY DEF RowFits
<1>1. /\ tx \in Settlement /\ tx.todo # <<>> /\ ev = Head(tx.todo) /\ ev.kind = kind
      /\ UNCHANGED <<official, settled, gaps>> /\ UNCHANGED book /\ tx.new = <<>>
  BY DEF TxOK, RowsOK, Due, Outside, book
<1>2. /\ tx'.date = tx.date /\ tx'.events = tx.events /\ tx'.todo = Tail(tx.todo)
      /\ tx'.cash = tx.cash + row.net /\ tx'.lots = M
      /\ tx'.hold = [tx.hold EXCEPT ![row.sym] = n]
      /\ tx'.new = tx.new /\ tx'.rows = Append(tx.rows, row)
      /\ tx' = [date |-> tx.date, events |-> tx.events, todo |-> Tail(tx.todo),
                cash |-> tx.cash + row.net, lots |-> M,
                hold |-> [tx.hold EXCEPT ![row.sym] = n],
                new |-> tx.new, rows |-> Append(tx.rows, row)]
  BY <1>1, AppliedFields
<1>3. /\ audit \in Seq(AuditRow) /\ tx.rows \in Seq(AuditRow) /\ settled \in Seq(Days)
      /\ tx.date \in Days /\ tx.cash \in Int /\ tx.todo \in Seq(Events) /\ tx.events \in Seq(Events)
      /\ tx.hold \in [Symbols -> Int] /\ tx.new \in Seq(TradeRow)
      /\ row.net \in Int /\ row.sym \in Symbols
  BY <1>0, <1>1 DEF BooksOK, Account, Settlement, AuditRow
<1>4. n \in Nat
  <2>1. LotsOf(M, row.sym) \in SUBSET M
    BY DEF LotsOf
  <2>2. LotsOK(LotsOf(M, row.sym))
    BY <2>1, LotsSubset
  <2>3. Shares(LotsOf(M, row.sym)) \in Nat
    BY <2>2, SharesNat
  <2> QED BY <2>3 DEF HoldFits
<1>5. /\ AuditNow' = Append(AuditNow, row) /\ TradesNow' = TradesNow /\ DaysNow' = DaysNow
      /\ AuditNow \in Seq(AuditRow) /\ tx.date \in Range(DaysNow)
  <2>1. AuditNow' = Append(AuditNow, row) /\ AuditNow \in Seq(AuditRow)
    BY <1>0, <1>1, <1>2, RowAppended
  <2>2. TradesNow' = TradesNow /\ DaysNow' = DaysNow
    BY <1>1, <1>2 DEF TradesNow, DaysNow, book
  <2>3. tx.date \in Range(DaysNow)
    BY <1>3, RangeAppend DEF DaysNow
  <2> QED BY <2>1, <2>2, <2>3
<1>6. M \subseteq Lot
  BY DEF LotsOK
<1>7. tx' \in Settlement
  <2>1. Tail(tx.todo) \in Seq(Events)
    BY <1>1, <1>3, HeadTailProperties
  <2>2. Append(tx.rows, row) \in Seq(AuditRow)
    BY <1>0, <1>3, AppendProperties
  <2>3. [tx.hold EXCEPT ![row.sym] = n] \in [Symbols -> Int] /\ tx.cash + row.net \in Int
    BY <1>3, <1>4
  <2> QED BY <1>2, <1>3, <1>6, <2>1, <2>2, <2>3 DEF Settlement
<1>8. Account(M, tx'.hold, TradesNow, Append(AuditNow, row), DaysNow)
  <2>1. Account(tx.lots, tx.hold, TradesNow, AuditNow, DaysNow)
    BY DEF TxOK
  <2>2. \A i \in DOMAIN AuditNow : ~SameEvent(AuditNow[i], row)
    BY <1>0, NewEvent
  <2>3. row.ex \in Range(DaysNow) /\ row \in AuditRow
    BY <1>0, <1>5
  <2>4. tx'.hold[row.sym] = n /\ tx'.hold = [tx.hold EXCEPT ![row.sym] = Shares(LotsOf(M, row.sym))]
    BY <1>2, <1>3 DEF HoldFits
  <2>5. /\ \A x \in Symbols \ {row.sym} : LotsOf(M, x) = LotsOf(tx.lots, x)
        /\ tx'.hold[row.sym] = tx.hold[row.sym] + row.shares
             \/ YoungCleared(Append(AuditNow, row), DaysNow, row.sym)
    BY <2>4 DEF HoldFits
  <2> DEFINE L == tx.lots
             h == tx.hold
             T == TradesNow
             R == AuditNow
             D == DaysNow
             g == tx'.hold
  <2>6. /\ Account(L, h, T, R, D) /\ row \in AuditRow /\ row.ex \in Range(D)
        /\ \A i \in DOMAIN R : ~SameEvent(R[i], row)
        /\ LotsOK(M) /\ LotsFit(M, LotsSoFar(T, Append(R, row)), D)
        /\ \A x \in Symbols \ {row.sym} : LotsOf(M, x) = LotsOf(L, x)
        /\ g = [h EXCEPT ![row.sym] = Shares(LotsOf(M, row.sym))]
        /\ g[row.sym] = h[row.sym] + row.shares \/ YoungCleared(Append(R, row), D, row.sym)
    BY <2>1, <2>2, <2>3, <2>4, <2>5
  <2>7. Account(M, g, T, Append(R, row), D)
    <3> HIDE DEF L, h, T, R, D, g
    <3> QED BY <2>6, AccountRow
  <2> QED BY <2>7
<1>9. Account(tx.lots, tx.hold, TradesNow, AuditNow, DaysNow)'
  BY <1>2, <1>5, <1>8
<1>10. Heirs(tx'.lots, G) /\ tx'.lots \subseteq Lot
  BY <1>2, <1>6
<1>11. ServedOn(tx.lots, settled, Days \ gaps)'
  BY <1>1, <1>10, HeirsServed
<1>12. AllTagged(ev.kind, ev.sym)'
  BY <1>0, <1>1, <1>2 DEF AllTagged, Entitled, LotsGetTag
<1>13. EventsOK'
  BY <1>1, <1>2, <1>10, <1>12, EventsStep
<1>14. MoneyOK'
  BY <1>0, <1>1, <1>2, MoneyStep
<1>15. RowsOK'
  <2>1. /\ DOMAIN tx'.rows = DOMAIN tx.rows \cup {Len(tx.rows) + 1}
        /\ tx'.rows[Len(tx.rows) + 1] = row
        /\ \A i \in DOMAIN tx.rows : tx'.rows[i] = tx.rows[i]
    <3> DEFINE q == tx.rows
    <3>1. q \in Seq(AuditRow) /\ row \in AuditRow /\ tx'.rows = Append(q, row)
      BY <1>0, <1>2, <1>3
    <3> HIDE DEF q
    <3>2. /\ DOMAIN tx'.rows = DOMAIN q \cup {Len(q) + 1}
          /\ tx'.rows[Len(q) + 1] = row
          /\ \A i \in DOMAIN q : tx'.rows[i] = q[i]
      BY <3>1, Appended
    <3> QED BY <3>2 DEF q
  <2>2. ASSUME NEW i \in DOMAIN tx'.rows, NEW r, r = tx'.rows[i]
        PROVE  r.ex = tx.date /\ AllTagged(r.kind, r.sym)'
    <3>1. CASE i \in DOMAIN tx.rows
      <4>1. r.ex = tx.date /\ AllTagged(r.kind, r.sym)
        BY <2>1, <2>2, <3>1 DEF TxOK, RowsOK
      <4> QED BY <1>2, <1>10, <4>1, HeirsTagged
    <3>2. CASE i = Len(tx.rows) + 1
      BY <1>0, <1>1, <1>12, <2>1, <2>2, <3>2
    <3> QED BY <2>1, <3>1, <3>2
  <2>3. ASSUME NEW m \in M, m.day = tx.date
        PROVE  \E i \in Calls(tx'.rows) : tx'.rows[i].sym = m.sym
    <3>1. CASE IsPaid(row) /\ m.sym = ev.sym
      <4>1. Len(tx.rows) + 1 \in Calls(tx'.rows)
        BY <2>1, <3>1 DEF Calls
      <4> QED BY <1>0, <2>1, <3>1, <4>1
    <3>2. ASSUME NEW l \in tx.lots, l.day = tx.date, l.sym = m.sym
          PROVE  \E i \in Calls(tx'.rows) : tx'.rows[i].sym = m.sym
      <4>1. PICK i \in Calls(tx.rows) : tx.rows[i].sym = m.sym
        BY <1>1, <3>2 DEF TxOK, RowsOK
      <4> QED BY <2>1, <4>1 DEF Calls
    <3> QED BY <1>0, <2>3, <3>1, <3>2 DEF LotsGetTag
  <2> QED BY <1>1, <1>2, <2>2, <2>3 DEF RowsOK
<1> QED BY <1>1, <1>2, <1>7, <1>9, <1>11, <1>13, <1>14, <1>15 DEF TxOK

-----------------------------------------------------------------------------
(* The events, each by itself.                                             *)

LEMMA NatTimes == ASSUME NEW a \in Nat, NEW b \in Nat PROVE a * b \in Nat
OBVIOUS

LEMMA NatDiv == ASSUME NEW a \in Nat, NEW b \in Nat \ {0} PROVE a \div b \in Nat
OBVIOUS

LEMMA DueFacts ==
  ASSUME TxOK, NEW ev, NEW kind, Due(ev, kind)
  PROVE  /\ ev \in Events /\ ev.kind = kind /\ ev.sym \in Symbols /\ Legal(ev)
         /\ tx \in Settlement /\ tx.date \in Days /\ tx.hold \in [Symbols -> Int]
         /\ LotsOK(tx.lots) /\ Entitled(ev.sym) \subseteq LotsOf(tx.lots, ev.sym)
         /\ LotsFit(tx.lots, LotsSoFar(TradesNow, AuditNow), DaysNow)
         /\ tx.hold[ev.sym] = Shares(LotsOf(tx.lots, ev.sym))
<1>1. tx \in Settlement /\ tx.todo \in Seq(Events) /\ tx.todo # <<>> /\ ev = Head(tx.todo)
  BY DEF TxOK, Settlement, Due
<1>2. ev \in Events
  BY <1>1, HeadTailProperties
<1>3. ev.sym \in Symbols
  BY <1>2 DEF Events
<1> QED BY <1>1, <1>2, <1>3 DEF TxOK, Due, Account, Settlement, Entitled, LotsOf

\* The trades, the rows and the days of the open settlement, with those of the books.
LEMMA SequencesNow ==
  ASSUME BooksOK, TxOK
  PROVE  /\ trades \in Seq(TradeRow) /\ audit \in Seq(AuditRow) /\ settled \in Seq(Days)
         /\ tx.new \in Seq(TradeRow) /\ tx.rows \in Seq(AuditRow) /\ tx.date \in Days
         /\ TradesNow \in Seq(TradeRow) /\ AuditNow \in Seq(AuditRow) /\ DaysNow \in Seq(Days)
         /\ tx.date \in Range(DaysNow) /\ \A d : d \in Range(DaysNow) <=> d \in Range(settled) \/ d = tx.date
<1>1. /\ trades \in Seq(TradeRow) /\ audit \in Seq(AuditRow) /\ settled \in Seq(Days)
      /\ tx.new \in Seq(TradeRow) /\ tx.rows \in Seq(AuditRow) /\ tx.date \in Days
  BY DEF BooksOK, Account, TxOK, Settlement
<1>2. TradesNow \in Seq(TradeRow) /\ AuditNow \in Seq(AuditRow)
  BY <1>1, ConcatProperties DEF TradesNow, AuditNow
<1>3. DaysNow \in Seq(Days) /\ \A d : d \in Range(DaysNow) <=> d \in Range(settled) \/ d = tx.date
  BY <1>1, RangeAppend, AppendProperties DEF DaysNow
<1> QED BY <1>1, <1>2, <1>3

\* The tags that an event gives, by symbol.
Tags(ev) == [s \in Symbols |-> IF s = ev.sym THEN {Tag(ev)} ELSE {}]
\* f flags the entitled lots, and may change what is left of them.
Flags(f, ev) == /\ DOMAIN f = Entitled(ev.sym)
                /\ \A l \in DOMAIN f : /\ f[l].id = l.id /\ f[l].sym = l.sym /\ f[l].day = l.day
                                       /\ f[l].rem \in Nat /\ f[l].tags = l.tags \cup {Tag(ev)}
                                       /\ f[l] = [id |-> f[l].id, sym |-> f[l].sym, day |-> f[l].day,
                                                  rem |-> f[l].rem, tags |-> f[l].tags]

LEMMA FlaggedLots ==
  ASSUME BooksOK, TxOK, NEW ev, NEW kind \in Tagged, Due(ev, kind), NEW f, Flags(f, ev)
  PROVE  /\ Turns(f, tx.lots, ev.sym) /\ Replaced(f) = Turned(f, tx.lots)
         /\ Heirs(Replaced(f), Tags(ev))
         /\ LotsFit(Replaced(f), LotsSoFar(TradesNow, AuditNow), DaysNow)
         /\ \A l \in Replaced(f) :
              l.sym = ev.sym /\ l.day < tx.date /\ l.rem > 0 => Tag(ev) \in l.tags
         /\ \A m \in Replaced(f) : m.day = tx.date => m \in tx.lots
<1> DEFINE M == Replaced(f)
           n == LotsSoFar(TradesNow, AuditNow)
<1>1. /\ ev.sym \in Symbols /\ tx.date \in Days /\ tx.lots \subseteq Lot
      /\ DOMAIN f \subseteq tx.lots /\ DOMAIN f \subseteq LotsOf(tx.lots, ev.sym)
      /\ Tag(ev) = <<kind, tx.date>> /\ LotsFit(tx.lots, n, DaysNow)
      /\ \A l \in DOMAIN f : l.sym = ev.sym /\ l.day < tx.date /\ l.rem > 0
  BY DueFacts DEF Flags, LotsOf, LotsOK, Tag, Entitled
<1>2. ASSUME NEW l \in DOMAIN f
      PROVE  f[l] \in Lot /\ f[l].id = l.id /\ f[l].sym = l.sym /\ f[l].day = l.day
             /\ f[l].tags = l.tags \cup {Tag(ev)}
  <2>1. l \in Lot /\ Tag(ev) \in Tagged \X Days
    BY <1>1
  <2> QED BY <2>1 DEF Flags, Lot
<1>3. \A m \in M : (m \in tx.lots /\ m \notin DOMAIN f) \/ \E l \in DOMAIN f : m = f[l]
  BY DEF Replaced, Range
<1>4. Turns(f, tx.lots, ev.sym) /\ M = Turned(f, tx.lots)
  BY <1>1, <1>2 DEF Turns, Replaced, Turned
<1>5. Heirs(M, Tags(ev))
  <2> SUFFICES ASSUME NEW m \in M, m.day # tx.date
               PROVE  \E l \in tx.lots :
                 /\ l.sym = m.sym /\ l.day = m.day /\ (m.rem > 0 => l.rem > 0)
                 /\ m.tags = l.tags \cup (IF l \in Entitled(l.sym) THEN Tags(ev)[m.sym] ELSE {})
    BY DEF Heirs
  <2>1. CASE m \in tx.lots /\ m \notin DOMAIN f
    <3>1. m.sym \in Symbols
      BY <1>1, <2>1 DEF Lot
    <3>2. m.sym = ev.sym => m \notin Entitled(m.sym)
      BY <2>1 DEF Flags
    <3>3. m.sym # ev.sym => Tags(ev)[m.sym] = {}
      BY <3>1 DEF Tags
    <3> QED BY <2>1, <3>2, <3>3
  <2>2. ASSUME NEW l \in DOMAIN f, m = f[l]
        PROVE  /\ l \in tx.lots /\ l.sym = m.sym /\ l.day = m.day /\ (m.rem > 0 => l.rem > 0)
               /\ m.tags = l.tags \cup (IF l \in Entitled(l.sym) THEN Tags(ev)[m.sym] ELSE {})
    <3>1. l \in Entitled(l.sym) /\ Tags(ev)[m.sym] = {Tag(ev)}
      BY <1>1, <1>2, <2>2 DEF Flags, Tags
    <3> QED BY <1>1, <1>2, <2>2, <3>1
  <2> QED BY <1>3, <2>1, <2>2
<1>6. LotsFit(M, n, DaysNow)
  <2>1. tx.date \in Range(DaysNow)
    BY SequencesNow
  <2> SUFFICES ASSUME NEW m \in M
               PROVE  /\ m.id <= n /\ m.day \in Range(DaysNow)
                      /\ \A k \in Tagged, d \in Days : <<k, d>> \in m.tags => d \in Range(DaysNow)
    BY DEF LotsFit
  <2>2. CASE m \in tx.lots
    BY <1>1, <2>2 DEF LotsFit
  <2>3. ASSUME NEW l \in DOMAIN f, m = f[l]
        PROVE  /\ m.id <= n /\ m.day \in Range(DaysNow)
               /\ \A k \in Tagged, d \in Days : <<k, d>> \in m.tags => d \in Range(DaysNow)
    <3>1. /\ l.id <= n /\ l.day \in Range(DaysNow)
          /\ \A k \in Tagged, d \in Days : <<k, d>> \in l.tags => d \in Range(DaysNow)
      BY <1>1 DEF LotsFit
    <3>2. m.id = l.id /\ m.day = l.day /\ m.tags = l.tags \cup {<<kind, tx.date>>}
      BY <1>1, <1>2, <2>3
    <3> QED BY <2>1, <3>1, <3>2
  <2> QED BY <1>3, <2>2, <2>3
<1>7. ASSUME NEW l \in M, l.sym = ev.sym, l.day < tx.date, l.rem > 0 PROVE Tag(ev) \in l.tags
  BY <1>2, <1>3, <1>7 DEF Flags, Entitled
<1>8. ASSUME NEW m \in M, m.day = tx.date PROVE m \in tx.lots
  <2>1. ASSUME NEW l \in DOMAIN f, m = f[l] PROVE FALSE
    <3>1. l.day = tx.date /\ l.day < tx.date
      BY <1>1, <1>2, <1>8, <2>1
    <3> QED BY <1>1, <3>1 DEF Days
  <2> QED BY <1>3, <2>1
<1> QED BY <1>4, <1>5, <1>6, <1>7, <1>8

\* An event that only turns the entitled lots.
LEMMA FlagStep ==
  ASSUME Typed, BooksOK, TxOK, Outside, NEW ev, NEW kind \in Tagged, Due(ev, kind),
         NEW f, Flags(f, ev), NEW row, RowFits(ev, kind, row), ~IsPaid(row), NEW n,
         n = Shares(LotsOf(Replaced(f), ev.sym)), n = tx.hold[ev.sym] + row.shares,
         tx' = Applied(row, Replaced(f), n)
  PROVE  TxOK'
<1> DEFINE M == Replaced(f)
<1>1. /\ Turns(f, tx.lots, ev.sym) /\ M = Turned(f, tx.lots)
      /\ Heirs(M, Tags(ev)) /\ LotsFit(M, LotsSoFar(TradesNow, AuditNow), DaysNow)
      /\ \A l \in M : l.sym = ev.sym /\ l.day < tx.date /\ l.rem > 0 => Tag(ev) \in l.tags
      /\ \A m \in M : m.day = tx.date => m \in tx.lots
  BY FlaggedLots
<1>2. /\ LotsOK(tx.lots) /\ ev.sym \in Symbols /\ Tag(ev) = <<kind, tx.date>>
  BY DueFacts DEF Tag
<1>3. row \in AuditRow /\ row.sym = ev.sym /\ row.kind = kind
  BY DEF RowFits
<1> HIDE DEF M
<1>4. LotsOK(M) /\ \A x \in Symbols \ {ev.sym} : LotsOf(M, x) = LotsOf(tx.lots, x)
  BY <1>1, <1>2, TurnedShares
<1>5. LotsFit(M, LotsSoFar(TradesNow, Append(AuditNow, row)), DaysNow)
  <2>1. LotsSoFar(TradesNow, Append(AuditNow, row)) = LotsSoFar(TradesNow, AuditNow)
    <3>1. LotsSoFar(TradesNow, AuditNow) \in Nat
      BY SequencesNow, LotsSoFarNat
    <3> QED BY <1>3, <3>1, SequencesNow, RowCounts
  <2> QED BY <1>1, <2>1
<1>6. HoldFits(row, M, n)
  BY <1>3, <1>4 DEF HoldFits, M
<1>7. LotsGetTag(row, M)
  BY <1>1, <1>2, <1>3 DEF LotsGetTag
<1>8. tx' = Applied(row, M, n)
  BY DEF M
<1> QED BY <1>1, <1>4, <1>5, <1>6, <1>7, <1>8, AppliedStep

\* Lots that only get the tag keep their shares.
LEMMA OnlyFlagged ==
  ASSUME BooksOK, TxOK, NEW ev, NEW kind \in Tagged, Due(ev, kind),
         NEW f, f = [l \in Entitled(ev.sym) |-> Flagged(l, ev)]
  PROVE  /\ Flags(f, ev)
         /\ tx.hold[ev.sym] = Shares(LotsOf(Replaced(f), ev.sym))
<1>1. /\ LotsOK(tx.lots) /\ ev.sym \in Symbols /\ Entitled(ev.sym) \subseteq LotsOf(tx.lots, ev.sym)
      /\ tx.hold[ev.sym] = Shares(LotsOf(tx.lots, ev.sym))
  BY DueFacts
<1>2. \A l \in Entitled(ev.sym) : l \in Lot
  BY <1>1 DEF LotsOf, LotsOK
<1>3. Flags(f, ev)
  BY <1>2 DEF Flags, Flagged, Lot
<1>4. RemAfter(f) = Shares(DOMAIN f)
  <2>1. [l \in DOMAIN f |-> f[l].rem] = [l \in DOMAIN f |-> l.rem]
    BY <1>2 DEF Flagged, Lot
  <2> QED BY <2>1 DEF RemAfter, Shares
<1>5. Turns(f, tx.lots, ev.sym) /\ Replaced(f) = Turned(f, tx.lots)
  BY <1>3, FlaggedLots
<1>6. /\ Shares(LotsOf(Turned(f, tx.lots), ev.sym)) \in Nat /\ Shares(LotsOf(tx.lots, ev.sym)) \in Nat
      /\ Shares(DOMAIN f) \in Nat /\ RemAfter(f) \in Nat
      /\ Shares(LotsOf(Turned(f, tx.lots), ev.sym)) + Shares(DOMAIN f)
           = Shares(LotsOf(tx.lots, ev.sym)) + RemAfter(f)
  BY <1>1, <1>5, TurnedShares
<1>7. Shares(LotsOf(Turned(f, tx.lots), ev.sym)) = Shares(LotsOf(tx.lots, ev.sym))
  BY <1>4, <1>6
<1> QED BY <1>1, <1>3, <1>5, <1>7

LEMMA SplitStep ==
  ASSUME Typed, BooksOK, TxOK, NEW ev, Split(ev)
  PROVE  TxOK'
<1> DEFINE f == [l \in Entitled(ev.sym) |-> Grown(l, ev)]
           L == Replaced(f)
           now == Shares(LotsOf(L, ev.sym))
           row == Row(ev, "rewritten", now - Shares(LotsOf(tx.lots, ev.sym)), 0)
<1>1. /\ Due(ev, "split") /\ Outside /\ tx' = Applied(row, L, now) /\ "split" \in Tagged
  BY DEF Split, Tagged
<1>2. /\ LotsOK(tx.lots) /\ ev.sym \in Symbols /\ Entitled(ev.sym) \subseteq LotsOf(tx.lots, ev.sym)
      /\ tx.hold[ev.sym] = Shares(LotsOf(tx.lots, ev.sym)) /\ tx.date \in Days
      /\ ev \in Events /\ ev.kind = "split" /\ Legal(ev)
  BY <1>1, DueFacts
<1>3. ev.num \in Nat /\ ev.den \in Nat \ {0}
  BY <1>2 DEF Events, Legal
<1>4. \A l \in Entitled(ev.sym) : l \in Lot
  BY <1>2 DEF LotsOf, LotsOK
<1>5. \A l \in Entitled(ev.sym) : (l.rem * (ev.num + ev.den)) \div ev.den \in Nat
  <2> SUFFICES ASSUME NEW l \in Entitled(ev.sym)
               PROVE  (l.rem * (ev.num + ev.den)) \div ev.den \in Nat
    OBVIOUS
  <2>1. l.rem \in Nat /\ ev.num + ev.den \in Nat
    BY <1>3, <1>4 DEF Lot
  <2>2. l.rem * (ev.num + ev.den) \in Nat
    BY <2>1, NatTimes
  <2> QED BY <1>3, <2>2, NatDiv
<1>6. Flags(f, ev)
  BY <1>4, <1>5 DEF Flags, Grown, Flagged, Lot
<1>7. now \in Nat /\ Shares(LotsOf(tx.lots, ev.sym)) \in Nat
  <2>1. Turns(f, tx.lots, ev.sym) /\ L = Turned(f, tx.lots)
    BY <1>1, <1>6, FlaggedLots
  <2> HIDE DEF f
  <2>2. Shares(LotsOf(Turned(f, tx.lots), ev.sym)) \in Nat /\ Shares(LotsOf(tx.lots, ev.sym)) \in Nat
    BY <1>2, <2>1, TurnedShares
  <2> QED BY <2>1, <2>2
<1>8. now = tx.hold[ev.sym] + row.shares
  <2> HIDE DEF now
  <2> QED BY <1>2, <1>7 DEF Row
<1>9. RowFits(ev, "split", row) /\ ~IsPaid(row)
  <2> HIDE DEF now
  <2> QED BY <1>2, <1>7 DEF RowFits, Row, AuditRow, Tagged, IsPaid
<1> HIDE DEF f, row
<1> QED BY <1>1, <1>6, <1>8, <1>9, FlagStep

\* The tax is less than the dividend.
LEMMA NetNat ==
  ASSUME NEW l, l.rem \in Nat, NEW ev, ev.dps \in Nat
  PROVE  NetOfTax(l, ev) \in Nat
<1> DEFINE x == l.rem * ev.dps
<1>1. x \in Nat
  BY NatTimes
<1>2. TaxRate(l.day) \in {0, 10, 20}
  BY DEF TaxRate
<1> HIDE DEF x
<1>3. (x * TaxRate(l.day) + 50) \div 100 \in 0..x
  <2>1. (x * 0 + 50) \div 100 \in 0..x /\ (x * 10 + 50) \div 100 \in 0..x /\ (x * 20 + 50) \div 100 \in 0..x
    BY <1>1
  <2> QED BY <1>2, <2>1
<1> QED BY <1>1, <1>3 DEF NetOfTax, x

LEMMA DividendStep ==
  ASSUME Typed, BooksOK, TxOK, NEW ev, Dividend(ev)
  PROVE  TxOK'
<1> DEFINE f == [l \in Entitled(ev.sym) |-> Flagged(l, ev)]
           g == [l \in Entitled(ev.sym) |-> NetOfTax(l, ev)]
           net == SumFunction(g)
           row == Row(ev, "credited", 0, net)
           n == tx.hold[ev.sym]
<1>1. /\ Due(ev, "dividend") /\ Outside /\ tx' = Applied(row, Replaced(f), n) /\ "dividend" \in Tagged
  BY DEF Dividend, Tagged
<1>2. /\ LotsOK(tx.lots) /\ ev.sym \in Symbols /\ Entitled(ev.sym) \subseteq LotsOf(tx.lots, ev.sym)
      /\ tx.hold \in [Symbols -> Int] /\ tx.date \in Days
      /\ ev \in Events /\ ev.kind = "dividend" /\ Legal(ev)
  BY <1>1, DueFacts
<1>3. net \in Nat
  <2>1. ev.dps \in Nat
    BY <1>2 DEF Events, Legal
  <2>2. \A l \in Entitled(ev.sym) : l.rem \in Nat
    BY <1>2 DEF LotsOf, LotsOK, Lot
  <2>3. IsFiniteSet(DOMAIN g) /\ \A l \in DOMAIN g : g[l] \in Nat
    <3>1. IsFiniteSet(Entitled(ev.sym))
      BY <1>2, FS_Subset DEF LotsOK, LotsOf
    <3> QED BY <2>1, <2>2, <3>1, NetNat
  <2> HIDE DEF g
  <2> QED BY <2>3, FunSumNat
<1>4. Flags(f, ev) /\ n = Shares(LotsOf(Replaced(f), ev.sym))
  <2> HIDE DEF row
  <2> QED BY <1>1, OnlyFlagged
<1>5. RowFits(ev, "dividend", row) /\ ~IsPaid(row) /\ n = n + row.shares
  <2> HIDE DEF net
  <2>1. n \in Int
    BY <1>2
  <2>2. row \in AuditRow
    BY <1>2, <1>3 DEF Row, AuditRow, Tagged
  <2> QED BY <1>2, <1>3, <2>1, <2>2 DEF RowFits, Row, IsPaid
<1> HIDE DEF f, row
<1> QED BY <1>1, <1>4, <1>5, FlagStep

\* The offer not taken up: the lots get the tag, and a row says so.
LEMMA UnpaidStep ==
  ASSUME Typed, BooksOK, TxOK, NEW ev, Due(ev, "rights"), Outside,
         NEW result \in {"waived", "declined"},
         tx' = Applied(Row(ev, result, 0, 0),
                       Replaced([l \in Entitled(ev.sym) |-> Flagged(l, ev)]), tx.hold[ev.sym])
  PROVE  TxOK'
<1> DEFINE f == [l \in Entitled(ev.sym) |-> Flagged(l, ev)]
           row == Row(ev, result, 0, 0)
           n == tx.hold[ev.sym]
<1>1. "rights" \in Tagged /\ tx' = Applied(row, Replaced(f), n)
  BY DEF Tagged
<1>2. ev.sym \in Symbols /\ tx.hold \in [Symbols -> Int] /\ tx.date \in Days /\ ev.kind = "rights"
  BY DueFacts
<1>3. Flags(f, ev) /\ n = Shares(LotsOf(Replaced(f), ev.sym))
  <2> HIDE DEF row
  <2> QED BY <1>1, OnlyFlagged
<1>4. RowFits(ev, "rights", row) /\ ~IsPaid(row) /\ n = n + row.shares
  <2>1. n \in Int
    BY <1>2
  <2>2. row \in AuditRow
    BY <1>2 DEF Row, AuditRow, Tagged
  <2> QED BY <1>2, <2>1, <2>2 DEF RowFits, Row, IsPaid
<1> HIDE DEF f, row
<1> QED BY <1>1, <1>3, <1>4, FlagStep

\* A new lot, with the next id.
LEMMA LotAdded ==
  ASSUME NEW M, LotsOK(M), NEW n \in Nat, NEW D, LotsFit(M, n, D),
         NEW y \in Lot, y.id = n + 1, y.day \in Range(D),
         \A k \in Tagged, d \in Days : <<k, d>> \in y.tags => d \in Range(D)
  PROVE  /\ LotsOK(M \cup {y}) /\ LotsFit(M \cup {y}, n + 1, D)
         /\ \A x \in Symbols \ {y.sym} : LotsOf(M \cup {y}, x) = LotsOf(M, x)
         /\ Shares(LotsOf(M, y.sym)) \in Nat
         /\ Shares(LotsOf(M \cup {y}, y.sym)) = Shares(LotsOf(M, y.sym)) + y.rem
<1>1. \A l \in M : l.id \in Int /\ l.id <= n /\ l.id # y.id
  BY DEF LotsFit, LotsOK, Lot
<1>2. LotsOK(M \cup {y})
  <2>1. IsFiniteSet(M \cup {y})
    BY FS_AddElement DEF LotsOK
  <2>2. \A l, m \in M \cup {y} : l.id = m.id => l = m
    BY <1>1 DEF LotsOK
  <2> QED BY <2>1, <2>2 DEF LotsOK
<1>3. LotsFit(M \cup {y}, n + 1, D)
  BY <1>1 DEF LotsFit
<1>4. \A x \in Symbols \ {y.sym} : LotsOf(M \cup {y}, x) = LotsOf(M, x)
  BY DEF LotsOf
<1> DEFINE K == LotsOf(M, y.sym)
<1>5. y \notin K /\ LotsOf(M \cup {y}, y.sym) = K \cup {y}
  BY <1>1 DEF LotsOf
<1>6. LotsOf(M \cup {y}, y.sym) \in SUBSET (M \cup {y}) /\ K \in SUBSET M
  BY DEF LotsOf
<1>7. LotsOK(LotsOf(M \cup {y}, y.sym)) /\ LotsOK(K)
  BY <1>2, <1>6, LotsSubset
<1> HIDE DEF K
<1>8. Shares(K \cup {y}) = Shares(K) + y.rem
  BY <1>5, <1>7, SharesAdd
<1>9. Shares(K) \in Nat
  BY <1>7, SharesNat
<1> QED BY <1>2, <1>3, <1>4, <1>5, <1>8, <1>9 DEF K

\* The call: a new lot dated today, paid out of what the account had before the day.
LEMMA PaidStep ==
  ASSUME Typed, BooksOK, TxOK, NEW ev, Due(ev, "rights"), Outside,
         NEW sub \in Nat, NEW pay \in Int, cash >= pay, NextLot <= MaxLots,
         tx' = Applied(Row(ev, "paid", sub, -pay),
                       Replaced([l \in Entitled(ev.sym) |-> Flagged(l, ev)])
                         \cup {NewLot(ev.sym, sub, {Tag(ev)})},
                       tx.hold[ev.sym] + sub)
  PROVE  TxOK'
<1> DEFINE f == [l \in Entitled(ev.sym) |-> Flagged(l, ev)]
           L == Replaced(f)
           y == NewLot(ev.sym, sub, {Tag(ev)})
           M == L \cup {y}
           row == Row(ev, "paid", sub, -pay)
           n == tx.hold[ev.sym] + sub
           k == LotsSoFar(TradesNow, AuditNow)
<1>1. "rights" \in Tagged /\ tx' = Applied(row, M, n)
  BY DEF Tagged
<1>2. /\ ev.sym \in Symbols /\ tx.hold \in [Symbols -> Int] /\ tx.date \in Days
      /\ ev.kind = "rights" /\ LotsOK(tx.lots) /\ Tag(ev) = <<"rights", tx.date>>
  BY DueFacts DEF Tag
<1>3. k \in Nat /\ tx.date \in Range(DaysNow) /\ AuditNow \in Seq(AuditRow) /\ TradesNow \in Seq(TradeRow)
  BY SequencesNow, LotsSoFarNat
<1>4. Flags(f, ev) /\ tx.hold[ev.sym] = Shares(LotsOf(L, ev.sym))
  <2> HIDE DEF row, y
  <2> QED BY <1>1, OnlyFlagged
<1>5. /\ Turns(f, tx.lots, ev.sym) /\ L = Turned(f, tx.lots)
      /\ Heirs(L, Tags(ev)) /\ LotsFit(L, k, DaysNow)
      /\ \A l \in L : l.sym = ev.sym /\ l.day < tx.date /\ l.rem > 0 => Tag(ev) \in l.tags
      /\ \A m \in L : m.day = tx.date => m \in tx.lots
  <2> HIDE DEF f, row, y
  <2> QED BY <1>1, <1>4, FlaggedLots
<1>6. LotsOK(L) /\ \A x \in Symbols \ {ev.sym} : LotsOf(L, x) = LotsOf(tx.lots, x)
  <2> HIDE DEF f, row, y
  <2> QED BY <1>2, <1>5, TurnedShares
<1>7. /\ y \in Lot /\ y.id = k + 1 /\ y.day = tx.date /\ y.sym = ev.sym /\ y.rem = sub
      /\ y.tags = {<<"rights", tx.date>>}
  <2>1. NextLot = k + 1 /\ k + 1 \in 1..MaxLots
    BY <1>3, LotIdAssumption DEF NextLot, TradesNow, AuditNow
  <2> QED BY <1>1, <1>2, <2>1 DEF NewLot, Lot
<1>8. /\ row \in AuditRow /\ row.sym = ev.sym /\ row.kind = "rights" /\ IsPaid(row)
      /\ row.shares = sub /\ row.net = -pay /\ row.ex = tx.date
  BY <1>1, <1>2 DEF Row, AuditRow, IsPaid
<1> HIDE DEF f, L, y, row, k
<1>9. /\ LotsOK(M) /\ LotsFit(M, k + 1, DaysNow)
      /\ \A x \in Symbols \ {ev.sym} : LotsOf(M, x) = LotsOf(L, x)
      /\ Shares(LotsOf(M, ev.sym)) = Shares(LotsOf(L, ev.sym)) + sub
  <2> HIDE DEF M
  <2>1. /\ LotsOK(L) /\ k \in Nat /\ LotsFit(L, k, DaysNow)
        /\ y \in Lot /\ y.id = k + 1 /\ y.day \in Range(DaysNow)
        /\ \A q \in Tagged, d \in Days : <<q, d>> \in y.tags => d \in Range(DaysNow)
    BY <1>3, <1>5, <1>6, <1>7
  <2>2. /\ LotsOK(L \cup {y}) /\ LotsFit(L \cup {y}, k + 1, DaysNow)
        /\ \A x \in Symbols \ {y.sym} : LotsOf(L \cup {y}, x) = LotsOf(L, x)
        /\ Shares(LotsOf(L \cup {y}, y.sym)) = Shares(LotsOf(L, y.sym)) + y.rem
    BY <2>1, LotAdded
  <2> QED BY <1>7, <2>2 DEF M
<1>10. LotsFit(M, LotsSoFar(TradesNow, Append(AuditNow, row)), DaysNow)
  <2>1. LotsSoFar(TradesNow, Append(AuditNow, row)) = k + 1
    BY <1>3, <1>8, RowCounts DEF k
  <2> QED BY <1>9, <2>1
<1>11. Heirs(M, Tags(ev))
  BY <1>5, <1>7 DEF Heirs
<1>12. LotsGetTag(row, M)
  BY <1>2, <1>5, <1>7, <1>8 DEF LotsGetTag
<1>13. HoldFits(row, M, n)
  BY <1>4, <1>6, <1>8, <1>9 DEF HoldFits
<1>14. RowFits(ev, "rights", row)
  <2>1. cash + row.net >= 0
    BY <1>8 DEF Typed
  <2> QED BY <1>8, <2>1 DEF RowFits
<1>15. tx' = Applied(row, M, n)
  BY <1>1
<1> HIDE DEF M, n
<1> QED BY <1>9, <1>10, <1>11, <1>12, <1>13, <1>14, <1>15, AppliedStep

LEMMA RightsStep ==
  ASSUME Typed, BooksOK, TxOK, NEW ev, Rights(ev)
  PROVE  TxOK'
<1> DEFINE sub == (Shares(Entitled(ev.sym)) * ev.num) \div ev.den
           pay == sub * ev.price
<1>1. Due(ev, "rights") /\ Outside
  BY DEF Rights
<1>2. sub \in Nat /\ pay \in Int
  <2>1. /\ ev \in Events /\ ev.kind = "rights" /\ Legal(ev)
        /\ LotsOK(tx.lots) /\ Entitled(ev.sym) \in SUBSET tx.lots
    BY <1>1, DueFacts DEF LotsOf
  <2>2. ev.num \in Nat /\ ev.den \in Nat \ {0} /\ ev.price \in Int
    BY <2>1 DEF Events, Legal
  <2>3. LotsOK(Entitled(ev.sym))
    BY <2>1, LotsSubset
  <2>4. Shares(Entitled(ev.sym)) \in Nat
    BY <2>3, SharesNat
  <2>5. sub \in Nat
    BY <2>2, <2>4, NatTimes, NatDiv
  <2> HIDE DEF sub
  <2> QED BY <2>2, <2>5
<1>3. \/ \E result \in {"waived", "declined"} :
           tx' = Applied(Row(ev, result, 0, 0),
                         Replaced([l \in Entitled(ev.sym) |-> Flagged(l, ev)]), tx.hold[ev.sym])
      \/ /\ cash >= pay /\ NextLot <= MaxLots
         /\ tx' = Applied(Row(ev, "paid", sub, -pay),
                          Replaced([l \in Entitled(ev.sym) |-> Flagged(l, ev)])
                            \cup {NewLot(ev.sym, sub, {Tag(ev)})},
                          tx.hold[ev.sym] + sub)
  BY DEF Rights, Affords
<1> HIDE DEF sub, pay
<1> QED BY <1>1, <1>2, <1>3, UnpaidStep, PaidStep

NoTags == [s \in Symbols |-> {}]
LEMMA OldLots ==
  ASSUME tx.lots \subseteq Lot, NEW M \in SUBSET tx.lots
  PROVE  Heirs(M, NoTags)
<1> SUFFICES ASSUME NEW m \in M
             PROVE  m.tags = m.tags \cup (IF m \in Entitled(m.sym) THEN NoTags[m.sym] ELSE {})
  BY DEF Heirs
<1>1. NoTags[m.sym] = {}
  BY DEF NoTags, Lot
<1> QED BY <1>1

LEMMA FewerLotsFit ==
  ASSUME NEW L, NEW n, NEW D, LotsFit(L, n, D), NEW M \in SUBSET L
  PROVE  LotsFit(M, n, D)
BY DEF LotsFit

\* A delisting that finds lots too young for it: they are of a later day, settled
\* before, or of today's call.
LEMMA YoungLots ==
  ASSUME BooksOK, TxOK, tx.todo # <<>>, NEW l \in tx.lots, ~(l.day < tx.date),
         NEW row \in AuditRow, row.kind = "delist", row.sym = l.sym, row.ex = tx.date
  PROVE  YoungCleared(Append(AuditNow, row), DaysNow, l.sym)
<1> DEFINE R == Append(AuditNow, row)
           n == Len(AuditNow) + 1
<1>1. /\ settled \in Seq(Days) /\ AuditNow \in Seq(AuditRow) /\ tx.date \in Days
      /\ audit \in Seq(AuditRow) /\ tx.rows \in Seq(AuditRow)
      /\ \A d : d \in Range(DaysNow) <=> d \in Range(settled) \/ d = tx.date
  BY SequencesNow
<1>2. /\ DOMAIN R = DOMAIN AuditNow \cup {n} /\ R[n] = row
      /\ \A i \in DOMAIN AuditNow : R[i] = AuditNow[i]
  BY <1>1, Appended
<1>3. l \in Lot /\ l.day \in Range(DaysNow) /\ l.day \in Days
  BY DEF TxOK, Account, LotsOK, LotsFit, Lot
<1> HIDE DEF R, n
<1>4. CASE l.day # tx.date
  <2>1. l.day > tx.date /\ l.day \in Range(settled)
    BY <1>1, <1>3, <1>4 DEF Days
  <2>2. PICK i \in DOMAIN settled : settled[i] = l.day
    BY <2>1 DEF Range
  <2>3. /\ DOMAIN DaysNow = DOMAIN settled \cup {Len(settled) + 1} /\ DaysNow[Len(settled) + 1] = tx.date
        /\ DaysNow[i] = settled[i] /\ i < Len(settled) + 1
    BY <1>1, <2>2, Appended DEF DaysNow
  <2>4. SettledAfterLater(DaysNow, tx.date)
    BY <2>1, <2>2, <2>3 DEF SettledAfterLater
  <2> QED BY <1>2, <2>4 DEF YoungCleared, R
<1>5. CASE l.day = tx.date
  <2>1. PICK i \in Calls(tx.rows) : tx.rows[i].sym = l.sym
    BY <1>5 DEF TxOK, RowsOK
  <2>2. i \in DOMAIN tx.rows /\ IsPaid(tx.rows[i]) /\ tx.rows[i].ex = tx.date
    BY <2>1 DEF Calls, TxOK, RowsOK
  <2>3. Len(audit) + i \in DOMAIN AuditNow /\ AuditNow[Len(audit) + i] = tx.rows[i]
    BY <1>1, <2>2, ConcatIndex DEF AuditNow
  <2>4. Len(audit) + i \in Calls(R) /\ R[Len(audit) + i] = tx.rows[i]
    BY <1>2, <2>2, <2>3 DEF Calls
  <2>5. CallThatDay(R, l.sym, tx.date)
    BY <2>1, <2>2, <2>4 DEF CallThatDay
  <2> QED BY <1>2, <2>5 DEF YoungCleared, R
<1> QED BY <1>4, <1>5

LEMMA DelistStep ==
  ASSUME Typed, BooksOK, TxOK, NEW ev, Delist(ev)
  PROVE  TxOK'
<1> DEFINE E == Entitled(ev.sym)
           qty == Shares(E)
           amt == qty * ev.price
           row == IF ev.zero THEN Row(ev, "zeroed", -qty, 0)
                  ELSE Row(ev, "cleared", -qty, amt - Fee(amt, "sell"))
           M == Cleared(ev.sym)
           L == LotsOf(tx.lots, ev.sym)
<1>1. Due(ev, "delist") /\ Outside /\ tx' = Applied(row, M, 0) /\ tx.todo # <<>>
  BY DEF Delist, Due
<1>2. /\ ev.sym \in Symbols /\ tx.hold \in [Symbols -> Int] /\ tx.date \in Days
      /\ ev.kind = "delist" /\ LotsOK(tx.lots) /\ ev \in Events
      /\ LotsFit(tx.lots, LotsSoFar(TradesNow, AuditNow), DaysNow)
      /\ tx.hold[ev.sym] = Shares(L)
  BY <1>1, DueFacts
<1>3. E \in SUBSET L /\ L \in SUBSET tx.lots /\ M \in SUBSET tx.lots
  BY DEF LotsOf, Cleared, Entitled
<1>4. LotsOK(E) /\ LotsOK(L) /\ LotsOK(M)
  <2>1. E \in SUBSET tx.lots
    BY <1>3
  <2> HIDE DEF E, L, M
  <2> QED BY <1>2, <1>3, <2>1, LotsSubset
<1>5. qty \in Nat /\ amt \in Int /\ Fee(amt, "sell") \in Int
  <2>1. qty \in Nat
    <3> HIDE DEF E
    <3> QED BY <1>4, SharesNat
  <2>2. ev.price \in Int
    BY <1>2 DEF Events
  <2>3. amt \in Int
    <3> HIDE DEF qty
    <3> QED BY <2>1, <2>2
  <2>4. Fee(amt, "sell") \in Int
    <3> HIDE DEF amt
    <3> QED BY <2>3, MoneyAssumption DEF Fee, Larger
  <2> QED BY <2>1, <2>3, <2>4
<1>6. /\ row \in AuditRow /\ row.kind = "delist" /\ row.sym = ev.sym /\ row.ex = tx.date
      /\ row.shares = -qty /\ ~IsPaid(row)
  <2> HIDE DEF qty, amt
  <2> QED BY <1>2, <1>5 DEF Row, AuditRow, IsPaid
<1>7. /\ LotsOf(M, ev.sym) = {} /\ Shares({}) = 0
      /\ \A x \in Symbols \ {ev.sym} : LotsOf(M, x) = LotsOf(tx.lots, x)
  BY SharesEmpty DEF LotsOf, Cleared
<1> HIDE DEF row, amt
<1>8. 0 = tx.hold[ev.sym] + row.shares \/ YoungCleared(Append(AuditNow, row), DaysNow, ev.sym)
  <2>1. CASE \A l \in L \ E : l.rem = 0
    <3>1. L \ E \in SUBSET L
      OBVIOUS
    <3>2. Shares(L) = Shares(E) + Shares(L \ E) /\ LotsOK(L \ E)
      <4>1. L = E \cup (L \ E) /\ E \cap (L \ E) = {}
        BY <1>3
      <4> HIDE DEF E, L
      <4> QED BY <1>4, <3>1, <4>1, SharesSplit, LotsSubset
    <3>3. Shares(L \ E) = 0
      <4> HIDE DEF E, L
      <4> QED BY <2>1, <3>2, SharesOfEmptyLots
    <3> HIDE DEF E, L
    <3> QED BY <1>2, <1>5, <1>6, <3>2, <3>3
  <2>2. CASE \E l \in L \ E : l.rem # 0
    <3>1. PICK l \in L \ E : l.rem # 0
      BY <2>2
    <3>2. l \in tx.lots /\ l.sym = ev.sym /\ l.rem > 0
      <4>1. l \in tx.lots /\ l.sym = ev.sym
        BY DEF LotsOf
      <4>2. l.rem \in Nat
        BY <1>2, <4>1 DEF LotsOK, Lot
      <4> QED BY <3>1, <4>1, <4>2
    <3>3. ~(l.day < tx.date)
      BY <3>1, <3>2 DEF Entitled
    <3> HIDE DEF E, L
    <3> QED BY <1>1, <1>6, <3>2, <3>3, YoungLots
  <2> QED BY <2>1, <2>2
<1> HIDE DEF E, L, M, qty
<1>9. HoldFits(row, M, 0)
  BY <1>6, <1>7, <1>8 DEF HoldFits
<1>10. LotsGetTag(row, M)
  BY <1>3, <1>6 DEF LotsGetTag, M, Cleared
<1>11. RowFits(ev, "delist", row)
  BY <1>6 DEF RowFits
<1>12. Heirs(M, NoTags)
  BY <1>2, <1>3, OldLots DEF LotsOK
<1>13. LotsFit(M, LotsSoFar(TradesNow, Append(AuditNow, row)), DaysNow)
  <2>1. AuditNow \in Seq(AuditRow) /\ TradesNow \in Seq(TradeRow) /\ LotsSoFar(TradesNow, AuditNow) \in Nat
    BY SequencesNow, LotsSoFarNat
  <2>2. LotsSoFar(TradesNow, Append(AuditNow, row)) = LotsSoFar(TradesNow, AuditNow)
    BY <1>6, <2>1, RowCounts
  <2> QED BY <1>2, <1>3, <2>2, FewerLotsFit
<1> QED BY <1>1, <1>4, <1>9, <1>10, <1>11, <1>12, <1>13, AppliedStep

LEMMA NothingDueStep ==
  ASSUME Typed, BooksOK, TxOK, NEW ev, NothingDue(ev)
  PROVE  TxOK'
<1>1. /\ tx \in Settlement /\ tx.todo # <<>> /\ ev = Head(tx.todo) /\ Legal(ev)
      /\ Entitled(ev.sym) = {} \/ (ev.kind # "delist" /\ Handled(ev))
      /\ UNCHANGED <<official, settled, gaps>> /\ UNCHANGED book
      /\ tx.todo \in Seq(Events)
  BY DEF NothingDue, TxOK, Outside, book, Settlement
<1>2. /\ tx' = [date |-> tx.date, events |-> tx.events, todo |-> Tail(tx.todo), cash |-> tx.cash,
                lots |-> tx.lots, hold |-> tx.hold, new |-> tx.new, rows |-> tx.rows]
      /\ tx'.date = tx.date /\ tx'.events = tx.events /\ tx'.todo = Tail(tx.todo)
      /\ tx'.cash = tx.cash /\ tx'.lots = tx.lots /\ tx'.hold = tx.hold
      /\ tx'.new = tx.new /\ tx'.rows = tx.rows
  BY <1>1 DEF NothingDue, Settlement
<1>3. tx' \in Settlement
  <2>1. Tail(tx.todo) \in Seq(Events)
    BY <1>1, HeadTailProperties
  <2> QED BY <1>1, <1>2, <2>1 DEF Settlement
<1>4. AllTagged(ev.kind, ev.sym)
  <2>1. CASE Entitled(ev.sym) = {}
    BY <2>1 DEF AllTagged
  <2>2. CASE ev.kind # "delist" /\ Handled(ev)
    <3>1. ev.kind \in Tagged
      BY <1>1, <2>2 DEF Legal, Tagged
    <3>2. ev.sym \in Symbols
      BY <1>1, HeadTailProperties DEF Events
    <3>3. PICK l \in Entitled(ev.sym) : <<ev.kind, tx.date>> \in l.tags
      BY <2>2 DEF Handled, Tag
    <3> QED BY <3>1, <3>2, <3>3 DEF AllTagged, TxOK, EventsOK
  <2> QED BY <1>1, <2>1, <2>2
<1>5. \A k, s : AllTagged(k, s)' <=> AllTagged(k, s)
  BY <1>2 DEF AllTagged, Entitled
<1>6. tx.lots \subseteq Lot
  BY <1>1 DEF Settlement
<1>7. EventsOK'
  <2>1. Heirs(tx'.lots, NoTags)
    BY <1>2, <1>6, OldLots
  <2>2. AllTagged(ev.kind, ev.sym)'
    BY <1>4, <1>5
  <2> QED BY <1>1, <1>2, <1>6, <2>1, <2>2, EventsStep
<1>8. /\ TradesNow' = TradesNow /\ AuditNow' = AuditNow /\ DaysNow' = DaysNow
  BY <1>1, <1>2 DEF TradesNow, AuditNow, DaysNow, book
<1>9. Account(tx.lots, tx.hold, TradesNow, AuditNow, DaysNow)'
  BY <1>2, <1>8 DEF TxOK
<1>10. ServedOn(tx.lots, settled, Days \ gaps)'
  BY <1>1, <1>2 DEF TxOK, ServedOn, Served
<1>11. RowsOK'
  BY <1>1, <1>2, <1>5 DEF TxOK, RowsOK
<1>12. MoneyOK'
  BY <1>1, <1>2, <1>8 DEF TxOK, MoneyOK, book
<1> QED BY <1>1, <1>2, <1>3, <1>7, <1>9, <1>10, <1>11, <1>12 DEF TxOK

-----------------------------------------------------------------------------
(* The fills.                                                              *)

LEMMA FillStep ==
  ASSUME BooksOK, TxOK, tx.todo = <<>>, UNCHANGED <<official, settled, gaps>>,
         tx'.date = tx.date, tx'.events = tx.events, tx'.todo = tx.todo, tx'.rows = tx.rows,
         tx'.lots \subseteq Lot, Heirs(tx'.lots, NoTags)
  PROVE  EventsOK' /\ RowsOK' /\ ServedOn(tx.lots, settled, Days \ gaps)'
<1>1. /\ \A k, s : AllTagged(k, s) => AllTagged(k, s)'
      /\ \A s \in Symbols, k \in Tagged : \A l, m \in Entitled(s)' :
           <<k, tx.date>> \in l.tags => <<k, tx.date>> \in m.tags
  BY HeirsTagged
<1>2. EventsOK'
  BY <1>1 DEF TxOK, EventsOK
<1>3. RowsOK'
  BY <1>1 DEF TxOK, RowsOK
<1>4. ServedOn(tx.lots, settled, Days \ gaps)'
  BY HeirsServed
<1> QED BY <1>2, <1>3, <1>4

LEMMA TradeFacts ==
  ASSUME NEW o \in Orders, tx.date \in Days
  PROVE  /\ Trade(o) \in TradeRow /\ Trade(o).sym = o.sym /\ Trade(o).side = o.side
         /\ Trade(o).qty = o.qty /\ Trade(o).amt \in Int /\ Trade(o).fee \in Int
         /\ o.sym \in Symbols /\ o.qty \in Nat \ {0} /\ o.side \in {"buy", "sell"}
<1>1. o.sym \in Symbols /\ o.qty \in Nat \ {0} /\ o.side \in {"buy", "sell"} /\ o.price \in Nat
  BY OrdersAssumption
<1> DEFINE amt == o.qty * o.price
<1>2. amt \in Int
  BY <1>1
<1> HIDE DEF amt
<1>3. Fee(amt, o.side) \in Int
  BY <1>2, MoneyAssumption DEF Fee, Larger
<1>4. Trade(o) = [side |-> o.side, sym |-> o.sym, qty |-> o.qty, amt |-> amt,
                  fee |-> Fee(amt, o.side), day |-> tx.date]
  BY DEF Trade, amt
<1> HIDE DEF Fee
<1> QED BY <1>1, <1>2, <1>3, <1>4 DEF TradeRow

\* A fill keeps the settlement in order if its lots and its position fit.
LEMMA FilledStep ==
  ASSUME Typed, BooksOK, TxOK, Outside, tx.todo = <<>>, NEW o \in Orders, NEW M, NEW c \in Int,
         tx' = [tx EXCEPT !.cash = c, !.lots = M, !.hold[o.sym] = @ + Sign(Trade(o)),
                          !.new = Append(@, Trade(o))],
         Heirs(M, NoTags), LotsOK(M),
         LotsFit(M, LotsSoFar(Append(TradesNow, Trade(o)), AuditNow), DaysNow),
         \A x \in Symbols \ {o.sym} : LotsOf(M, x) = LotsOf(tx.lots, x),
         Shares(LotsOf(M, o.sym)) = tx.hold[o.sym] + Sign(Trade(o)),
         c >= 0 \/ MayOwe(Append(TradesNow, Trade(o)), AuditNow)
  PROVE  TxOK'
<1> DEFINE t == Trade(o)
<1>1. /\ tx \in Settlement /\ tx.date \in Days /\ tx.new \in Seq(TradeRow)
      /\ tx.hold \in [Symbols -> Int] /\ trades \in Seq(TradeRow) /\ TradesNow \in Seq(TradeRow)
      /\ UNCHANGED <<official, settled, gaps>> /\ UNCHANGED book
  BY SequencesNow DEF TxOK, Settlement, Outside, book
<1>2. t \in TradeRow /\ t.sym = o.sym /\ o.sym \in Symbols /\ Sign(t) \in Int
  <2>1. t \in TradeRow /\ t.sym = o.sym /\ o.sym \in Symbols
    BY <1>1, TradeFacts
  <2> HIDE DEF t
  <2> QED BY <2>1 DEF TradeRow, Sign
<1> DEFINE g == [tx.hold EXCEPT ![o.sym] = tx.hold[o.sym] + Sign(t)]
<1> HIDE DEF t
<1>3. /\ tx' = [date |-> tx.date, events |-> tx.events, todo |-> tx.todo, cash |-> c,
                lots |-> M, hold |-> g, new |-> Append(tx.new, t), rows |-> tx.rows]
      /\ tx'.date = tx.date /\ tx'.events = tx.events /\ tx'.todo = tx.todo
      /\ tx'.cash = c /\ tx'.lots = M /\ tx'.hold = g
      /\ tx'.new = Append(tx.new, t) /\ tx'.rows = tx.rows
  BY <1>1, <1>2 DEF Settlement, t
<1>4. M \subseteq Lot /\ g \in [Symbols -> Int] /\ Append(tx.new, t) \in Seq(TradeRow)
  BY <1>1, <1>2, AppendProperties DEF LotsOK
<1>5. /\ TradesNow' = Append(TradesNow, t) /\ AuditNow' = AuditNow /\ DaysNow' = DaysNow
  <2>1. TradesNow' = trades \o Append(tx.new, t)
    BY <1>1, <1>3 DEF TradesNow, book
  <2>2. trades \o Append(tx.new, t) = Append(TradesNow, t)
    BY <1>1, <1>2, ConcatAppend DEF TradesNow
  <2>3. AuditNow' = AuditNow /\ DaysNow' = DaysNow
    BY <1>1, <1>3 DEF AuditNow, DaysNow, book
  <2> QED BY <2>1, <2>2, <2>3
<1>6. tx' \in Settlement
  <2> HIDE DEF g
  <2> QED BY <1>1, <1>3, <1>4 DEF Settlement
<1>7. Account(M, g, Append(TradesNow, t), AuditNow, DaysNow)
  <2> DEFINE L == tx.lots
             h == tx.hold
             T == TradesNow
             R == AuditNow
             D == DaysNow
  <2>1. /\ Account(L, h, T, R, D) /\ t \in TradeRow
        /\ LotsOK(M) /\ LotsFit(M, LotsSoFar(Append(T, t), R), D)
        /\ \A x \in Symbols \ {t.sym} : LotsOf(M, x) = LotsOf(L, x)
        /\ Shares(LotsOf(M, t.sym)) = h[t.sym] + Sign(t)
        /\ g = [h EXCEPT ![t.sym] = h[t.sym] + Sign(t)]
    BY <1>2 DEF TxOK, t
  <2> HIDE DEF L, h, T, R, D, g
  <2>2. Account(M, g, Append(T, t), R, D)
    BY <2>1, AccountTrade
  <2> QED BY <2>2 DEF T, R, D
<1>8. Account(tx.lots, tx.hold, TradesNow, AuditNow, DaysNow)'
  BY <1>3, <1>5, <1>7
<1>9. EventsOK' /\ RowsOK' /\ ServedOn(tx.lots, settled, Days \ gaps)'
  BY <1>1, <1>3, <1>4, FillStep
<1>10. MoneyOK'
  <2>1. tx'.new # <<>>
    BY <1>1, <1>2, <1>3, AppendProperties
  <2>2. tx'.cash >= 0 \/ MayOwe(TradesNow', AuditNow')
    BY <1>3, <1>5 DEF t
  <2> QED BY <2>1, <2>2 DEF MoneyOK
<1> QED BY <1>1, <1>3, <1>6, <1>8, <1>9, <1>10 DEF TxOK

LEMMA BuyStep ==
  ASSUME Typed, BooksOK, TxOK, NEW o \in Orders, BuyFill(o)
  PROVE  TxOK'
<1> DEFINE t == Trade(o)
           y == NewLot(o.sym, o.qty, {})
           M == tx.lots \cup {y}
           k == LotsSoFar(TradesNow, AuditNow)
           c == tx.cash - (t.amt + t.fee)
<1>1. /\ tx.todo = <<>> /\ Outside /\ NextLot <= MaxLots /\ o.side = "buy"
      /\ tx.cash >= t.amt + t.fee
      /\ tx' = [tx EXCEPT !.cash = @ - (t.amt + t.fee), !.lots = @ \cup {y},
                          !.hold[o.sym] = @ + o.qty, !.new = Append(@, t)]
  BY DEF BuyFill
<1>2. /\ tx \in Settlement /\ tx.date \in Days /\ LotsOK(tx.lots) /\ tx.cash \in Int
      /\ LotsFit(tx.lots, k, DaysNow) /\ \A x \in Symbols : tx.hold[x] = Shares(LotsOf(tx.lots, x))
  BY DEF TxOK, Settlement, Account
<1>3. /\ k \in Nat /\ tx.date \in Range(DaysNow)
      /\ AuditNow \in Seq(AuditRow) /\ TradesNow \in Seq(TradeRow)
  BY SequencesNow, LotsSoFarNat
<1>4. /\ t \in TradeRow /\ t.sym = o.sym /\ t.side = "buy" /\ t.qty = o.qty
      /\ t.amt \in Int /\ t.fee \in Int /\ o.sym \in Symbols /\ o.qty \in Nat
  BY <1>1, <1>2, TradeFacts
<1>5. y \in Lot /\ y.id = k + 1 /\ y.day = tx.date /\ y.sym = o.sym /\ y.rem = o.qty /\ y.tags = {}
  <2>1. NextLot = k + 1 /\ k + 1 \in 1..MaxLots
    BY <1>1, <1>3, LotIdAssumption DEF NextLot, TradesNow, AuditNow
  <2> QED BY <1>2, <1>4, <2>1 DEF NewLot, Lot
<1> HIDE DEF t, y, k
<1>6. Sign(t) = o.qty
  BY <1>4 DEF Sign
<1>7. /\ LotsOK(M) /\ LotsFit(M, k + 1, DaysNow)
      /\ \A x \in Symbols \ {o.sym} : LotsOf(M, x) = LotsOf(tx.lots, x)
      /\ Shares(LotsOf(M, o.sym)) = tx.hold[o.sym] + Sign(t)
  <2> DEFINE L == tx.lots
  <2>1. /\ LotsOK(L) /\ k \in Nat /\ LotsFit(L, k, DaysNow)
        /\ y \in Lot /\ y.id = k + 1 /\ y.day \in Range(DaysNow)
        /\ \A q \in Tagged, d \in Days : <<q, d>> \in y.tags => d \in Range(DaysNow)
    BY <1>2, <1>3, <1>5
  <2> HIDE DEF L
  <2>2. /\ LotsOK(L \cup {y}) /\ LotsFit(L \cup {y}, k + 1, DaysNow)
        /\ \A x \in Symbols \ {y.sym} : LotsOf(L \cup {y}, x) = LotsOf(L, x)
        /\ Shares(LotsOf(L \cup {y}, y.sym)) = Shares(LotsOf(L, y.sym)) + y.rem
    BY <2>1, LotAdded
  <2> QED BY <1>2, <1>4, <1>5, <1>6, <2>2 DEF L
<1>8. LotsFit(M, LotsSoFar(Append(TradesNow, t), AuditNow), DaysNow)
  <2>1. LotsSoFar(Append(TradesNow, t), AuditNow) = k + 1
    BY <1>3, <1>4, TradeCounts DEF k
  <2> QED BY <1>7, <2>1
<1>9. Heirs(M, NoTags)
  <2>1. Heirs(tx.lots, NoTags)
    BY <1>2, OldLots DEF LotsOK
  <2> QED BY <1>5, <2>1 DEF Heirs
<1>10. c \in Int /\ c >= 0
  BY <1>1, <1>2, <1>4
<1>11. tx' = [tx EXCEPT !.cash = c, !.lots = M, !.hold[o.sym] = @ + Sign(t), !.new = Append(@, t)]
  BY <1>1, <1>6
<1> HIDE DEF M, c
<1> QED BY <1>1, <1>7, <1>8, <1>9, <1>10, <1>11, FilledStep DEF t

\* The queue of the lots of earlier days: by day, then by the id of the row.
Queue(S) == {p \in S \X S : \/ p[1].day < p[2].day
                            \/ p[1].day = p[2].day /\ LotId[p[1].id] < LotId[p[2].id]}

\* What a sale leaves of the lots it takes from.
LEMMA SoldLots ==
  ASSUME TxOK, NEW s \in Symbols, NEW qty \in Nat, qty <= Shares(Entitled(s)),
         NEW f, f = [l \in Entitled(s) |-> Sold(l, qty)]
  PROVE  /\ \A l \in Entitled(s) :
              f[l] = [id |-> l.id, sym |-> l.sym, day |-> l.day, rem |-> f[l].rem, tags |-> l.tags]
              /\ f[l].rem \in Nat
         /\ Shares(Entitled(s)) \in Nat /\ RemAfter(f) = Shares(Entitled(s)) - qty
<1> DEFINE S == Entitled(s)
           F == [l \in S |-> l.rem]
           G == [l \in S |-> Gives(Queue(S), F, l, S, qty)]
           H == [l \in S |-> f[l].rem]
<1>1. tx.lots \subseteq Lot /\ LotsOK(tx.lots) /\ S \in SUBSET tx.lots
  BY DEF TxOK, Account, LotsOK, Entitled
<1>2. LotsOK(S) /\ IsFiniteSet(S) /\ S \subseteq Lot
  BY <1>1, LotsSubset DEF LotsOK
<1>3. StrictOrder(Queue(S), S)
  <2>1. \A l \in S : l.day \in Int /\ l.id \in 1..MaxLots /\ LotId[l.id] \in Int
    BY <1>2, LotIdAssumption DEF Lot, Days
  <2>2. \A l, m \in S : l # m => LotId[l.id] # LotId[m.id]
    BY <1>2, <2>1, LotIdAssumption DEF LotsOK
  <2>3. \A x, y \in S : <<x, y>> \in Queue(S) <=>
          x.day < y.day \/ (x.day = y.day /\ LotId[x.id] < LotId[y.id])
    BY DEF Queue
  <2> HIDE DEF S
  <2>4. \A x \in S : <<x, x>> \notin Queue(S)
    BY <2>1, <2>3
  <2>5. \A x, y \in S : x # y => <<x, y>> \in Queue(S) \/ <<y, x>> \in Queue(S)
    BY <2>1, <2>2, <2>3
  <2>6. \A x, y, z \in S : <<x, y>> \in Queue(S) /\ <<y, z>> \in Queue(S) => <<x, z>> \in Queue(S)
    BY <2>1, <2>3
  <2> QED BY <2>4, <2>5, <2>6 DEF StrictOrder
<1>4. \A l \in S : F[l] \in Nat
  BY <1>2 DEF Lot
<1>5. Shares(S) = SumFunctionOnSet(F, S) /\ Shares(S) \in Nat
  <2> HIDE DEF S
  <2> QED BY <1>2, SharesNat DEF Shares, SumFunction
<1>6. /\ \A l \in S : G[l] \in 0..F[l]
      /\ SumFunctionOnSet(G, S) = qty
  <2>1. DOMAIN G = S /\ \A l \in S : G[l] = Gives(Queue(S), F, l, S, qty)
    OBVIOUS
  <2> HIDE DEF S, F, G
  <2> QED BY <1>2, <1>3, <1>4, <1>5, <2>1, QueueGives DEF S
<1>7. ASSUME NEW l \in S
      PROVE  /\ f[l].rem = F[l] - G[l] /\ f[l].rem \in Nat
             /\ f[l] = [id |-> l.id, sym |-> l.sym, day |-> l.day, rem |-> f[l].rem, tags |-> l.tags]
  <2>1. l \in Lot /\ l.sym = s
    BY <1>2 DEF Entitled
  <2>2. Older(l) = Ahead(Queue(S), l, S)
    BY <2>1 DEF Older, Ahead, Queue
  <2>3. Shares(Older(l)) = SumFunctionOnSet(F, Ahead(Queue(S), l, S)) /\ Shares(Older(l)) \in Nat
    <3> DEFINE B == Ahead(Queue(S), l, S)
               K == [m \in B |-> m.rem]
    <3>1. B \in SUBSET S /\ IsFiniteSet(B) /\ LotsOK(B)
      <4>1. B \in SUBSET S
        BY DEF Ahead
      <4> HIDE DEF B, S
      <4> QED BY <1>2, <4>1, LotsSubset DEF LotsOK
    <3>2. DOMAIN K = B /\ \A m \in B : K[m] = F[m]
      BY <3>1
    <3>3. SumFunction(K) = SumFunctionOnSet(F, B)
      <4> HIDE DEF K, F, B, S
      <4> QED BY <3>1, <3>2, FunSumOver
    <3>4. Shares(B) = SumFunction(K)
      BY DEF Shares
    <3>5. Shares(B) \in Nat
      <4> HIDE DEF B, S
      <4> QED BY <3>1, SharesNat
    <3> QED BY <2>2, <3>3, <3>4, <3>5
  <2>4. f[l] = Sold(l, qty) /\ F[l] = l.rem /\ l.rem \in Nat
    BY <2>1 DEF Lot
  <2>5. G[l] = Gives(Queue(S), F, l, S, qty)
    OBVIOUS
  <2> HIDE DEF S, F, G
  <2>6. Sold(l, qty) = [id |-> l.id, sym |-> l.sym, day |-> l.day, rem |-> Sold(l, qty).rem, tags |-> l.tags]
        /\ Sold(l, qty).rem = Larger(0, l.rem - Larger(0, qty - Shares(Older(l))))
    BY <2>1 DEF Sold, Lot
  <2>7. Larger(0, l.rem - Larger(0, qty - Shares(Older(l)))) = F[l] - G[l]
        /\ F[l] - G[l] \in Nat
    BY <2>3, <2>4, <2>5 DEF Larger, Gives, LeftOpen
  <2> QED BY <2>4, <2>6, <2>7
<1>8. RemAfter(f) = Shares(S) - qty
  <2>1. /\ DOMAIN F = S /\ DOMAIN G = S /\ DOMAIN H = S
        /\ \A l \in S : H[l] \in Int /\ G[l] \in Int /\ F[l] = H[l] + G[l]
    BY <1>4, <1>6, <1>7
  <2>2. RemAfter(f) = SumFunction(H)
    BY DEF RemAfter
  <2>3. SumFunction(H) \in Int
    <3> HIDE DEF S, F, G, H
    <3> QED BY <1>2, <2>1, FunSumInt
  <2>4. SumFunction(F) = SumFunction(H) + SumFunction(G)
    <3> HIDE DEF S, F, G, H
    <3> QED BY <1>2, <1>4, <2>1, FunSumPlus
  <2>5. SumFunction(F) = Shares(S) /\ SumFunction(G) = qty
    <3> HIDE DEF S
    <3>1. SumFunction(F) = SumFunctionOnSet(F, S) /\ SumFunction(G) = SumFunctionOnSet(G, S)
      BY DEF SumFunction
    <3> QED BY <1>5, <1>6, <3>1
  <2> HIDE DEF S, F, G, H
  <2> QED BY <1>5, <2>2, <2>3, <2>4, <2>5
<1> QED BY <1>5, <1>7, <1>8

LEMMA SellStep ==
  ASSUME Typed, BooksOK, TxOK, NEW o \in Orders, SellFill(o)
  PROVE  TxOK'
<1> DEFINE t == Trade(o)
           f == [l \in Entitled(o.sym) |-> Sold(l, o.qty)]
           M == IF tx.hold[o.sym] = o.qty THEN Cleared(o.sym) ELSE Replaced(f)
           k == LotsSoFar(TradesNow, AuditNow)
           c == tx.cash + (t.amt - t.fee)
<1>1. /\ tx.todo = <<>> /\ Outside /\ o.side = "sell" /\ Shares(Entitled(o.sym)) >= o.qty
      /\ tx' = [tx EXCEPT !.cash = @ + (t.amt - t.fee), !.lots = M,
                          !.hold[o.sym] = @ - o.qty, !.new = Append(@, t)]
  BY DEF SellFill
<1>2. /\ tx \in Settlement /\ tx.date \in Days /\ LotsOK(tx.lots) /\ tx.cash \in Int
      /\ tx.hold \in [Symbols -> Int]
      /\ LotsFit(tx.lots, k, DaysNow) /\ \A x \in Symbols : tx.hold[x] = Shares(LotsOf(tx.lots, x))
  BY DEF TxOK, Settlement, Account
<1>3. /\ k \in Nat /\ AuditNow \in Seq(AuditRow) /\ TradesNow \in Seq(TradeRow)
  BY SequencesNow, LotsSoFarNat
<1>4. /\ t \in TradeRow /\ t.sym = o.sym /\ t.side = "sell" /\ t.qty = o.qty
      /\ t.amt \in Int /\ t.fee \in Int /\ o.sym \in Symbols /\ o.qty \in Nat
  BY <1>1, <1>2, TradeFacts
<1> HIDE DEF t, k
<1>5. Sign(t) = -o.qty /\ tx.hold[o.sym] \in Int
  BY <1>2, <1>4 DEF Sign
<1>6. tx.lots \subseteq Lot
  BY <1>2 DEF LotsOK
<1>7. /\ LotsOK(M) /\ LotsFit(M, k, DaysNow) /\ Heirs(M, NoTags)
      /\ \A x \in Symbols \ {o.sym} : LotsOf(M, x) = LotsOf(tx.lots, x)
      /\ Shares(LotsOf(M, o.sym)) = tx.hold[o.sym] + Sign(t)
  <2>1. CASE tx.hold[o.sym] = o.qty
    <3>1. M = Cleared(o.sym) /\ M \in SUBSET tx.lots
      BY <2>1 DEF Cleared
    <3>2. LotsOf(M, o.sym) = {} /\ \A x \in Symbols \ {o.sym} : LotsOf(M, x) = LotsOf(tx.lots, x)
      BY <3>1 DEF LotsOf, Cleared
    <3> HIDE DEF M
    <3>3. LotsOK(M) /\ LotsFit(M, k, DaysNow) /\ Heirs(M, NoTags)
      BY <1>2, <1>6, <3>1, LotsSubset, FewerLotsFit, OldLots
    <3>4. Shares(LotsOf(M, o.sym)) = tx.hold[o.sym] + Sign(t)
      BY <1>5, <2>1, <3>2, SharesEmpty
    <3> QED BY <3>2, <3>3, <3>4
  <2>2. CASE tx.hold[o.sym] # o.qty
    <3> DEFINE E == Entitled(o.sym)
               L == tx.lots
    <3>1. M = Replaced(f)
      BY <2>2
    <3>2. /\ \A l \in E :
              f[l] = [id |-> l.id, sym |-> l.sym, day |-> l.day, rem |-> f[l].rem, tags |-> l.tags]
              /\ f[l].rem \in Nat
          /\ Shares(E) \in Nat /\ RemAfter(f) = Shares(E) - o.qty
      <4>1. o.qty <= Shares(Entitled(o.sym))
        <5>1. Shares(Entitled(o.sym)) \in Nat
          <6>1. Entitled(o.sym) \in SUBSET tx.lots
            BY DEF Entitled
          <6>2. LotsOK(Entitled(o.sym))
            BY <1>2, <6>1, LotsSubset
          <6> QED BY <6>2, SharesNat
        <5> QED BY <1>1, <1>4, <5>1
      <4>2. f = [l \in Entitled(o.sym) |-> Sold(l, o.qty)]
        OBVIOUS
      <4> HIDE DEF f, M
      <4> QED BY <1>4, <4>1, <4>2, SoldLots
    <3>3. DOMAIN f = E /\ E \in SUBSET LotsOf(L, o.sym) /\ E \in SUBSET L
      BY DEF Entitled, LotsOf
    <3>4. \A l \in E : l.rem > 0 /\ l.sym = o.sym
      BY DEF Entitled
    <3> HIDE DEF f, M
    <3>5. Turns(f, L, o.sym)
      <4> SUFFICES ASSUME NEW l \in E PROVE f[l] \in Lot /\ f[l].id = l.id /\ f[l].sym = l.sym
        BY <3>3 DEF Turns
      <4>1. l \in Lot
        BY <1>6, <3>3
      <4>2. f[l] = [id |-> l.id, sym |-> l.sym, day |-> l.day, rem |-> f[l].rem, tags |-> l.tags]
            /\ f[l].rem \in Nat
        BY <3>2
      <4> HIDE DEF E, L
      <4> QED BY <4>1, <4>2 DEF Lot
    <3>6. M = Turned(f, L) /\ \A m \in M : (m \in L /\ m \notin E) \/ \E l \in E : m = f[l]
      BY <3>1, <3>3 DEF Replaced, Turned, Range
    <3>7. /\ LotsOK(M) /\ \A x \in Symbols \ {o.sym} : LotsOf(M, x) = LotsOf(L, x)
          /\ Shares(LotsOf(M, o.sym)) \in Nat /\ Shares(LotsOf(L, o.sym)) \in Nat
          /\ Shares(LotsOf(M, o.sym)) + Shares(DOMAIN f) = Shares(LotsOf(L, o.sym)) + RemAfter(f)
      <4> HIDE DEF E, L
      <4> QED BY <1>2, <1>4, <3>5, <3>6, TurnedShares DEF L
    <3>8. Shares(LotsOf(M, o.sym)) = tx.hold[o.sym] + Sign(t)
      <4>1. Shares(LotsOf(L, o.sym)) = tx.hold[o.sym] /\ Shares(DOMAIN f) = Shares(E)
        BY <1>2, <1>4, <3>3
      <4> DEFINE a == Shares(LotsOf(M, o.sym))
                 b == Shares(E)
                 h == tx.hold[o.sym]
      <4>2. a + b = h + (b - o.qty) /\ a \in Nat /\ b \in Nat /\ h \in Nat
        BY <3>2, <3>7, <4>1
      <4>3. Sign(t) = -o.qty /\ o.qty \in Nat
        BY <1>4, <1>5
      <4> HIDE DEF a, b, h
      <4>4. a = h + Sign(t)
        BY <4>2, <4>3
      <4> QED BY <4>4 DEF a, h
    <3>9. ASSUME NEW m \in M
          PROVE  \E l \in L : /\ m.id = l.id /\ m.sym = l.sym /\ m.day = l.day /\ m.tags = l.tags
                              /\ (m.rem > 0 => l.rem > 0)
      BY <3>2, <3>3, <3>4, <3>6
    <3>10. LotsFit(M, k, DaysNow)
      BY <1>2, <3>9 DEF LotsFit
    <3>11. Heirs(M, NoTags)
      <4> SUFFICES ASSUME NEW m \in M
                   PROVE  \E l \in L : /\ l.sym = m.sym /\ l.day = m.day /\ (m.rem > 0 => l.rem > 0)
                                       /\ m.tags = l.tags \cup (IF l \in Entitled(l.sym) THEN NoTags[m.sym] ELSE {})
        BY DEF Heirs
      <4>1. m.sym \in Symbols
        BY <3>7 DEF LotsOK, Lot
      <4>2. NoTags[m.sym] = {}
        BY <4>1 DEF NoTags
      <4> QED BY <3>9, <4>2
    <3> QED BY <3>7, <3>8, <3>10, <3>11
  <2> QED BY <2>1, <2>2
<1> HIDE DEF M
<1>8. LotsFit(M, LotsSoFar(Append(TradesNow, t), AuditNow), DaysNow)
  <2>1. LotsSoFar(Append(TradesNow, t), AuditNow) = k
    BY <1>3, <1>4, TradeCounts DEF k
  <2> QED BY <1>7, <2>1
<1>9. c \in Int
  BY <1>2, <1>4
<1>10. c >= 0 \/ MayOwe(Append(TradesNow, t), AuditNow)
  <2>1. CASE t.amt < t.fee
    BY <1>3, <1>4, <2>1, OweTrade
  <2>2. CASE MayOwe(TradesNow, AuditNow)
    BY <1>3, <1>4, <2>2, OweTrade
  <2>3. CASE t.amt >= t.fee /\ tx.cash >= 0
    BY <1>2, <1>4, <2>3
  <2> QED BY <1>4, <2>1, <2>2, <2>3 DEF TxOK, MoneyOK
<1>11. tx' = [tx EXCEPT !.cash = c, !.lots = M, !.hold[o.sym] = @ + Sign(t), !.new = Append(@, t)]
  <2>1. tx.hold[o.sym] - o.qty = tx.hold[o.sym] + Sign(t)
    BY <1>4, <1>5
  <2> QED BY <1>1, <2>1
<1> HIDE DEF c
<1> QED BY <1>1, <1>7, <1>8, <1>9, <1>10, <1>11, FilledStep DEF t

-----------------------------------------------------------------------------
(* The settlement begins and ends.                                         *)

LEMMA OpenStep ==
  ASSUME Typed, BooksOK, NEW d \in 1..today, NEW events \in Seq(Events), OpenDay(d, events),
         gaps \subseteq gaps', events = official[d] \/ d \in gaps'
  PROVE  TxOK'
<1>1. /\ ~IsSettled(d) /\ UNCHANGED <<official, today, paused, book>>
      /\ tx' = [date |-> d, events |-> events, todo |-> events, cash |-> cash, lots |-> lots,
                hold |-> hold, new |-> <<>>, rows |-> <<>>]
  BY DEF OpenDay
<1>2. /\ tx'.date = d /\ tx'.events = events /\ tx'.todo = events /\ tx'.cash = cash
      /\ tx'.lots = lots /\ tx'.hold = hold /\ tx'.new = <<>> /\ tx'.rows = <<>>
  BY <1>1
<1>3. d \in Days /\ d \notin Range(settled)
  <2>1. d \in Days
    BY CalendarAssumption DEF Typed, Days
  <2> QED BY <1>1, <2>1 DEF IsSettled, Range
<1>4. /\ Account(lots, hold, trades, audit, settled) /\ LotsOK(lots) /\ lots \subseteq Lot
      /\ hold \in [Symbols -> Int] /\ trades \in Seq(TradeRow) /\ audit \in Seq(AuditRow)
      /\ settled \in Seq(Days) /\ cash \in Int
      /\ LotsFit(lots, LotsSoFar(trades, audit), settled)
  BY DEF BooksOK, Account, LotsOK, Typed
<1>5. tx' \in Settlement
  <2>1. <<>> \in Seq(TradeRow) /\ <<>> \in Seq(AuditRow)
    OBVIOUS
  <2> QED BY <1>1, <1>3, <1>4, <2>1 DEF Settlement
<1>6. TradesNow' = trades /\ AuditNow' = audit /\ DaysNow' = Append(settled, d)
  <2>1. trades \o <<>> = trades /\ audit \o <<>> = audit
    BY <1>4, ConcatEmptySeq
  <2> QED BY <1>1, <1>2, <2>1 DEF TradesNow, AuditNow, DaysNow, book
<1>7. Account(tx.lots, tx.hold, TradesNow, AuditNow, DaysNow)'
  <2>1. Account(lots, hold, trades, audit, Append(settled, d))
    BY <1>3, <1>4, AccountDay
  <2> QED BY <1>2, <1>6, <2>1
<1>8. ServedOn(tx.lots, settled, Days \ gaps)'
  BY <1>1, <1>2 DEF BooksOK, EntitledAreServed, ServedOn, Served, book
\* no lot knows anything of today yet
<1>9. \A l \in lots : l.day # d /\ \A k \in Tagged : <<k, d>> \notin l.tags
  BY <1>3, <1>4 DEF LotsFit
<1>10. EventsOK'
  <2>1. Len(events) \in Nat
    BY LenProperties
  <2>2. ASSUME NEW s \in Symbols, NEW k \in Tagged, NEW l \in Entitled(s)'
        PROVE  <<k, d>> \notin l.tags
    BY <1>2, <1>9 DEF Entitled
  <2>3. \A i \in 1..Len(events) : events[i] = events[Len(events) - Len(events) + i]
    BY <2>1
  <2>4. 1..(Len(events) - Len(events)) = {} /\ Len(events) <= Len(events)
    BY <2>1
  <2>5. tx'.date \in gaps' \/ tx'.events = official'[tx'.date]
    BY <1>1, <1>2
  <2> QED BY <1>2, <2>2, <2>3, <2>4, <2>5 DEF EventsOK
<1>11. RowsOK'
  BY <1>2, <1>9 DEF RowsOK
<1>12. MoneyOK'
  <2>1. cash' = cash
    BY <1>1 DEF book
  <2> QED BY <1>2, <1>4, <1>6, <2>1 DEF MoneyOK, BooksOK, OverdraftNeedsTwoCalls
<1>13. settled' = settled
  BY <1>1 DEF book
<1> QED BY <1>2, <1>3, <1>5, <1>7, <1>8, <1>10, <1>11, <1>12, <1>13 DEF TxOK

LEMMA CommitStep ==
  ASSUME Typed, BooksOK, TxOK, Commit
  PROVE  BooksOK'
<1>1. /\ tx.todo = <<>> /\ cash' = tx.cash /\ lots' = tx.lots /\ hold' = tx.hold
      /\ trades' = TradesNow /\ audit' = AuditNow /\ settled' = DaysNow
      /\ UNCHANGED <<official, gaps>>
  BY DEF Commit, TradesNow, AuditNow, DaysNow
<1>2. Account(lots, hold, trades, audit, settled)'
  BY <1>1 DEF TxOK
<1>3. /\ settled \in Seq(Days) /\ tx.date \in Days /\ tx.lots \subseteq Lot
      /\ tx.events \in Seq(Events) /\ tx.cash \in Int
  BY SequencesNow DEF TxOK, Settlement
<1>4. EntitledAreServed'
  <2> SUFFICES ASSUME NEW l \in tx.lots, NEW d \in Days \ gaps, l.rem > 0, l.day < d,
                      Precedes(DaysNow, l.day, d)
               PROVE  Served(l, d)
    BY <1>1 DEF EntitledAreServed, ServedOn, Served
  <2> DEFINE n == Len(settled) + 1
  <2>1. /\ DOMAIN DaysNow = DOMAIN settled \cup {n} /\ DaysNow[n] = tx.date /\ n \in Nat
        /\ \A i \in DOMAIN settled : DaysNow[i] = settled[i] /\ i < n /\ i \in Nat
    <3>1. /\ DOMAIN DaysNow = DOMAIN settled \cup {n} /\ DaysNow[n] = tx.date
          /\ \A i \in DOMAIN settled : DaysNow[i] = settled[i] /\ i < n
      BY <1>3, Appended DEF DaysNow
    <3>2. Len(settled) \in Nat /\ DOMAIN settled = 1..Len(settled)
      BY <1>3, LenProperties
    <3> QED BY <3>1, <3>2
  <2> HIDE DEF n
  <2>2. PICK i \in DOMAIN DaysNow, j \in DOMAIN DaysNow : i < j /\ DaysNow[i] = l.day /\ DaysNow[j] = d
    BY DEF Precedes
  <2>3. i \in DOMAIN settled
    BY <2>1, <2>2
  <2>4. CASE j \in DOMAIN settled
    <3>1. Precedes(settled, l.day, d)
      BY <2>1, <2>2, <2>3, <2>4 DEF Precedes
    <3> QED BY <3>1 DEF TxOK, ServedOn
  <2>5. CASE j = n
    <3>1. d = tx.date /\ tx.events = official[d]
      BY <2>1, <2>2, <2>5 DEF TxOK, EventsOK
    <3>2. \A i1 \in DOMAIN tx.events : AllTagged(tx.events[i1].kind, tx.events[i1].sym)
      <4>1. Len(tx.events) \in Nat /\ DOMAIN tx.events = 1..Len(tx.events)
        BY <1>3, LenProperties
      <4>2. Len(tx.todo) = 0
        BY <1>1
      <4> QED BY <4>1, <4>2 DEF TxOK, EventsOK
    <3>3. l \in Entitled(l.sym)
      BY <3>1 DEF Entitled
    <3> QED BY <3>1, <3>2, <3>3 DEF Served, AllTagged
  <2> QED BY <2>1, <2>2, <2>4, <2>5
<1>5. OverdraftNeedsTwoCalls'
  BY <1>1, <1>3 DEF OverdraftNeedsTwoCalls, TxOK, MoneyOK
<1> QED BY <1>2, <1>4, <1>5 DEF BooksOK

-----------------------------------------------------------------------------
(* The theorems.                                                           *)

LEMMA InitIInv == Init => IInv
<1> SUFFICES ASSUME Init PROVE IInv
  OBVIOUS
<1>1. /\ official \in Calendars /\ today = 1 /\ cash = InitCash /\ lots = {}
      /\ hold = [s \in Symbols |-> 0] /\ trades = <<>> /\ audit = <<>> /\ gaps = {}
      /\ settled = <<>> /\ tx = NoTx
  BY DEF Init
<1>2. Typed
  BY <1>1, CalendarAssumption, MoneyAssumption DEF Typed, Days
<1>3. \A s : Shares(LotsOf({}, s)) = 0
  <2>1. \A s : LotsOf({}, s) = {}
    BY DEF LotsOf
  <2> QED BY <2>1, SharesEmpty
<1>4. \A s : Bought(<<>>, s) = 0 /\ Added(<<>>, s) = 0
  <2> SUFFICES ASSUME NEW s PROVE Bought(<<>>, s) = 0 /\ Added(<<>>, s) = 0
    OBVIOUS
  <2> DEFINE F == [i \in {j \in DOMAIN <<>> : <<>>[j].sym = s} |-> Sign(<<>>[i])]
             G == [i \in {j \in DOMAIN <<>> : <<>>[j].sym = s} |-> <<>>[i].shares]
  <2>1. DOMAIN F = {} /\ DOMAIN G = {}
    OBVIOUS
  <2>2. Bought(<<>>, s) = SumFunction(F) /\ Added(<<>>, s) = SumFunction(G)
    BY DEF Bought, Added
  <2> HIDE DEF F, G
  <2> QED BY <2>1, <2>2, FunSumEmpty
<1>5. LotsOK({}) /\ \A n, D : LotsFit({}, n, D)
  BY FS_EmptySet DEF LotsOK, LotsFit
<1>6. Account(lots, hold, trades, audit, settled)
  <2>1. /\ <<>> \in Seq(TradeRow) /\ <<>> \in Seq(AuditRow) /\ <<>> \in Seq(Days)
        /\ DOMAIN <<>> = {} /\ [s \in Symbols |-> 0] \in [Symbols -> Int]
    OBVIOUS
  <2>2. Once(<<>>)
    BY DEF Once
  <2> QED BY <1>1, <1>3, <1>4, <1>5, <2>1, <2>2 DEF Account
<1>7. EntitledAreServed /\ OverdraftNeedsTwoCalls
  BY <1>1, MoneyAssumption DEF EntitledAreServed, ServedOn, OverdraftNeedsTwoCalls
<1> QED BY <1>1, <1>2, <1>6, <1>7 DEF IInv, BooksOK

LEMMA StepIInv == IInv /\ [Next]_vars => IInv'
<1> SUFFICES ASSUME IInv, [Next]_vars PROVE IInv'
  OBVIOUS
<1>1. Typed /\ BooksOK /\ (tx # NoTx => TxOK)
  BY DEF IInv
\* what the steps inside a settlement leave alone
<1>2. ASSUME Outside PROVE Typed' /\ BooksOK'
  BY <1>1, <1>2 DEF Outside, book, Typed, BooksOK, EntitledAreServed, ServedOn, Served,
                    OverdraftNeedsTwoCalls
<1>3. tx.todo # <<>> => TxOK
  BY <1>1 DEF NoTx
<1>4. CASE NextDay
  <2>1. Typed'
    BY <1>1, <1>4, CalendarAssumption DEF NextDay, book, Typed, Days
  <2>2. BooksOK'
    BY <1>1, <1>4 DEF NextDay, book, BooksOK, EntitledAreServed, ServedOn, Served, OverdraftNeedsTwoCalls
  <2> QED BY <1>4, <2>1, <2>2 DEF NextDay, IInv
<1>5. CASE Pause
  <2>1. Typed' /\ BooksOK'
    BY <1>1, <1>5 DEF Pause, book, Typed, BooksOK, EntitledAreServed, ServedOn, Served,
                      OverdraftNeedsTwoCalls
  <2> QED BY <1>5, <2>1 DEF Pause, IInv
<1>6. ASSUME NEW d \in 1..today, SettleAccount(d) \/ ProviderGap(d) PROVE IInv'
  <2>1. d \in Days
    BY <1>1, CalendarAssumption DEF Typed, Days
  <2>2. PICK events \in Seq(Events) :
          /\ OpenDay(d, events) /\ gaps \subseteq gaps' /\ gaps' \subseteq Days
          /\ events = official[d] \/ d \in gaps'
    <3>1. CASE SettleAccount(d)
      <4>1. official[d] \in Seq(Events) /\ gaps \subseteq Days
        BY <1>1, <2>1 DEF Typed
      <4> QED BY <3>1, <4>1 DEF SettleAccount
    <3>2. CASE ProviderGap(d)
      <4>1. <<>> \in Seq(Events) /\ gaps \subseteq Days
        BY <1>1 DEF Typed
      <4> QED BY <2>1, <3>2, <4>1 DEF ProviderGap
    <3> QED BY <1>6, <3>1, <3>2
  <2>3. TxOK'
    BY <1>1, <2>2, OpenStep
  <2>4. Typed' /\ BooksOK'
    <3>1. UNCHANGED <<official, today, paused, book>>
      BY <2>2 DEF OpenDay
    <3> QED BY <1>1, <2>2, <3>1 DEF book, Typed, BooksOK, EntitledAreServed, ServedOn, Served,
                                    OverdraftNeedsTwoCalls
  <2> QED BY <2>3, <2>4 DEF IInv
<1>7. ASSUME NEW ev, Split(ev) \/ Dividend(ev) \/ Rights(ev) \/ Delist(ev) \/ NothingDue(ev)
      PROVE  IInv'
  <2>1. Outside /\ tx.todo # <<>>
    BY <1>7 DEF Split, Dividend, Rights, Delist, NothingDue, Due
  <2>2. TxOK'
    BY <1>1, <1>3, <1>7, <2>1, SplitStep, DividendStep, RightsStep, DelistStep, NothingDueStep
  <2> QED BY <1>2, <2>1, <2>2 DEF IInv
<1>8. ASSUME NEW o \in Orders, BuyFill(o) \/ SellFill(o) PROVE IInv'
  <2>1. Outside /\ tx # NoTx
    BY <1>8, MoneyAssumption DEF BuyFill, SellFill
  <2>2. TxOK'
    BY <1>1, <1>8, <2>1, BuyStep, SellStep
  <2> QED BY <1>2, <2>1, <2>2 DEF IInv
<1>9. CASE Commit
  <2>1. tx # NoTx /\ tx' = NoTx /\ UNCHANGED <<official, today, gaps>> /\ cash' = tx.cash
    BY <1>9 DEF Commit
  <2>2. Typed'
    BY <1>1, <2>1 DEF Typed, TxOK, Settlement
  <2> QED BY <1>1, <1>9, <2>1, <2>2, CommitStep DEF IInv
<1>10. CASE Abort
  BY <1>2, <1>10 DEF Abort, IInv
<1>11. CASE UNCHANGED vars
  <2>1. tx' = tx /\ Outside
    BY <1>11 DEF vars, Outside
  <2>2. TxOK => TxOK'
    BY <2>1 DEF Outside, book, TxOK, EventsOK, RowsOK, MoneyOK, AllTagged, Entitled, ServedOn,
                Served, TradesNow, AuditNow, DaysNow
  <2> QED BY <1>1, <1>2, <2>1, <2>2 DEF IInv
<1> QED BY <1>4, <1>5, <1>6, <1>7, <1>8, <1>9, <1>10, <1>11 DEF Next

LEMMA SpecIInv == Spec => []IInv
BY InitIInv, StepIInv, PTL DEF Spec

\* A position is the sum of its lots, and is what the trades and the rows of audit_logs
\* explain, but for the lots a delisting found too young (apply_corp_actions, sell_fill).
THEOREM SharesExplained == Spec => []SharesAreExplained
<1>1. IInv => SharesAreExplained
  BY DEF IInv, BooksOK, Account, SharesAreExplained
<1> QED BY <1>1, SpecIInv, PTL

\* However often a day is tried again, and whatever the provider repeats, an account
\* has one row for an event (settle_key, corp_action_flags).
THEOREM EventsAppliedOnce == Spec => []EventsOnce
<1>1. IInv => EventsOnce
  BY DEF IInv, BooksOK, Account, EventsOnce
<1> QED BY <1>1, SpecIInv, PTL

\* After a settled day that the provider answered for, every lot of a day settled
\* before has had the day's events (_corp_split, _corp_dividend, _corp_rights, _corp_delist).
THEOREM EntitledServed == Spec => []EntitledAreServed
<1>1. IInv => EntitledAreServed
  BY DEF IInv, BooksOK
<1> QED BY <1>1, SpecIInv, PTL

\* Money is owed only after two calls of one day or a delisting or sale that cost more
\* than it brought (_corp_rights, _corp_delist, sell_fill).
THEOREM OverdraftExplained == Spec => []OverdraftNeedsTwoCalls
<1>1. IInv => OverdraftNeedsTwoCalls
  BY DEF IInv, BooksOK
<1> QED BY <1>1, SpecIInv, PTL
=============================================================================
