---------------------------- MODULE ScansProofs ----------------------------
(***************************************************************************)
(* Proofs about Scans, for every set of statements, of queries and of      *)
(* replies: however the scans of cursors overlap, what each gets, whose    *)
(* connection it finishes, and when what it reads has been freed.          *)
(***************************************************************************)
EXTENDS Scans, FiniteSetTheorems, SequenceTheorems, WellFoundedInduction, TLAPS


-----------------------------------------------------------------------------
(* The inductive invariant.                                                *)

AnyRow == [row : Nat] \cup [seq_no : Nat, chunk : Seq(STRING), is_final : BOOLEAN]
ScanState == [at : {"new", "open", "done", "left", "gone"}, serial : Nat, rows : Seq(AnyRow),
              got : Seq(AnyRow \cup {Garbage}), reply : Replies \cup {<<>>}]
Owner == ({"scan"} \X Portals \X Nat) \cup ({"reader"} \X Portals)

Shape ==
  /\ serial \in Nat
  /\ scan \in [Portals -> Seq(ScanState)]
  /\ \A p \in Portals : Len(scan[p]) = Len(Calls(p))
  /\ \A p \in Portals : portal[p].at = "unused" => portal[p].query = NoQuery
  /\ stack \in Seq(Owner)
  /\ running \in [portal : Portals \cup {NoPortal}, place : Nat]
  /\ running # NoCall => running.portal \in Portals
  /\ undefined \subseteq {p \in Portals : portal[p].at # "unused"}

Streams(c) == Fn(c[1], c[2]) \in OverStream
St(c) == scan[c[1]][c[2]]
Begun(c) == St(c).at # "new"

(* What the first call of a scan has found.                                *)
Found ==
  \A c \in Places : Begun(c) =>
    /\ St(c).serial <= serial
    /\ IF Streams(c) THEN St(c).reply \in Replies /\ St(c).rows = Rows(St(c).reply)
       ELSE Calls(c[1])[c[2]].limit >= 0 /\ St(c).rows \in RowsOf(c[1], c[2])

(* As long as nothing undefined happens, a scan gets rows it has found.    *)
Faithful ==
  \A c \in Places : c[1] \notin undefined =>
    \A i \in 1..Len(St(c).got) : St(c).got[i] = St(c).rows[i]

(* Above the connection of the reader there are those of its own scans.    *)
OwnScans(p) == {k \in DOMAIN scan[p] : Held(p, k)}
Reading ==
  reader # NoPortal =>
    /\ portal[reader].at = "open"
    /\ running # NoCall => running.portal = reader
    /\ IsFiniteSet(OwnScans(reader))
    /\ \E i \in 1..Len(stack) :
         stack[i] = ByReader(reader) /\ Len(stack) = i + Cardinality(OwnScans(reader))

Holders == {c \in Places : Held(c[1], c[2])}

(* A scan in FROM runs to its end before anything else does.               *)
FromRuns ==
  \A c \in Places : InFrom(c[1]) /\ St(c).at = "open" =>
    /\ running = [portal |-> c[1], place |-> c[2]]
    /\ OnTable(c[1], c[2]) => Top = ByScan(c[1], c[2])

(* Only a function that has finished in the row has left its context.      *)
ContextLeft ==
  context # Executor =>
    /\ running # NoCall /\ ~InFrom(running.portal)
    /\ \E k \in DOMAIN scan[running.portal] : k < running.place /\ OnTable(running.portal, k)

(* A connection is missing only when another scan has finished it.         *)
Connected ==
  \A c \in Places : St(c).at = "open" /\ OnTable(c[1], c[2]) =>
    \/ \E i \in 1..Len(stack) : stack[i] = ByScan(c[1], c[2])
    \/ \E t \in taken : t[1] = c /\ t[2] # c

(* The stack is in the order of the first calls.                           *)
Stacked ==
  /\ \A i \in 1..Len(stack), c \in Places : stack[i] = ByScan(c[1], c[2]) => Begun(c)
  /\ \A i, j \in 1..Len(stack), c, d \in Places :
       i < j /\ stack[i] = ByScan(c[1], c[2]) /\ stack[j] = ByScan(d[1], d[2]) =>
         St(c).serial < St(d).serial

Recalled == taken \subseteq {c \in Places : Begun(c)} \X {c \in Places : Begun(c)}

Later(t) ==
  /\ ~InFrom(t[1][1]) /\ ~InFrom(t[2][1])
  /\ St(t[2]).serial < St(t[1]).serial \/ \E u \in taken : u[1] = t[2] /\ u[2] # u[1]

Explained(p) ==
  /\ ~InFrom(p)
  /\ \/ \E t \in taken : t[1][1] = p /\ t[1] # t[2]
     \/ \E k \in DOMAIN scan[p] : k < Len(Calls(p)) /\ OnTable(p, k)

ScansInv ==
  /\ TypeOK /\ Shape /\ Found /\ Faithful /\ Reading
  /\ IsFiniteSet(Holders) /\ HoldingsBalance
  /\ FromRuns /\ ContextLeft /\ Connected /\ Stacked /\ Recalled
  /\ TakenFromLater /\ UndefinedExplained

-----------------------------------------------------------------------------
(* Places, owners and calls.                                               *)

LEMMA PlaceIs ==
  /\ \A c : c \in Places <=> \E p \in Portals : \E k \in DOMAIN scan[p] : c = <<p, k>>
  /\ \A p, k : <<p, k>> \in Places <=> p \in Portals /\ k \in DOMAIN scan[p]
  /\ \A c \in Places : c = <<c[1], c[2]>> /\ c[1] \in Portals /\ c[2] \in DOMAIN scan[c[1]]
BY DEF Places

LEMMA Owners ==
  ASSUME NEW p, NEW k, NEW q, NEW j
  PROVE  /\ ByScan(p, k) = ByScan(q, j) <=> p = q /\ k = j
         /\ ByReader(p) = ByReader(q) <=> p = q
         /\ ByScan(p, k) # ByReader(q) /\ ByScan(p, k) # Executor /\ ByReader(p) # Executor
         /\ SavedBy(ByScan(p, k)) = ByScan(p, k) /\ SavedBy(ByReader(p)) = Executor
         /\ SavedBy(Executor) = Executor
<1>1. /\ ByScan(p, k) = ByScan(q, j) <=> p = q /\ k = j
      /\ ByReader(p) = ByReader(q) <=> p = q
  BY DEF ByScan, ByReader
<1>2. Len(ByScan(p, k)) = 3 /\ Len(ByReader(q)) = 2 /\ Len(ByReader(p)) = 2 /\ Len(Executor) = 1
  BY DEF ByScan, ByReader, Executor
<1>3. ByScan(p, k) # ByReader(q) /\ ByScan(p, k) # Executor /\ ByReader(p) # Executor
  BY <1>2
<1> QED BY <1>1, <1>2, <1>3 DEF SavedBy

LEMMA QueryTyped ==
  ASSUME TypeOK, Shape, NEW p \in Portals
  PROVE  /\ Calls(p) \in Seq([fn : OverTable \cup OverHeap, limit : Int])
         /\ DOMAIN Calls(p) = 1..Len(Calls(p)) /\ Len(Calls(p)) \in Nat
         /\ scan[p] \in Seq(ScanState)
         /\ DOMAIN scan[p] = 1..Len(Calls(p))
         /\ portal[p].query.form \in {"from", "list"}
         /\ portal[p].snapshot \in Nat
         /\ \A k \in DOMAIN scan[p] : Calls(p)[k].limit \in Int /\ scan[p][k] \in ScanState
<1>1. portal[p].query \in Query
  <2>1. NoQuery \in Query
    BY DEF NoQuery, Query
  <2>2. portal[p].query \in Queries \cup {NoQuery}
    BY DEF TypeOK
  <2> QED BY <2>1, <2>2, ScansAssumption
<1>2. Calls(p) \in Seq([fn : OverTable \cup OverHeap, limit : Int])
      /\ portal[p].query.form \in {"from", "list"}
  BY <1>1 DEF Query, Calls
<1>3. DOMAIN Calls(p) = 1..Len(Calls(p)) /\ Len(Calls(p)) \in Nat
  BY <1>2, LenProperties
<1>4. scan[p] \in Seq(ScanState) /\ Len(scan[p]) = Len(Calls(p))
  BY DEF Shape
<1>5. DOMAIN scan[p] = 1..Len(Calls(p))
  BY <1>4, LenProperties
<1>6. portal[p].snapshot \in Nat
  BY ScansAssumption DEF TypeOK
<1>7. ASSUME NEW k \in DOMAIN scan[p] PROVE Calls(p)[k].limit \in Int /\ scan[p][k] \in ScanState
  <2>1. Calls(p)[k] \in [fn : OverTable \cup OverHeap, limit : Int]
    BY <1>2, <1>3, <1>5, <1>7, ElementOfSeq
  <2>2. scan[p][k] \in ScanState
    BY <1>4, <1>5, <1>7, ElementOfSeq
  <2> QED BY <2>1, <2>2
<1> QED BY <1>2, <1>3, <1>4, <1>5, <1>6, <1>7

LEMMA PlaceTyped ==
  ASSUME TypeOK, Shape, NEW c \in Places
  PROVE  /\ c[1] \in Portals /\ c[2] \in 1..Len(Calls(c[1])) /\ c = <<c[1], c[2]>>
         /\ St(c) \in ScanState
         /\ Len(St(c).got) \in Nat /\ Len(St(c).rows) \in Nat
<1>1. c[1] \in Portals /\ c[2] \in DOMAIN scan[c[1]] /\ c = <<c[1], c[2]>>
  BY PlaceIs
<1>2. St(c) \in ScanState /\ c[2] \in 1..Len(Calls(c[1]))
  BY <1>1, QueryTyped DEF St
<1>3. St(c).got \in Seq(AnyRow \cup {Garbage}) /\ St(c).rows \in Seq(AnyRow)
  BY <1>2 DEF ScanState
<1> QED BY <1>1, <1>2, <1>3, LenProperties

LEMMA Least ==
  ASSUME NEW T, T \subseteq Nat, T # {}
  PROVE  \E m \in T : \A x \in T : m <= x
<1> DEFINE R == OpToRel(<, Nat)
<1>1. IsWellFoundedOn(R, Nat)
  BY NatLessThanWellFounded, Zenon
<1>2. ASSUME NEW x \in T, NEW y \in T, y < x
      PROVE  <<y, x>> \in R
  <2>1. <<y, x>> \in Nat \X Nat /\ <<y, x>>[1] < <<y, x>>[2]
    BY <1>2
  <2> QED BY <2>1, Zenon DEF OpToRel
<1> HIDE DEF R
<1>3. PICK x \in T : \A y \in T : <<y, x>> \notin R
  BY <1>1, WFMin, Zenon
<1>4. ASSUME NEW y \in T, y < x
      PROVE  FALSE
  BY <1>2, <1>3, <1>4
<1>5. \A y \in T : x <= y
  BY <1>4
<1> QED BY <1>5

(* The call after one is further on in the row.                            *)
LEMMA AfterIs ==
  ASSUME TypeOK, Shape, NEW p \in Portals, NEW k \in Nat, k <= Len(Calls(p))
  PROVE  \E n \in (k + 1)..(Len(Calls(p)) + 1) :
           After(p, k) = [portal |-> p, place |-> n] /\ After(p, k) # NoCall
<1> DEFINE ahead == {j \in DOMAIN scan[p] : j > k /\ Unfinished(p, j)}
           l == Len(Calls(p))
           n == IF ahead = {} THEN l + 1
                ELSE CHOOSE j \in ahead : \A i \in ahead : j <= i
<1>1. DOMAIN scan[p] = 1..l /\ l \in Nat
  BY QueryTyped
<1>2. After(p, k) = [portal |-> p, place |-> n]
  BY DEF After
<1>3. n \in (k + 1)..(l + 1)
  <2>1. CASE ahead = {}
    BY <1>1, <2>1
  <2>2. CASE ahead # {}
    <3>1. ahead \subseteq Nat /\ ahead \subseteq (k + 1)..l
      BY <1>1
    <3> HIDE DEF ahead
    <3>2. \E j \in ahead : \A i \in ahead : j <= i
      BY <2>2, <3>1, Least
    <3>3. n \in ahead
      BY <2>2, <3>2
    <3> HIDE DEF n
    <3>4. n \in (k + 1)..l
      BY <3>1, <3>3
    <3> HIDE DEF l
    <3> QED BY <1>1, <3>4
  <2> QED BY <2>1, <2>2
<1>4. p # NoPortal
  BY ScansAssumption
<1> HIDE DEF n
<1> QED BY <1>2, <1>3, <1>4 DEF NoCall

-----------------------------------------------------------------------------
(* How steps change the scans.                                             *)

(* One scan.                                                               *)
LEMMA OneScanChanges ==
  ASSUME TypeOK, Shape, NEW p \in Portals, NEW k \in DOMAIN scan[p], NEW r \in ScanState,
         scan' = [scan EXCEPT ![p][k] = r]
  PROVE  /\ scan' \in [Portals -> Seq(ScanState)]
         /\ \A q \in Portals : Len(scan'[q]) = Len(scan[q]) /\ DOMAIN scan'[q] = DOMAIN scan[q]
         /\ Places' = Places
         /\ <<p, k>> \in Places /\ St(<<p, k>>) = scan[p][k] /\ St(<<p, k>>)' = r
         /\ \A c \in Places : c # <<p, k>> => St(c)' = St(c)
<1>1. scan \in [Portals -> Seq(ScanState)] /\ scan[p] \in Seq(ScanState)
  BY DEF Shape
<1>2. k \in 1..Len(scan[p])
  BY <1>1, LenProperties
<1>3. PICK f : f = [scan[p] EXCEPT ![k] = r]
  OBVIOUS
<1>4. f \in Seq(ScanState) /\ Len(f) = Len(scan[p]) /\ \A j \in 1..Len(scan[p]) : f[j] = IF j = k THEN r ELSE scan[p][j]
  BY <1>1, <1>2, <1>3, ExceptSeq
<1>5. scan' = [scan EXCEPT ![p] = f]
  BY <1>3
<1>6. scan'[p] = f /\ \A q \in Portals : q # p => scan'[q] = scan[q]
  BY <1>1, <1>5
<1>7. scan' \in [Portals -> Seq(ScanState)]
  BY <1>1, <1>4, <1>5
<1>8. ASSUME NEW q \in Portals
      PROVE  Len(scan'[q]) = Len(scan[q]) /\ DOMAIN scan'[q] = DOMAIN scan[q]
  <2>1. Len(scan'[q]) = Len(scan[q])
    BY <1>4, <1>6
  <2>2. scan'[q] \in Seq(ScanState) /\ scan[q] \in Seq(ScanState)
    BY <1>1, <1>7
  <2>3. DOMAIN scan'[q] = 1..Len(scan'[q]) /\ DOMAIN scan[q] = 1..Len(scan[q])
    BY <2>2, LenProperties
  <2> QED BY <2>1, <2>3
<1>9. Places' = Places
  BY <1>8 DEF Places
<1>10. <<p, k>> \in Places /\ St(<<p, k>>) = scan[p][k] /\ St(<<p, k>>)' = r
  BY <1>2, <1>4, <1>6, PlaceIs DEF St
<1>11. ASSUME NEW c \in Places, c # <<p, k>> PROVE St(c)' = St(c)
  <2>1. c = <<c[1], c[2]>> /\ c[1] \in Portals /\ c[2] \in DOMAIN scan[c[1]]
    BY PlaceIs
  <2>2. CASE c[1] = p
    <3>1. c[2] # k /\ c[2] \in 1..Len(scan[p])
      BY <1>1, <1>11, <2>1, <2>2, LenProperties
    <3> QED BY <1>4, <1>6, <2>2, <3>1 DEF St
  <2>3. CASE c[1] # p
    BY <1>6, <2>1, <2>3 DEF St
  <2> QED BY <2>2, <2>3
<1> QED BY <1>7, <1>8, <1>9, <1>10, <1>11

LEMMA AbandonedIs ==
  ASSUME NEW f \in Seq(ScanState), NEW ended \in {"left", "gone"}
  PROVE  /\ Abandoned(f, ended) \in Seq(ScanState) /\ Len(Abandoned(f, ended)) = Len(f)
         /\ DOMAIN Abandoned(f, ended) = DOMAIN f
         /\ \A k \in DOMAIN f :
              Abandoned(f, ended)[k] = IF f[k].at \in {"open", "left"} THEN [f[k] EXCEPT !.at = ended]
                                       ELSE f[k]
<1> DEFINE g == Abandoned(f, ended)
<1>1. DOMAIN f = 1..Len(f) /\ Len(f) \in Nat /\ \A k \in 1..Len(f) : f[k] \in ScanState
  BY LenProperties, ElementOfSeq
<1>2. g = [k \in DOMAIN f |-> IF f[k].at \in {"open", "left"} THEN [f[k] EXCEPT !.at = ended] ELSE f[k]]
  BY DEF Abandoned
<1>3. ASSUME NEW k \in DOMAIN f PROVE [f[k] EXCEPT !.at = ended] \in ScanState
  <2>1. f[k] \in ScanState
    BY <1>1
  <2> QED BY <2>1 DEF ScanState
<1>4. \A k \in DOMAIN f : g[k] \in ScanState
  BY <1>1, <1>2, <1>3
<1>5. g \in Seq(ScanState) /\ Len(g) = Len(f)
  BY <1>1, <1>2, <1>4
<1> QED BY <1>1, <1>2, <1>5

Pop == SubSeq(stack, 1, Len(stack) - 1)

LEMMA Popped ==
  ASSUME Shape, stack # <<>>
  PROVE  /\ Len(stack) \in Nat \ {0} /\ Pop \in Seq(Owner) /\ Len(Pop) = Len(stack) - 1
         /\ DOMAIN stack = 1..Len(stack) /\ DOMAIN Pop = 1..(Len(stack) - 1)
         /\ \A i \in 1..(Len(stack) - 1) : Pop[i] = stack[i]
         /\ Top = stack[Len(stack)]
<1>1. stack \in Seq(Owner)
  BY DEF Shape
<1>2. Len(stack) \in Nat \ {0} /\ DOMAIN stack = 1..Len(stack)
  BY <1>1
<1>3. PICK n : n = Len(stack) - 1
  OBVIOUS
<1>4. n \in Nat /\ \A i \in 1..n : stack[i] \in Owner
  BY <1>1, <1>2, <1>3
<1>5. /\ SubSeq(stack, 1, n) \in Seq(Owner)
      /\ Len(SubSeq(stack, 1, n)) = IF 1 <= n THEN n - 1 + 1 ELSE 0
      /\ \A i \in 1..(n - 1 + 1) : SubSeq(stack, 1, n)[i] = stack[1 + i - 1]
  BY <1>4, SubSeqProperties
<1>6. Len(SubSeq(stack, 1, n)) = n
  BY <1>4, <1>5
<1>7. \A i \in 1..n : SubSeq(stack, 1, n)[i] = stack[i]
  <2>1. n - 1 + 1 = n /\ \A i \in 1..n : 1 + i - 1 = i
    BY <1>4
  <2> QED BY <1>5, <2>1
<1>8. DOMAIN SubSeq(stack, 1, n) = 1..n
  BY <1>5, <1>6, LenProperties
<1> QED BY <1>2, <1>3, <1>5, <1>6, <1>7, <1>8 DEF Pop, Top

SameQueries ==
  \A p \in Portals : portal'[p].query = portal[p].query /\ portal'[p].snapshot = portal[p].snapshot

LEMMA QueriesStay ==
  ASSUME SameQueries, NEW p \in Portals
  PROVE  /\ Calls(p)' = Calls(p) /\ (InFrom(p)' <=> InFrom(p))
         /\ \A k : Fn(p, k)' = Fn(p, k) /\ (OnTable(p, k)' <=> OnTable(p, k))
                   /\ RowsOf(p, k)' = RowsOf(p, k)
<1>1. Calls(p)' = Calls(p) /\ (InFrom(p)' <=> InFrom(p)) /\ portal'[p].snapshot = portal[p].snapshot
  BY DEF SameQueries, Calls, InFrom
<1>2. \A k : Fn(p, k)' = Fn(p, k) /\ (OnTable(p, k)' <=> OnTable(p, k))
  BY <1>1 DEF Fn, OnTable
<1>3. ASSUME NEW k PROVE RowsOf(p, k)' = RowsOf(p, k)
  <2>1. Matching(p, k)' = Matching(p, k) /\ \A m : RowCount(p, k, m)' = RowCount(p, k, m)
    BY <1>1, <1>2 DEF Matching, RowCount
  <2> QED BY <2>1 DEF RowsOf, TableRows
<1> QED BY <1>1, <1>2, <1>3

(* What the histories say stays true as scans go on.                       *)
LEMMA HistoriesStay ==
  ASSUME ScansInv, SameQueries, Places' = Places, \A p \in Portals : DOMAIN scan'[p] = DOMAIN scan[p],
         \A c \in Places : Begun(c) => Begun(c)' /\ St(c)'.serial = St(c).serial,
         taken \subseteq taken',
         \A t \in taken' \ taken : /\ t \in {c \in Places : Begun(c)} \X {c \in Places : Begun(c)}
                                   /\ t[1] # t[2] => Later(t)',
         \A p \in undefined' \ undefined : p \in Portals /\ Explained(p)'
  PROVE  Recalled' /\ TakenFromLater' /\ UndefinedExplained'
<1>1. Recalled'
  BY DEF ScansInv, Recalled
<1>2. TakenFromLater'
  <2> SUFFICES ASSUME NEW t \in taken', t[1] # t[2] PROVE Later(t)'
    BY DEF TakenFromLater, Later, St
  <2>1. CASE t \in taken
    <3>1. /\ t[1] \in Places /\ t[2] \in Places /\ Begun(t[1]) /\ Begun(t[2])
      BY <2>1 DEF ScansInv, Recalled
    <3>2. Later(t)
      BY <2>1 DEF ScansInv, TakenFromLater, Later, St
    <3>3. /\ t[1][1] \in Portals /\ t[2][1] \in Portals
          /\ (InFrom(t[1][1])' <=> InFrom(t[1][1])) /\ (InFrom(t[2][1])' <=> InFrom(t[2][1]))
      BY <3>1, PlaceIs, QueriesStay
    <3>4. St(t[1])'.serial = St(t[1]).serial /\ St(t[2])'.serial = St(t[2]).serial
      BY <3>1
    <3>5. /\ ~InFrom(t[1][1])' /\ ~InFrom(t[2][1])'
          /\ St(t[2])'.serial < St(t[1])'.serial \/ \E u \in taken' : u[1] = t[2] /\ u[2] # u[1]
      BY <3>2, <3>3, <3>4 DEF Later
    <3> QED BY <3>5 DEF Later
  <2>2. CASE t \notin taken
    BY <2>2
  <2> QED BY <2>1, <2>2
<1>3. UndefinedExplained'
  <2> SUFFICES ASSUME NEW p \in undefined' PROVE Explained(p)'
    BY DEF UndefinedExplained, Explained
  <2>1. CASE p \in undefined
    <3>1. p \in Portals /\ Explained(p)
      BY <2>1 DEF ScansInv, Shape, UndefinedExplained, Explained
    <3> QED BY <3>1, QueriesStay DEF Explained
  <2>2. CASE p \notin undefined
    BY <2>2
  <2> QED BY <2>1, <2>2
<1> QED BY <1>1, <1>2, <1>3

(* Steps that touch no scan.                                               *)
LEMMA ScansStay ==
  ASSUME ScansInv, SameQueries, UNCHANGED <<scan, states, serial, taken, undefined>>,
         \A p \in Portals : portal'[p].at = "unused" <=> portal[p].at = "unused"
  PROVE  /\ Places' = Places /\ \A c : St(c)' = St(c)
         /\ \A c \in Places : Held(c[1], c[2])' <=> Held(c[1], c[2])
         /\ \A p \in Portals : OwnScans(p)' = OwnScans(p)
         /\ Found' /\ Faithful' /\ Holders' = Holders /\ IsFiniteSet(Holders')
         /\ Recalled' /\ TakenFromLater' /\ UndefinedExplained'
<1>1. Places' = Places /\ \A c : St(c)' = St(c)
  BY DEF Places, St
<1>2. ASSUME NEW c \in Places PROVE Held(c[1], c[2])' <=> Held(c[1], c[2])
  <2>1. c[1] \in Portals
    BY PlaceIs
  <2> QED BY <2>1, QueriesStay DEF Held
<1>3. ASSUME NEW p \in Portals PROVE OwnScans(p)' = OwnScans(p)
  BY QueriesStay DEF OwnScans, Held
<1>4. Found'
  <2> SUFFICES ASSUME NEW c \in Places, Begun(c)
               PROVE  /\ St(c).serial <= serial
                      /\ IF Streams(c)' THEN St(c).reply \in Replies /\ St(c).rows = Rows(St(c).reply)
                         ELSE Calls(c[1])'[c[2]].limit >= 0 /\ St(c).rows \in RowsOf(c[1], c[2])'
    BY <1>1 DEF Found, Begun
  <2>1. c[1] \in Portals
    BY PlaceIs
  <2>2. /\ (Streams(c)' <=> Streams(c)) /\ Calls(c[1])' = Calls(c[1])
        /\ RowsOf(c[1], c[2])' = RowsOf(c[1], c[2])
    BY <2>1, QueriesStay DEF Streams
  <2> QED BY <2>2 DEF ScansInv, Found
<1>5. Faithful'
  BY <1>1 DEF ScansInv, Faithful
<1>6. Holders' = Holders /\ IsFiniteSet(Holders')
  BY <1>1, <1>2 DEF ScansInv, Holders
<1>7. Recalled' /\ TakenFromLater' /\ UndefinedExplained'
  <2>1. \A c \in Places : Begun(c) => Begun(c)' /\ St(c)'.serial = St(c).serial
    BY <1>1 DEF Begun
  <2> QED BY <1>1, <2>1, HistoriesStay
<1> QED BY <1>1, <1>2, <1>3, <1>4, <1>5, <1>6, <1>7

(* A reader whose scans have all finished is on top.                       *)
LEMMA ReaderOnTop ==
  ASSUME ScansInv, NEW p \in Portals, reader = p, Exhausted(p)
  PROVE  stack # <<>> /\ Top = ByReader(p)
<1>1. p # NoPortal
  BY ScansAssumption
<1>2. OwnScans(p) = {}
  BY DEF OwnScans, Held, Exhausted
<1>3. PICK i \in 1..Len(stack) : stack[i] = ByReader(p) /\ Len(stack) = i + Cardinality(OwnScans(p))
  BY <1>1 DEF ScansInv, Reading
<1>4. Cardinality(OwnScans(p)) = 0
  BY <1>2, FS_EmptySet
<1>5. stack \in Seq(Owner)
  BY DEF ScansInv, Shape
<1>6. Len(stack) = i /\ stack # <<>>
  BY <1>3, <1>4, <1>5
<1> QED BY <1>3, <1>6 DEF Top

-----------------------------------------------------------------------------
(* Steps that call no function.                                            *)

LEMMA NothingMoves ==
  ASSUME ScansInv, stored' \in 0..MaxStored,
         UNCHANGED <<portal, scan, running, context, stack, states, reader, serial, taken, undefined>>
  PROVE  ScansInv'
<1>1. SameQueries
  BY DEF SameQueries
<1>2. /\ Places' = Places /\ \A c : St(c)' = St(c)
      /\ \A c \in Places : Held(c[1], c[2])' <=> Held(c[1], c[2])
      /\ \A p \in Portals : OwnScans(p)' = OwnScans(p)
      /\ Found' /\ Faithful' /\ Holders' = Holders /\ IsFiniteSet(Holders')
      /\ Recalled' /\ TakenFromLater' /\ UndefinedExplained'
  BY <1>1, ScansStay
<1>3. TypeOK'
  BY <1>2 DEF ScansInv, TypeOK, Calls
<1>4. Shape'
  BY DEF ScansInv, Shape, Calls
<1>5. Reading'
  <2>1. reader # NoPortal => reader \in Portals
    BY DEF ScansInv, TypeOK
  <2> QED BY <1>2, <2>1 DEF ScansInv, Reading
<1>6. HoldingsBalance'
  BY <1>2, Zenon DEF ScansInv, HoldingsBalance, OnTable, Fn, Calls, Held, Places
<1>7. FromRuns' /\ ContextLeft' /\ Connected' /\ Stacked'
  BY DEF ScansInv, FromRuns, ContextLeft, Connected, Stacked, OnTable, Fn, Calls, InFrom, St, Begun, Places, Top
<1> QED BY <1>2, <1>3, <1>4, <1>5, <1>6, <1>7 DEF ScansInv

(* No scan in FROM is open while none is called, or at the end of a row.   *)
LEMMA NoneInFrom ==
  ASSUME ScansInv, running = NoCall \/ \E p \in Portals : EndOfRow(p)
  PROVE  \A c \in Places : St(c).at = "open" => ~InFrom(c[1])
<1> SUFFICES ASSUME NEW c \in Places, St(c).at = "open", InFrom(c[1]) PROVE FALSE
  OBVIOUS
<1>1. running = [portal |-> c[1], place |-> c[2]]
  BY DEF ScansInv, FromRuns
<1>2. c[1] \in Portals /\ c[2] \in 1..Len(Calls(c[1])) /\ Len(Calls(c[1])) \in Nat
  BY PlaceTyped, QueryTyped DEF ScansInv
<1>3. running # NoCall
  BY <1>1, <1>2, ScansAssumption DEF NoCall
<1>4. PICK p \in Portals : running.portal = p /\ running.place = Len(Calls(p)) + 1
  BY <1>3 DEF EndOfRow
<1> QED BY <1>1, <1>2, <1>4

(* A row begins, is sent or printed: no scan moves, and the context is     *)
(* clean.                                                                  *)
LEMMA BetweenRows ==
  ASSUME ScansInv, SameQueries, UNCHANGED <<stored, scan, states, serial, taken, undefined>>,
         \A p \in Portals : portal'[p].at = "unused" <=> portal[p].at = "unused",
         portal' \in [Portals -> [at : {"unused", "open", "closed"},
                                  query : Queries \cup {NoQuery}, snapshot : 0..MaxStored]],
         running = NoCall \/ \E p \in Portals : EndOfRow(p),
         \/ running' = NoCall
         \/ \E p \in Portals : portal'[p].at = "open" /\ running' = After(p, 0) /\ reader' \in {NoPortal, p},
         context' = Executor,
         \/ UNCHANGED <<stack, reader>>
            /\ (reader # NoPortal => portal'[reader].at = "open" /\ running'.portal \in {NoPortal, reader})
         \/ reader # NoPortal /\ reader' = NoPortal /\ stack # <<>> /\ Top = ByReader(reader) /\ stack' = Pop
  PROVE  ScansInv'
<1>1. /\ Places' = Places /\ \A c : St(c)' = St(c)
      /\ \A c \in Places : Held(c[1], c[2])' <=> Held(c[1], c[2])
      /\ \A p \in Portals : OwnScans(p)' = OwnScans(p)
      /\ Found' /\ Faithful' /\ Holders' = Holders /\ IsFiniteSet(Holders')
      /\ Recalled' /\ TakenFromLater' /\ UndefinedExplained'
  BY ScansStay
<1>2. reader \in Portals \cup {NoPortal} /\ TypeOK /\ Shape
  BY DEF ScansInv, TypeOK
<1>3. /\ stack' \in Seq(Owner) /\ DOMAIN stack' \subseteq DOMAIN stack
      /\ \A i \in DOMAIN stack' : stack'[i] = stack[i]
      /\ DOMAIN stack = 1..Len(stack) /\ DOMAIN stack' = 1..Len(stack')
      /\ \A i \in DOMAIN stack : i \in DOMAIN stack' \/ stack[i] = ByReader(reader)
      /\ Len(stack') = Len(stack) + (IF reader' = NoPortal THEN 0 ELSE 1)
                                  - (IF reader = NoPortal THEN 0 ELSE 1)
  <2>1. CASE UNCHANGED <<stack, reader>>
    <3>1. stack \in Seq(Owner) /\ DOMAIN stack = 1..Len(stack) /\ Len(stack) \in Nat
      BY <1>2 DEF Shape
    <3> QED BY <2>1, <3>1
  <2>2. CASE reader # NoPortal /\ reader' = NoPortal /\ stack # <<>> /\ Top = ByReader(reader) /\ stack' = Pop
    BY <1>2, <2>2, Popped
  <2> QED BY <2>1, <2>2
<1>4. \/ running' = NoCall
      \/ \E p \in Portals : \E n \in 1..(Len(Calls(p)) + 1) :
           /\ running' = [portal |-> p, place |-> n]
           /\ portal'[p].at = "open" /\ Calls(p)' = Calls(p) /\ n \in Nat
  <2> SUFFICES ASSUME NEW p \in Portals, portal'[p].at = "open", running' = After(p, 0)
               PROVE  \E n \in 1..(Len(Calls(p)) + 1) :
                        running' = [portal |-> p, place |-> n] /\ Calls(p)' = Calls(p) /\ n \in Nat
    BY Zenon
  <2>1. Len(Calls(p)) \in Nat
    BY <1>2, QueryTyped
  <2>2. PICK n \in (0 + 1)..(Len(Calls(p)) + 1) : After(p, 0) = [portal |-> p, place |-> n]
    BY <1>2, <2>1, AfterIs
  <2> QED BY <2>1, <2>2, QueriesStay
<1>5. TypeOK'
  <2>1. \A p \in Portals :
          /\ DOMAIN scan'[p] = DOMAIN Calls(p)'
          /\ \A k \in DOMAIN scan'[p] :
               /\ scan'[p][k].at \in {"new", "open", "done", "left", "gone"}
               /\ Len(scan'[p][k].got) <= Len(scan'[p][k].rows)
               /\ scan'[p][k].at = "done" => Len(scan'[p][k].got) = Len(scan'[p][k].rows)
    BY <1>2, QueriesStay DEF TypeOK
  <2>2. running' = NoCall \/ (/\ portal'[running'.portal].at = "open"
                              /\ running'.place \in 1..(Len(Calls(running.portal)') + 1))
    <3>1. ASSUME NEW p \in Portals, NEW n \in 1..(Len(Calls(p)) + 1),
                 running' = [portal |-> p, place |-> n], portal'[p].at = "open", Calls(p)' = Calls(p)
          PROVE  /\ portal'[running'.portal].at = "open"
                 /\ running'.place \in 1..(Len(Calls(running.portal)') + 1)
      <4>1. running'.portal = p /\ running'.place = n
        BY <3>1
      <4>2. Calls(running.portal)' = Calls(p)
        BY <3>1, <4>1 DEF Calls
      <4> QED BY <3>1, <4>1, <4>2
    <3> QED BY <1>4, <3>1
  <2>3. \A i \in DOMAIN stack' : \/ \E c \in Places' : stack'[i] = ByScan(c[1], c[2])
                                 \/ \E p \in Portals : stack'[i] = ByReader(p)
    <3>1. \A i \in DOMAIN stack : \/ \E c \in Places : stack[i] = ByScan(c[1], c[2])
                                  \/ \E p \in Portals : stack[i] = ByReader(p)
      BY <1>2 DEF TypeOK
    <3>2. Places' = Places
      BY <1>1
    <3>3. \A i \in DOMAIN stack' : i \in DOMAIN stack /\ stack'[i] = stack[i]
      BY <1>3
    <3>4. ASSUME NEW i \in DOMAIN stack'
          PROVE  \/ \E c \in Places' : stack'[i] = ByScan(c[1], c[2])
                 \/ \E p \in Portals : stack'[i] = ByReader(p)
      <4>1. i \in DOMAIN stack /\ stack'[i] = stack[i]
        BY <3>3, Zenon
      <4>2. CASE \E c \in Places : stack[i] = ByScan(c[1], c[2])
        <5>1. PICK c \in Places : stack[i] = ByScan(c[1], c[2])
          BY <4>2
        <5>2. stack'[i] = ByScan(c[1], c[2]) /\ c \in Places'
          BY <3>2, <4>1, <5>1
        <5> QED BY <5>2, Zenon
      <4>3. CASE \E p \in Portals : stack[i] = ByReader(p)
        <5>1. PICK p \in Portals : stack[i] = ByReader(p)
          BY <4>3
        <5>2. stack'[i] = ByReader(p)
          BY <4>1, <5>1
        <5> QED BY <5>2, Zenon
      <4> QED BY <3>1, <4>1, <4>2, <4>3, Zenon
    <3> QED BY <3>4, Zenon
  <2>4. states' \subseteq Places' /\ reader' \in Portals \cup {NoPortal} /\ undefined' \subseteq Portals
        /\ stored' \in 0..MaxStored
    BY <1>1, <1>2 DEF TypeOK
  <2> QED BY <2>1, <2>2, <2>3, <2>4, Zenon DEF TypeOK
<1>6. Shape'
  <2>1. \A p \in Portals : Len(scan'[p]) = Len(Calls(p)')
    BY <1>2, QueriesStay DEF Shape
  <2>2. \A p \in Portals : portal'[p].at = "unused" => portal'[p].query = NoQuery
    BY <1>2 DEF Shape, SameQueries
  <2>3. running' \in [portal : Portals \cup {NoPortal}, place : Nat] /\ (running' # NoCall => running'.portal \in Portals)
    BY <1>4 DEF NoCall
  <2>4. undefined' \subseteq {p \in Portals : portal'[p].at # "unused"}
    BY <1>2 DEF Shape
  <2> QED BY <1>2, <1>3, <2>1, <2>2, <2>3, <2>4 DEF Shape, Calls
<1>7. Reading'
  <2> SUFFICES ASSUME reader' # NoPortal PROVE Reading'
    BY DEF Reading
  <2>1. reader' = reader /\ stack' = stack /\ reader \in Portals /\ reader # NoPortal
    BY <1>2
  <2>2. portal'[reader].at = "open" /\ (running' # NoCall => running'.portal = reader)
    BY <1>4, <2>1, ScansAssumption
  <2> QED BY <1>1, <2>1, <2>2 DEF Reading, ScansInv
<1>8. HoldingsBalance'
  <2>1. Len(stack) = Cardinality(Holders) + IF reader = NoPortal THEN 0 ELSE 1
    BY DEF ScansInv, HoldingsBalance, Holders
  <2>2. Cardinality(Holders) \in Nat
    BY FS_CardinalityType DEF ScansInv
  <2>3. Len(stack') = Cardinality(Holders') + IF reader' = NoPortal THEN 0 ELSE 1
    BY <1>1, <1>3, <2>1, <2>2
  <2>4. \A c \in Places :
          /\ scan[c[1]][c[2]].at = "open" /\ ~OnTable(c[1], c[2]) => c \in states
          /\ scan[c[1]][c[2]].at = "done" => c \notin states
    BY DEF ScansInv, HoldingsBalance
  <2>5. \A c \in Places : OnTable(c[1], c[2])' <=> OnTable(c[1], c[2])
    BY PlaceIs, QueriesStay
  <2> QED BY <1>1, <2>3, <2>4, <2>5 DEF HoldingsBalance, Holders
<1>9. FromRuns'
  BY <1>1, NoneInFrom, PlaceIs, QueriesStay DEF FromRuns
<1>10. ContextLeft'
  BY DEF ContextLeft
<1>11. Connected'
  <2> SUFFICES ASSUME NEW c \in Places, St(c).at = "open", OnTable(c[1], c[2])
               PROVE  \/ \E i \in 1..Len(stack') : stack'[i] = ByScan(c[1], c[2])
                      \/ \E t \in taken : t[1] = c /\ t[2] # c
    BY <1>1, PlaceIs, QueriesStay DEF Connected
  <2>1. \/ \E i \in 1..Len(stack) : stack[i] = ByScan(c[1], c[2])
        \/ \E t \in taken : t[1] = c /\ t[2] # c
    BY DEF ScansInv, Connected
  <2>2. ByScan(c[1], c[2]) # ByReader(reader)
    BY Owners
  <2> QED BY <1>3, <2>1, <2>2
<1>12. Stacked'
  <2>1. \A i \in 1..Len(stack') : i \in 1..Len(stack) /\ stack'[i] = stack[i]
    BY <1>3
  <2> QED BY <1>1, <2>1 DEF ScansInv, Stacked, Begun
<1> QED BY <1>1, <1>5, <1>6, <1>7, <1>8, <1>9, <1>10, <1>11, <1>12 DEF ScansInv

LEMMA RowKeeps ==
  ASSUME ScansInv, NEW p \in Portals, Fetch(p) \/ SendRow(p) \/ PrintRow(p)
  PROVE  ScansInv'
<1>1. /\ UNCHANGED <<stored, scan, states, serial, taken, undefined>>
      /\ context' = Executor
      /\ running = NoCall \/ EndOfRow(p)
  BY DEF Fetch, SendRow, PrintRow
<1>2. portal[p].at = "open" /\ p # NoPortal
  <2>1. p # NoPortal
    BY ScansAssumption
  <2>2. running = NoCall \/ portal[running.portal].at = "open"
    BY DEF ScansInv, TypeOK
  <2> QED BY <2>1, <2>2 DEF Fetch, SendRow, PrintRow, EndOfRow, NoCall
<1>3. portal' = portal \/ portal' = [portal EXCEPT ![p].at = "closed"]
  BY DEF Fetch, SendRow, PrintRow
<1>4. portal \in [Portals -> [at : {"unused", "open", "closed"},
                              query : Queries \cup {NoQuery}, snapshot : 0..MaxStored]]
  BY DEF ScansInv, TypeOK
<1>5. /\ SameQueries
      /\ \A q \in Portals : portal'[q].at = "unused" <=> portal[q].at = "unused"
      /\ portal' \in [Portals -> [at : {"unused", "open", "closed"},
                                  query : Queries \cup {NoQuery}, snapshot : 0..MaxStored]]
      /\ \A q \in Portals : q # p => portal'[q] = portal[q]
  <2>1. CASE portal' = portal
    BY <1>4, <2>1 DEF SameQueries
  <2>2. CASE portal' = [portal EXCEPT ![p].at = "closed"]
    BY <1>2, <1>4, <2>2 DEF SameQueries
  <2> QED BY <1>3, <2>1, <2>2
<1>6. reader # NoPortal =>
        reader \in Portals /\ portal[reader].at = "open" /\ (running # NoCall => running.portal = reader)
  BY DEF ScansInv, TypeOK, Reading
<1>7. CASE Fetch(p)
  <2>1. /\ reader \in {NoPortal, p} /\ portal' = portal /\ running' = After(p, 0)
        /\ UNCHANGED <<stack, reader>>
    BY <1>7 DEF Fetch
  <2>2. running'.portal = p
    BY <2>1 DEF After
  <2> QED BY <1>1, <1>2, <1>5, <1>6, <2>1, <2>2, BetweenRows
<1>8. CASE SendRow(p)
  <2>1. EndOfRow(p) /\ reader # p /\ running' = NoCall /\ UNCHANGED <<stack, reader>>
    BY <1>8 DEF SendRow
  <2>2. reader = NoPortal
    BY <1>2, <1>6, <2>1 DEF EndOfRow, NoCall
  <2> QED BY <1>1, <1>5, <2>1, <2>2, BetweenRows
<1>9. CASE PrintRow(p) /\ Exhausted(p)
  <2>1. reader = p /\ running' = NoCall /\ reader' = NoPortal /\ stack' = Pop
    BY <1>9 DEF PrintRow, Pop
  <2>2. stack # <<>> /\ Top = ByReader(p)
    BY <1>9, <2>1, ReaderOnTop
  <2> QED BY <1>1, <1>2, <1>5, <2>1, <2>2, BetweenRows
<1>10. CASE PrintRow(p) /\ ~Exhausted(p)
  <2>1. reader = p /\ running' = After(p, 0) /\ UNCHANGED <<portal, reader, stack>>
    BY <1>10 DEF PrintRow
  <2>2. running'.portal = p
    BY <2>1 DEF After
  <2> QED BY <1>1, <1>2, <1>5, <2>1, <2>2, BetweenRows
<1> QED BY <1>7, <1>8, <1>9, <1>10

(* A new statement has nothing yet.                                        *)
LEMMA OpenKeeps ==
  ASSUME ScansInv, NEW p \in Portals, NEW q \in Queries, Open(p, q)
  PROVE  ScansInv'
<1>1. /\ running = NoCall /\ reader = NoPortal /\ portal[p].at = "unused"
      /\ portal' = [portal EXCEPT ![p] = [at |-> "open", query |-> q, snapshot |-> stored]]
      /\ scan' = [scan EXCEPT ![p] = [k \in DOMAIN q.calls |-> NewScan]]
      /\ \/ reader' = p /\ stack' = Append(stack, ByReader(p))
         \/ UNCHANGED <<reader, stack>>
      /\ UNCHANGED <<stored, running, context, states, serial, taken, undefined>>
  BY DEF Open
<1>2. TypeOK /\ Shape
  BY DEF ScansInv
<1>3. /\ portal \in [Portals -> [at : {"unused", "open", "closed"},
                                 query : Queries \cup {NoQuery}, snapshot : 0..MaxStored]]
      /\ stored \in 0..MaxStored /\ p # NoPortal
  BY <1>2, ScansAssumption DEF TypeOK
<1>4. /\ portal'[p] = [at |-> "open", query |-> q, snapshot |-> stored]
      /\ \A x \in Portals : x # p => portal'[x] = portal[x]
      /\ portal' \in [Portals -> [at : {"unused", "open", "closed"},
                                  query : Queries \cup {NoQuery}, snapshot : 0..MaxStored]]
  BY <1>1, <1>3
<1>5. PICK f : f = [k \in DOMAIN q.calls |-> NewScan]
  OBVIOUS
<1>6. f \in Seq(ScanState) /\ Len(f) = Len(q.calls) /\ DOMAIN f = DOMAIN q.calls /\ \A k \in DOMAIN f : f[k] = NewScan
  <2>1. q.calls \in Seq([fn : OverTable \cup OverHeap, limit : Int])
    BY ScansAssumption DEF Query
  <2>2. Len(q.calls) \in Nat /\ DOMAIN q.calls = 1..Len(q.calls)
    BY <2>1, LenProperties
  <2>3. NewScan \in ScanState
    BY DEF NewScan, ScanState
  <2> QED BY <1>5, <2>2, <2>3
<1>7. /\ scan'[p] = f /\ \A x \in Portals : x # p => scan'[x] = scan[x]
      /\ scan' \in [Portals -> Seq(ScanState)]
  BY <1>1, <1>2, <1>5, <1>6 DEF Shape
<1>8. DOMAIN scan[p] = {}
  <2>1. Calls(p) = <<>>
    BY <1>1, <1>2 DEF Shape, Calls, NoQuery
  <2>2. DOMAIN scan[p] = 1..Len(Calls(p))
    BY <1>2, QueryTyped
  <2> QED BY <2>1, <2>2
<1>9. \A c \in Places' : \/ c \in Places /\ c[1] # p /\ St(c)' = St(c)
                         \/ c[1] = p /\ St(c)' = NewScan
  <2> SUFFICES ASSUME NEW x \in Portals, NEW k \in DOMAIN scan'[x]
               PROVE  \/ <<x, k>> \in Places /\ x # p /\ scan'[x][k] = scan[x][k]
                      \/ x = p /\ scan'[x][k] = NewScan
    BY DEF Places, St
  <2> QED BY <1>6, <1>7, PlaceIs
<1>10. \A c \in Places : c \in Places' /\ c[1] # p /\ St(c)' = St(c)
  <2> SUFFICES ASSUME NEW x \in Portals, NEW k \in DOMAIN scan[x]
               PROVE  <<x, k>> \in Places' /\ x # p /\ scan'[x][k] = scan[x][k]
    BY DEF Places, St
  <2> QED BY <1>7, <1>8 DEF Places
<1>11. \A x \in Portals : x # p =>
         /\ Calls(x)' = Calls(x) /\ (InFrom(x)' <=> InFrom(x))
         /\ \A k : Fn(x, k)' = Fn(x, k) /\ (OnTable(x, k)' <=> OnTable(x, k))
                   /\ RowsOf(x, k)' = RowsOf(x, k)
  BY <1>4 DEF Calls, InFrom, Fn, OnTable, RowsOf, TableRows, Matching, RowCount
<1>12. \A c \in Places : /\ c[1] \in Portals /\ (OnTable(c[1], c[2])' <=> OnTable(c[1], c[2]))
                         /\ (InFrom(c[1])' <=> InFrom(c[1])) /\ (Held(c[1], c[2])' <=> Held(c[1], c[2]))
  BY <1>10, <1>11, PlaceIs DEF Held, St
<1>13. NewScan.at = "new" /\ NewScan.got = <<>> /\ NewScan.rows = <<>>
  BY DEF NewScan
<1>14. /\ stack' \in Seq(Owner) /\ DOMAIN stack = 1..Len(stack) /\ Len(stack) \in Nat
       /\ DOMAIN stack' = 1..Len(stack') /\ Len(stack') \in Nat
       /\ \A i \in 1..Len(stack') : \/ i \in 1..Len(stack) /\ stack'[i] = stack[i]
                                    \/ stack'[i] = ByReader(p)
       /\ \A i \in 1..Len(stack) : i \in 1..Len(stack') /\ stack'[i] = stack[i]
       /\ Len(stack') = Len(stack) + IF reader' = NoPortal THEN 0 ELSE 1
       /\ reader' # NoPortal => reader' = p /\ stack'[Len(stack')] = ByReader(p)
  <2>1. stack \in Seq(Owner) /\ ByReader(p) \in Owner
    BY <1>2 DEF Shape, ByReader, Owner
  <2>2. DOMAIN stack = 1..Len(stack) /\ Len(stack) \in Nat
    BY <2>1, LenProperties
  <2>3. CASE reader' = p /\ stack' = Append(stack, ByReader(p))
    BY <1>3, <2>1, <2>2, <2>3, AppendProperties, LenProperties
  <2>4. CASE UNCHANGED <<reader, stack>>
    BY <1>1, <2>1, <2>2, <2>4
  <2> QED BY <1>1, <2>3, <2>4
<1>15. TypeOK'
  <2>1. ASSUME NEW x \in Portals
        PROVE  /\ DOMAIN scan'[x] = DOMAIN Calls(x)'
               /\ \A k \in DOMAIN scan'[x] :
                    /\ scan'[x][k].at \in {"new", "open", "done", "left", "gone"}
                    /\ Len(scan'[x][k].got) <= Len(scan'[x][k].rows)
                    /\ scan'[x][k].at = "done" => Len(scan'[x][k].got) = Len(scan'[x][k].rows)
    <3>1. CASE x = p
      <4>1. Calls(p)' = q.calls
        BY <1>4 DEF Calls
      <4> QED BY <1>6, <1>7, <1>13, <3>1, <4>1
    <3>2. CASE x # p
      BY <1>2, <1>7, <1>11, <3>2 DEF TypeOK
    <3> QED BY <3>1, <3>2
  <2>2. \A i \in DOMAIN stack' : \/ \E c \in Places' : stack'[i] = ByScan(c[1], c[2])
                                 \/ \E x \in Portals : stack'[i] = ByReader(x)
    <3>1. \A i \in 1..Len(stack) : \/ \E c \in Places : stack[i] = ByScan(c[1], c[2])
                                   \/ \E x \in Portals : stack[i] = ByReader(x)
      BY <1>2, <1>14 DEF TypeOK
    <3> QED BY <1>10, <1>14, <3>1
  <2>3. /\ stored' \in 0..MaxStored /\ running' = NoCall /\ states' \subseteq Places'
        /\ reader' \in Portals \cup {NoPortal} /\ undefined' \subseteq Portals
    BY <1>1, <1>2, <1>10, <1>14 DEF TypeOK
  <2> QED BY <1>4, <2>1, <2>2, <2>3, Zenon DEF TypeOK
<1>16. Shape'
  <2>1. \A x \in Portals : Len(scan'[x]) = Len(Calls(x)')
    <3>1. Calls(p)' = q.calls
      BY <1>4 DEF Calls
    <3> QED BY <1>2, <1>6, <1>7, <1>11, <3>1 DEF Shape
  <2>2. \A x \in Portals : portal'[x].at = "unused" => portal'[x].query = NoQuery
    <3>1. portal'[p].at = "open"
      BY <1>4
    <3> QED BY <1>2, <1>4, <3>1 DEF Shape
  <2>3. undefined' \subseteq {x \in Portals : portal'[x].at # "unused"}
    BY <1>1, <1>2, <1>4 DEF Shape
  <2>4. serial' \in Nat /\ running' = running /\ running = NoCall
    BY <1>1, <1>2 DEF Shape
  <2> QED BY <1>2, <1>7, <1>14, <2>1, <2>2, <2>3, <2>4 DEF Shape
<1>17. Found'
  <2> SUFFICES ASSUME NEW c \in Places', Begun(c)'
               PROVE  /\ St(c)'.serial <= serial'
                      /\ IF Streams(c)' THEN St(c)'.reply \in Replies /\ St(c)'.rows = Rows(St(c)'.reply)
                         ELSE Calls(c[1])'[c[2]].limit >= 0 /\ St(c)'.rows \in RowsOf(c[1], c[2])'
    BY DEF Found
  <2>1. c \in Places /\ c[1] # p /\ St(c)' = St(c) /\ Begun(c)
    BY <1>9, <1>13 DEF Begun
  <2>2. /\ c[1] \in Portals /\ Calls(c[1])' = Calls(c[1]) /\ RowsOf(c[1], c[2])' = RowsOf(c[1], c[2])
        /\ (Streams(c)' <=> Streams(c))
    BY <1>11, <2>1, PlaceIs DEF Streams
  <2> QED BY <1>1, <2>1, <2>2 DEF ScansInv, Found
<1>18. Faithful'
  <2> SUFFICES ASSUME NEW c \in Places', c[1] \notin undefined, NEW i \in 1..Len(St(c)'.got)
               PROVE  St(c)'.got[i] = St(c)'.rows[i]
    BY <1>1 DEF Faithful
  <2>1. c \in Places /\ St(c)' = St(c)
    BY <1>9, <1>13
  <2> QED BY <2>1 DEF ScansInv, Faithful
<1>19. Reading'
  <2> SUFFICES ASSUME reader' # NoPortal PROVE Reading'
    BY DEF Reading
  <2>1. reader' = p /\ stack'[Len(stack')] = ByReader(p) /\ Len(stack') \in 1..Len(stack')
    BY <1>14
  <2>2. OwnScans(p)' = {}
    BY <1>6, <1>7, <1>13 DEF OwnScans, Held
  <2>3. IsFiniteSet(OwnScans(p)') /\ Cardinality(OwnScans(p)') = 0
    BY <2>2, FS_EmptySet
  <2>4. portal'[p].at = "open" /\ running' = NoCall
    BY <1>1, <1>4
  <2>5. OwnScans(reader)' = OwnScans(p)'
    BY <2>1 DEF OwnScans, Held, OnTable, Fn, Calls
  <2>6. Len(stack') = Len(stack') + Cardinality(OwnScans(reader)')
    BY <1>14, <2>3, <2>5
  <2> QED BY <2>1, <2>3, <2>4, <2>5, <2>6 DEF Reading
<1>20. Holders' = Holders
  <2>1. \A c \in Places' \ Places : ~Held(c[1], c[2])'
    BY <1>9, <1>13 DEF Held, St
  <2> QED BY <1>10, <1>12, <2>1 DEF Holders
<1>21. HoldingsBalance'
  <2>1. Len(stack) = Cardinality(Holders)
    <3>1. Len(stack) = Cardinality(Holders) + 0
      BY <1>1 DEF ScansInv, HoldingsBalance, Holders
    <3>2. Cardinality(Holders) \in Nat
      BY FS_CardinalityType DEF ScansInv
    <3> QED BY <3>1, <3>2
  <2>2. Len(stack') = Cardinality(Holders') + IF reader' = NoPortal THEN 0 ELSE 1
    BY <1>14, <1>20, <2>1
  <2>3. ASSUME NEW c \in Places'
        PROVE  /\ scan'[c[1]][c[2]].at = "open" /\ ~OnTable(c[1], c[2])' => c \in states'
               /\ scan'[c[1]][c[2]].at = "done" => c \notin states'
    <3>1. CASE c \in Places /\ St(c)' = St(c)
      BY <1>1, <1>12, <3>1 DEF ScansInv, HoldingsBalance, St
    <3>2. CASE St(c)' = NewScan
      BY <1>13, <3>2 DEF St
    <3> QED BY <1>9, <3>1, <3>2
  <2> QED BY <2>2, <2>3 DEF HoldingsBalance, Holders
<1>22. FromRuns'
  <2> SUFFICES ASSUME NEW c \in Places', InFrom(c[1])', St(c)'.at = "open" PROVE FALSE
    BY DEF FromRuns
  <2>1. c \in Places /\ St(c)' = St(c)
    BY <1>9, <1>13
  <2> QED BY <1>1, <1>12, <2>1, NoneInFrom
<1>23. ContextLeft'
  BY <1>1 DEF ScansInv, ContextLeft
<1>24. Connected'
  <2> SUFFICES ASSUME NEW c \in Places', St(c)'.at = "open", OnTable(c[1], c[2])'
               PROVE  \/ \E i \in 1..Len(stack') : stack'[i] = ByScan(c[1], c[2])
                      \/ \E t \in taken : t[1] = c /\ t[2] # c
    BY <1>1 DEF Connected
  <2>1. c \in Places /\ St(c)' = St(c)
    BY <1>9, <1>13
  <2>2. \/ \E i \in 1..Len(stack) : stack[i] = ByScan(c[1], c[2])
        \/ \E t \in taken : t[1] = c /\ t[2] # c
    BY <1>12, <2>1 DEF ScansInv, Connected
  <2> QED BY <1>14, <2>2
<1>25. Stacked'
  <2>1. ASSUME NEW i \in 1..Len(stack'), NEW c \in Places', stack'[i] = ByScan(c[1], c[2])
        PROVE  i \in 1..Len(stack) /\ stack[i] = stack'[i] /\ c \in Places /\ St(c)' = St(c) /\ Begun(c)
    <3>1. ByScan(c[1], c[2]) # ByReader(p)
      BY Owners
    <3>2. i \in 1..Len(stack) /\ stack[i] = stack'[i]
      BY <1>14, <2>1, <3>1
    <3>3. PICK d \in Places : stack[i] = ByScan(d[1], d[2])
      <4>1. \/ \E d \in Places : stack[i] = ByScan(d[1], d[2])
            \/ \E x \in Portals : stack[i] = ByReader(x)
        BY <1>2, <1>14, <3>2 DEF TypeOK
      <4> QED BY <2>1, <3>2, <4>1, Owners
    <3>4. c[1] = d[1] /\ c[2] = d[2]
      <4>1. ByScan(c[1], c[2]) = ByScan(d[1], d[2])
        BY <2>1, <3>2, <3>3
      <4> QED BY <4>1, Owners
    <3>5. c[1] # p
      BY <1>10, <3>4
    <3>6. c \in Places /\ St(c)' = St(c)
      BY <1>9, <3>5
    <3> QED BY <2>1, <3>2, <3>6 DEF ScansInv, Stacked
  <2>2. ASSUME NEW i \in 1..Len(stack'), NEW j \in 1..Len(stack'), NEW c \in Places', NEW d \in Places',
               i < j, stack'[i] = ByScan(c[1], c[2]), stack'[j] = ByScan(d[1], d[2])
        PROVE  St(c)'.serial < St(d)'.serial
    <3>1. i \in 1..Len(stack) /\ stack[i] = stack'[i] /\ c \in Places /\ St(c)' = St(c)
      BY <2>1, <2>2
    <3>2. j \in 1..Len(stack) /\ stack[j] = stack'[j] /\ d \in Places /\ St(d)' = St(d)
      BY <2>1, <2>2
    <3> QED BY <2>2, <3>1, <3>2 DEF ScansInv, Stacked
  <2> QED BY <2>1, <2>2 DEF Stacked, Begun
<1>26. Recalled'
  BY <1>1, <1>10 DEF ScansInv, Recalled, Begun
<1>27. TakenFromLater'
  <2> SUFFICES ASSUME NEW t \in taken, t[1] # t[2] PROVE Later(t)'
    BY <1>1 DEF TakenFromLater, Later, St
  <2>1. t[1] \in Places /\ t[2] \in Places
    BY DEF ScansInv, Recalled
  <2>2. Later(t)
    BY DEF ScansInv, TakenFromLater, Later, St
  <2> QED BY <1>1, <1>10, <1>12, <2>1, <2>2 DEF Later
<1>28. UndefinedExplained'
  <2> SUFFICES ASSUME NEW x \in undefined PROVE Explained(x)'
    BY <1>1 DEF UndefinedExplained, Explained
  <2>1. x \in Portals /\ x # p
    BY <1>1, <1>2 DEF Shape
  <2>2. Explained(x)
    BY DEF ScansInv, UndefinedExplained, Explained
  <2> QED BY <1>1, <1>7, <1>11, <2>1, <2>2 DEF Explained
<1> QED
  BY <1>15, <1>16, <1>17, <1>18, <1>19, <1>20, <1>21, <1>22, <1>23, <1>24, <1>25, <1>26, <1>27, <1>28
  DEF ScansInv

(* Steps after which what scans have found is the same.                    *)
LEMMA FoundStays ==
  ASSUME ScansInv, SameQueries, Places' = Places, UNCHANGED serial,
         \A c \in Places : /\ Begun(c)' <=> Begun(c)
                           /\ St(c)'.serial = St(c).serial /\ St(c)'.rows = St(c).rows
                           /\ St(c)'.reply = St(c).reply
  PROVE  Found'
<1> SUFFICES ASSUME NEW c \in Places, Begun(c)
             PROVE  /\ St(c)'.serial <= serial
                    /\ IF Streams(c)' THEN St(c)'.reply \in Replies /\ St(c)'.rows = Rows(St(c)'.reply)
                       ELSE Calls(c[1])'[c[2]].limit >= 0 /\ St(c)'.rows \in RowsOf(c[1], c[2])'
  BY DEF Found
<1>1. c[1] \in Portals
  BY PlaceIs
<1>2. /\ (Streams(c)' <=> Streams(c)) /\ Calls(c[1])' = Calls(c[1])
      /\ RowsOf(c[1], c[2])' = RowsOf(c[1], c[2])
  BY <1>1, QueriesStay DEF Streams
<1> QED BY <1>2 DEF ScansInv, Found

(* Steps that call or end what is there keep the scans in their types.     *)
LEMMA ScansTyped ==
  ASSUME TypeOK, SameQueries, Places' = Places, \A p \in Portals : DOMAIN scan'[p] = DOMAIN scan[p],
         \A c \in Places : /\ St(c)'.at \in {"new", "open", "done", "left", "gone"}
                           /\ Len(St(c)'.got) <= Len(St(c)'.rows)
                           /\ St(c)'.at = "done" => Len(St(c)'.got) = Len(St(c)'.rows)
  PROVE  \A p \in Portals :
           /\ DOMAIN scan'[p] = DOMAIN Calls(p)'
           /\ \A k \in DOMAIN scan'[p] :
                /\ scan'[p][k].at \in {"new", "open", "done", "left", "gone"}
                /\ Len(scan'[p][k].got) <= Len(scan'[p][k].rows)
                /\ scan'[p][k].at = "done" => Len(scan'[p][k].got) = Len(scan'[p][k].rows)
<1> SUFFICES ASSUME NEW p \in Portals
             PROVE  /\ DOMAIN scan'[p] = DOMAIN Calls(p)'
                    /\ \A k \in DOMAIN scan'[p] :
                         /\ scan'[p][k].at \in {"new", "open", "done", "left", "gone"}
                         /\ Len(scan'[p][k].got) <= Len(scan'[p][k].rows)
                         /\ scan'[p][k].at = "done" => Len(scan'[p][k].got) = Len(scan'[p][k].rows)
  OBVIOUS
<1>1. DOMAIN scan'[p] = DOMAIN Calls(p)'
  BY QueriesStay DEF TypeOK
<1>2. ASSUME NEW k \in DOMAIN scan'[p]
      PROVE  /\ scan'[p][k].at \in {"new", "open", "done", "left", "gone"}
             /\ Len(scan'[p][k].got) <= Len(scan'[p][k].rows)
             /\ scan'[p][k].at = "done" => Len(scan'[p][k].got) = Len(scan'[p][k].rows)
  <2>1. <<p, k>> \in Places
    BY PlaceIs
  <2>2. St(<<p, k>>)' = scan'[p][k]
    BY DEF St
  <2> QED BY <2>1, <2>2
<1> QED BY <1>1, <1>2

(* What statements abandon.                                                *)
LEMMA Abandoning ==
  ASSUME TypeOK, Shape, NEW Q \in SUBSET Portals, NEW ended \in {"left", "gone"},
         scan' = [p \in Portals |-> IF p \in Q THEN Abandoned(scan[p], ended) ELSE scan[p]]
  PROVE  /\ scan' \in [Portals -> Seq(ScanState)]
         /\ \A p \in Portals : Len(scan'[p]) = Len(scan[p]) /\ DOMAIN scan'[p] = DOMAIN scan[p]
         /\ Places' = Places
         /\ \A c \in Places :
              /\ St(c)'.at = IF c[1] \in Q /\ St(c).at \in {"open", "left"} THEN ended ELSE St(c).at
              /\ St(c)'.serial = St(c).serial /\ St(c)'.rows = St(c).rows
              /\ St(c)'.reply = St(c).reply /\ St(c)'.got = St(c).got
              /\ Begun(c)' <=> Begun(c)
<1>1. ASSUME NEW p \in Portals
      PROVE  scan'[p] \in Seq(ScanState) /\ Len(scan'[p]) = Len(scan[p]) /\ DOMAIN scan'[p] = DOMAIN scan[p]
  <2>1. scan[p] \in Seq(ScanState)
    BY DEF Shape
  <2>2. scan'[p] = IF p \in Q THEN Abandoned(scan[p], ended) ELSE scan[p]
    OBVIOUS
  <2> QED BY <2>1, <2>2, AbandonedIs
<1>2. Places' = Places
  BY <1>1 DEF Places
<1>3. ASSUME NEW c \in Places
      PROVE  /\ St(c)'.at = IF c[1] \in Q /\ St(c).at \in {"open", "left"} THEN ended ELSE St(c).at
             /\ St(c)'.serial = St(c).serial /\ St(c)'.rows = St(c).rows
             /\ St(c)'.reply = St(c).reply /\ St(c)'.got = St(c).got
             /\ Begun(c)' <=> Begun(c)
  <2>1. c[1] \in Portals /\ c[2] \in DOMAIN scan[c[1]]
    BY PlaceIs
  <2>2. scan[c[1]] \in Seq(ScanState) /\ St(c) \in ScanState
    BY <2>1, PlaceTyped DEF Shape
  <2>3. \/ /\ c[1] \in Q /\ St(c).at \in {"open", "left"} /\ St(c)' = [St(c) EXCEPT !.at = ended]
        \/ /\ ~(c[1] \in Q /\ St(c).at \in {"open", "left"}) /\ St(c)' = St(c)
    <3>1. PICK f \in Seq(ScanState) : f = scan[c[1]]
      BY <2>2
    <3>2. c[2] \in DOMAIN f /\ St(c) = f[c[2]]
      BY <2>1, <3>1 DEF St
    <3>3. Abandoned(f, ended)[c[2]] = IF f[c[2]].at \in {"open", "left"} THEN [f[c[2]] EXCEPT !.at = ended]
                                      ELSE f[c[2]]
      BY <3>2, AbandonedIs
    <3>4. St(c)' = IF c[1] \in Q THEN Abandoned(f, ended)[c[2]] ELSE f[c[2]]
      BY <2>1, <3>1 DEF St
    <3> QED BY <3>2, <3>3, <3>4
  <2> QED BY <2>2, <2>3 DEF ScanState, Begun
<1>4. scan' \in [Portals -> Seq(ScanState)]
  BY <1>1
<1> QED BY <1>1, <1>2, <1>3, <1>4

LEMMA ResetKeeps ==
  ASSUME ScansInv, Reset, states' \subseteq Places, \A c \in Places : St(c).at = "done" => c \notin states',
         undefined \subseteq undefined',
         \A p \in undefined' \ undefined : p \in Portals /\ portal[p].at # "unused" /\ Explained(p)
  PROVE  ScansInv'
<1>1. /\ portal' = [p \in Portals |-> IF portal[p].at = "open" THEN [portal[p] EXCEPT !.at = "closed"]
                                      ELSE portal[p]]
      /\ scan' = [p \in Portals |-> Abandoned(scan[p], "gone")]
      /\ running' = NoCall /\ context' = Executor /\ stack' = <<>> /\ reader' = NoPortal
      /\ UNCHANGED <<stored, serial, taken>>
  BY DEF Reset
<1>2. TypeOK /\ Shape
  BY DEF ScansInv
<1>3. /\ scan' \in [Portals -> Seq(ScanState)]
      /\ \A p \in Portals : Len(scan'[p]) = Len(scan[p]) /\ DOMAIN scan'[p] = DOMAIN scan[p]
      /\ Places' = Places
      /\ \A c \in Places :
           /\ St(c)'.at = IF c[1] \in Portals /\ St(c).at \in {"open", "left"} THEN "gone" ELSE St(c).at
           /\ St(c)'.serial = St(c).serial /\ St(c)'.rows = St(c).rows
           /\ St(c)'.reply = St(c).reply /\ St(c)'.got = St(c).got
           /\ Begun(c)' <=> Begun(c)
  <2>1. scan' = [p \in Portals |-> IF p \in Portals THEN Abandoned(scan[p], "gone") ELSE scan[p]]
    BY <1>1
  <2>2. Portals \in SUBSET Portals /\ "gone" \in {"left", "gone"}
    OBVIOUS
  <2> QED BY <1>2, <2>1, <2>2, Abandoning
<1>4. portal \in [Portals -> [at : {"unused", "open", "closed"},
                              query : Queries \cup {NoQuery}, snapshot : 0..MaxStored]]
  BY <1>2 DEF TypeOK
<1>5. /\ SameQueries
      /\ \A p \in Portals : portal'[p].at = "unused" <=> portal[p].at = "unused"
      /\ portal' \in [Portals -> [at : {"unused", "open", "closed"},
                                  query : Queries \cup {NoQuery}, snapshot : 0..MaxStored]]
  <2>1. ASSUME NEW p \in Portals
        PROVE  /\ portal'[p].query = portal[p].query /\ portal'[p].snapshot = portal[p].snapshot
               /\ portal'[p].at = "unused" <=> portal[p].at = "unused"
               /\ portal'[p] \in [at : {"unused", "open", "closed"},
                                  query : Queries \cup {NoQuery}, snapshot : 0..MaxStored]
    <3>1. portal[p] \in [at : {"unused", "open", "closed"},
                         query : Queries \cup {NoQuery}, snapshot : 0..MaxStored]
      BY <1>4
    <3>2. portal'[p] = IF portal[p].at = "open" THEN [portal[p] EXCEPT !.at = "closed"] ELSE portal[p]
      BY <1>1
    <3> QED BY <3>1, <3>2
  <2>2. portal' \in [Portals -> [at : {"unused", "open", "closed"},
                                 query : Queries \cup {NoQuery}, snapshot : 0..MaxStored]]
    BY <1>1, <2>1
  <2> QED BY <2>1, <2>2 DEF SameQueries
<1>6. \A c \in Places : c[1] \in Portals /\ St(c) \in ScanState
  BY <1>2, PlaceTyped
<1>7. \A c \in Places : St(c)'.at \in {"new", "done", "gone"} /\ (St(c)'.at = "done" <=> St(c).at = "done")
  BY <1>3, <1>6 DEF ScanState
<1>8. TypeOK'
  <2>1. \A p \in Portals :
          /\ DOMAIN scan'[p] = DOMAIN Calls(p)'
          /\ \A k \in DOMAIN scan'[p] :
               /\ scan'[p][k].at \in {"new", "open", "done", "left", "gone"}
               /\ Len(scan'[p][k].got) <= Len(scan'[p][k].rows)
               /\ scan'[p][k].at = "done" => Len(scan'[p][k].got) = Len(scan'[p][k].rows)
    <3>1. \A c \in Places : /\ Len(St(c).got) <= Len(St(c).rows)
                            /\ St(c).at = "done" => Len(St(c).got) = Len(St(c).rows)
      BY <1>2, PlaceIs DEF TypeOK, St
    <3>2. \A c \in Places : /\ St(c)'.at \in {"new", "open", "done", "left", "gone"}
                            /\ Len(St(c)'.got) <= Len(St(c)'.rows)
                            /\ St(c)'.at = "done" => Len(St(c)'.got) = Len(St(c)'.rows)
      BY <1>3, <1>7, <3>1
    <3> QED BY <1>2, <1>3, <1>5, <3>2, ScansTyped
  <2>2. DOMAIN stack' = {} /\ states' \subseteq Places' /\ undefined' \subseteq Portals /\ stored' \in 0..MaxStored
    BY <1>1, <1>2, <1>3 DEF TypeOK
  <2> QED BY <1>1, <1>5, <2>1, <2>2, Zenon DEF TypeOK
<1>9. Shape'
  <2>1. \A p \in Portals : Len(scan'[p]) = Len(Calls(p)')
    BY <1>2, <1>3, <1>5, QueriesStay DEF Shape
  <2>2. \A p \in Portals : portal'[p].at = "unused" => portal'[p].query = NoQuery
    BY <1>2, <1>5 DEF Shape, SameQueries
  <2>3. undefined' \subseteq {p \in Portals : portal'[p].at # "unused"}
    BY <1>2, <1>5 DEF Shape
  <2>4. /\ serial' \in Nat /\ running' \in [portal : Portals \cup {NoPortal}, place : Nat]
        /\ running' = NoCall /\ stack' \in Seq(Owner)
    BY <1>1, <1>2 DEF Shape, NoCall
  <2> QED BY <1>3, <2>1, <2>2, <2>3, <2>4 DEF Shape
<1>10. Found'
  BY <1>1, <1>3, <1>5, FoundStays
<1>11. Faithful'
  BY <1>3 DEF ScansInv, Faithful
<1>12. Reading' /\ ContextLeft'
  BY <1>1 DEF Reading, ContextLeft
<1>13. Holders' = {}
  BY <1>3, <1>7 DEF Holders, Held, St
<1>14. HoldingsBalance' /\ IsFiniteSet(Holders')
  <2>1. Len(stack') = 0 /\ Cardinality(Holders') = 0 /\ IsFiniteSet(Holders')
    BY <1>1, <1>13, FS_EmptySet
  <2>2. Len(stack') = Cardinality(Holders') + IF reader' = NoPortal THEN 0 ELSE 1
    BY <1>1, <2>1
  <2>3. \A c \in Places' : /\ scan'[c[1]][c[2]].at = "open" /\ ~OnTable(c[1], c[2])' => c \in states'
                           /\ scan'[c[1]][c[2]].at = "done" => c \notin states'
    BY <1>3, <1>7 DEF St
  <2> QED BY <2>1, <2>2, <2>3 DEF HoldingsBalance, Holders
<1>15. FromRuns' /\ Connected'
  BY <1>3, <1>7 DEF FromRuns, Connected
<1>16. Stacked'
  BY <1>1 DEF Stacked
<1>17. Recalled' /\ TakenFromLater' /\ UndefinedExplained'
  <2>1. ASSUME NEW p \in Portals, Explained(p) PROVE Explained(p)'
    BY <1>1, <1>3, <1>5, <2>1, QueriesStay DEF Explained
  <2> QED BY <1>1, <1>3, <1>5, <2>1, HistoriesStay
<1> QED
  BY <1>8, <1>9, <1>10, <1>11, <1>12, <1>14, <1>15, <1>16, <1>17 DEF ScansInv

LEMMA CloseKeeps ==
  ASSUME ScansInv, NEW p \in Portals, Close(p)
  PROVE  ScansInv'
<1>1. /\ running = NoCall /\ reader = NoPortal /\ portal[p].at = "open"
      /\ portal' = [portal EXCEPT ![p].at = "closed"]
      /\ scan' = [scan EXCEPT ![p] = Abandoned(@, "left")]
      /\ UNCHANGED <<stored, running, context, stack, states, reader, serial, taken, undefined>>
  BY DEF Close
<1>2. TypeOK /\ Shape
  BY DEF ScansInv
<1>3. /\ scan' \in [Portals -> Seq(ScanState)]
      /\ \A x \in Portals : Len(scan'[x]) = Len(scan[x]) /\ DOMAIN scan'[x] = DOMAIN scan[x]
      /\ Places' = Places
      /\ \A c \in Places :
           /\ St(c)'.at = IF c[1] \in {p} /\ St(c).at \in {"open", "left"} THEN "left" ELSE St(c).at
           /\ St(c)'.serial = St(c).serial /\ St(c)'.rows = St(c).rows
           /\ St(c)'.reply = St(c).reply /\ St(c)'.got = St(c).got
           /\ Begun(c)' <=> Begun(c)
  <2>1. scan \in [Portals -> Seq(ScanState)]
    BY <1>2 DEF Shape
  <2>2. scan' = [x \in Portals |-> IF x \in {p} THEN Abandoned(scan[x], "left") ELSE scan[x]]
    BY <1>1, <2>1
  <2>3. {p} \in SUBSET Portals /\ "left" \in {"left", "gone"}
    OBVIOUS
  <2> QED BY <1>2, <2>2, <2>3, Abandoning
<1>4. portal \in [Portals -> [at : {"unused", "open", "closed"},
                              query : Queries \cup {NoQuery}, snapshot : 0..MaxStored]]
  BY <1>2 DEF TypeOK
<1>5. /\ SameQueries
      /\ \A x \in Portals : portal'[x].at = "unused" <=> portal[x].at = "unused"
      /\ portal' \in [Portals -> [at : {"unused", "open", "closed"},
                                  query : Queries \cup {NoQuery}, snapshot : 0..MaxStored]]
  BY <1>1, <1>4 DEF SameQueries
<1>6. \A c \in Places : c[1] \in Portals /\ St(c) \in ScanState
  BY <1>2, PlaceTyped
<1>7. \A c \in Places :
        /\ St(c)'.at = "done" <=> St(c).at = "done"
        /\ St(c)'.at = "open" => St(c).at = "open"
        /\ St(c)'.at \in {"open", "left"} <=> St(c).at \in {"open", "left"}
        /\ St(c)'.at \in {"new", "open", "done", "left", "gone"}
  BY <1>3, <1>6 DEF ScanState
<1>8. TypeOK'
  <2>1. \A x \in Portals :
          /\ DOMAIN scan'[x] = DOMAIN Calls(x)'
          /\ \A k \in DOMAIN scan'[x] :
               /\ scan'[x][k].at \in {"new", "open", "done", "left", "gone"}
               /\ Len(scan'[x][k].got) <= Len(scan'[x][k].rows)
               /\ scan'[x][k].at = "done" => Len(scan'[x][k].got) = Len(scan'[x][k].rows)
    <3>1. \A c \in Places : /\ Len(St(c).got) <= Len(St(c).rows)
                            /\ St(c).at = "done" => Len(St(c).got) = Len(St(c).rows)
      BY <1>2, PlaceIs DEF TypeOK, St
    <3>2. \A c \in Places : /\ St(c)'.at \in {"new", "open", "done", "left", "gone"}
                            /\ Len(St(c)'.got) <= Len(St(c)'.rows)
                            /\ St(c)'.at = "done" => Len(St(c)'.got) = Len(St(c)'.rows)
      BY <1>3, <1>7, <3>1
    <3> QED BY <1>2, <1>3, <1>5, <3>2, ScansTyped
  <2>2. /\ \A i \in DOMAIN stack' : \/ \E c \in Places' : stack'[i] = ByScan(c[1], c[2])
                                    \/ \E x \in Portals : stack'[i] = ByReader(x)
        /\ states' \subseteq Places' /\ undefined' \subseteq Portals /\ stored' \in 0..MaxStored
        /\ reader' \in Portals \cup {NoPortal} /\ running' = NoCall
    <3>1. /\ \A i \in DOMAIN stack : \/ \E c \in Places : stack[i] = ByScan(c[1], c[2])
                                     \/ \E x \in Portals : stack[i] = ByReader(x)
          /\ states \subseteq Places /\ undefined \subseteq Portals /\ stored \in 0..MaxStored
          /\ reader \in Portals \cup {NoPortal}
      BY <1>2 DEF TypeOK
    <3>2. Places' = Places
      BY <1>3
    <3> QED BY <1>1, <3>1, <3>2
  <2> QED BY <1>5, <2>1, <2>2, Zenon DEF TypeOK
<1>9. Shape'
  <2>1. \A x \in Portals : Len(scan'[x]) = Len(Calls(x)')
    BY <1>2, <1>3, <1>5, QueriesStay DEF Shape
  <2>2. \A x \in Portals : portal'[x].at = "unused" => portal'[x].query = NoQuery
    BY <1>2, <1>5 DEF Shape, SameQueries
  <2>3. undefined' \subseteq {x \in Portals : portal'[x].at # "unused"}
    BY <1>1, <1>2, <1>5 DEF Shape
  <2>4. /\ serial' \in Nat /\ running' \in [portal : Portals \cup {NoPortal}, place : Nat]
        /\ running' = NoCall /\ stack' \in Seq(Owner)
    BY <1>1, <1>2 DEF Shape
  <2> QED BY <1>3, <2>1, <2>2, <2>3, <2>4 DEF Shape
<1>10. Found'
  BY <1>1, <1>3, <1>5, FoundStays
<1>11. Faithful'
  BY <1>1, <1>3 DEF ScansInv, Faithful
<1>12. Reading' /\ ContextLeft'
  BY <1>1 DEF ScansInv, Reading, ContextLeft
<1>13. \A c \in Places : (OnTable(c[1], c[2])' <=> OnTable(c[1], c[2])) /\ (InFrom(c[1])' <=> InFrom(c[1]))
  BY <1>5, <1>6, QueriesStay
<1>14. Holders' = Holders
  BY <1>3, <1>7, <1>13 DEF Holders, Held, St
<1>15. HoldingsBalance' /\ IsFiniteSet(Holders')
  <2>1. Len(stack') = Cardinality(Holders') + IF reader' = NoPortal THEN 0 ELSE 1
    BY <1>1, <1>14 DEF ScansInv, HoldingsBalance, Holders
  <2>2. \A c \in Places' : /\ scan'[c[1]][c[2]].at = "open" /\ ~OnTable(c[1], c[2])' => c \in states'
                           /\ scan'[c[1]][c[2]].at = "done" => c \notin states'
    BY <1>1, <1>3, <1>7, <1>13 DEF ScansInv, HoldingsBalance, St
  <2> QED BY <1>14, <2>1, <2>2 DEF ScansInv, HoldingsBalance, Holders
<1>16. FromRuns'
  <2> SUFFICES ASSUME NEW c \in Places, InFrom(c[1])', St(c)'.at = "open" PROVE FALSE
    BY <1>3 DEF FromRuns
  <2> QED BY <1>1, <1>7, <1>13, NoneInFrom
<1>17. Connected'
  BY <1>1, <1>3, <1>7, <1>13 DEF ScansInv, Connected
<1>18. Stacked'
  BY <1>1, <1>3 DEF ScansInv, Stacked
<1>19. Recalled' /\ TakenFromLater' /\ UndefinedExplained'
  BY <1>1, <1>3, <1>5, HistoriesStay
<1> QED
  BY <1>8, <1>9, <1>10, <1>11, <1>12, <1>15, <1>16, <1>17, <1>18, <1>19 DEF ScansInv

-----------------------------------------------------------------------------
(* The calls of functions.                                                 *)

LEMMA Called ==
  ASSUME ScansInv, NEW p \in Portals, NEW k, At(p, k)
  PROVE  /\ TypeOK /\ Shape
         /\ running = [portal |-> p, place |-> k] /\ running # NoCall
         /\ k \in DOMAIN scan[p] /\ k \in 1..Len(Calls(p)) /\ Len(Calls(p)) \in Nat
         /\ <<p, k>> \in Places /\ St(<<p, k>>) = scan[p][k] /\ scan[p][k] \in ScanState
         /\ portal[p].at = "open" /\ (reader # NoPortal => reader = p)
<1>1. TypeOK /\ Shape
  BY DEF ScansInv
<1>2. running = [portal |-> p, place |-> k] /\ k \in DOMAIN scan[p]
  BY DEF At
<1>3. running # NoCall
  BY <1>2, ScansAssumption DEF NoCall
<1>4. running.portal = p
  BY <1>2
<1>5. portal[p].at = "open"
  BY <1>1, <1>3, <1>4 DEF TypeOK
<1>6. reader # NoPortal => reader = p
  BY <1>3, <1>4 DEF ScansInv, Reading
<1>7. k \in 1..Len(Calls(p)) /\ Len(Calls(p)) \in Nat /\ scan[p][k] \in ScanState
  BY <1>1, <1>2, QueryTyped
<1>8. <<p, k>> \in Places /\ St(<<p, k>>) = scan[p][k]
  BY <1>2, PlaceIs DEF St
<1> QED BY <1>1, <1>2, <1>3, <1>5, <1>6, <1>7, <1>8

(* Only the scan that is called can be open in FROM.                       *)
LEMMA OtherFromScans ==
  ASSUME ScansInv, NEW p \in Portals, NEW k, At(p, k),
         NEW c \in Places, InFrom(c[1]), St(c).at = "open"
  PROVE  c = <<p, k>>
<1>1. running = [portal |-> c[1], place |-> c[2]]
  BY DEF ScansInv, FromRuns
<1>2. running = [portal |-> p, place |-> k]
  BY Called
<1>3. c[1] = p /\ c[2] = k
  BY <1>1, <1>2
<1> QED BY <1>3, PlaceIs

(* Why a call reads what has been freed.                                   *)
LEMMA WhyUndefined ==
  ASSUME ScansInv, NEW p \in Portals, NEW k, At(p, k), scan[p][k].at = "open",
         ~LiveContext \/ ~LiveRows(p, k)
  PROVE  Explained(p)
<1>1. /\ running = [portal |-> p, place |-> k] /\ k \in DOMAIN scan[p]
      /\ k \in 1..Len(Calls(p)) /\ Len(Calls(p)) \in Nat /\ TypeOK /\ Shape
      /\ <<p, k>> \in Places /\ St(<<p, k>>) = scan[p][k]
  BY Called
<1>2. DOMAIN stack = 1..Len(stack) /\ stack \in Seq(Owner)
  BY <1>1, LenProperties DEF Shape
<1>3. CASE ~LiveContext
  <2>1. context # Executor
    BY <1>3 DEF LiveContext
  <2>2. ~InFrom(running.portal) /\ \E j \in DOMAIN scan[running.portal] : j < running.place /\ OnTable(running.portal, j)
    BY <2>1 DEF ScansInv, ContextLeft
  <2>3. running.portal = p /\ running.place = k
    BY <1>1
  <2>4. PICK j \in DOMAIN scan[p] : j < k /\ OnTable(p, j)
    BY <2>2, <2>3
  <2>5. j < Len(Calls(p))
    <3>1. j \in 1..Len(Calls(p))
      BY <1>1, QueryTyped
    <3> QED BY <1>1, <2>4, <3>1
  <2> QED BY <2>2, <2>3, <2>4, <2>5 DEF Explained
<1>4. CASE ~LiveRows(p, k)
  <2>1. OnTable(p, k) /\ ~\E i \in 1..Len(stack) : stack[i] = ByScan(p, k)
    BY <1>2, <1>4 DEF LiveRows
  <2>2. PICK c \in Places : c = <<p, k>>
    BY <1>1
  <2>3. c[1] = p /\ c[2] = k /\ St(c).at = "open"
    BY <1>1, <2>2
  <2>4. PICK t \in taken : t[1] = c /\ t[2] # c
    BY <2>1, <2>3 DEF ScansInv, Connected
  <2>5. ~InFrom(p)
    <3> SUFFICES ASSUME InFrom(p) PROVE FALSE
      OBVIOUS
    <3>1. Top = ByScan(p, k)
      BY <2>1, <2>3 DEF ScansInv, FromRuns
    <3>2. stack # <<>> /\ Top = stack[Len(stack)]
      BY <3>1, Owners DEF Top
    <3>3. Len(stack) \in 1..Len(stack)
      BY <1>2, <3>2
    <3> QED BY <2>1, <3>1, <3>2, <3>3
  <2> QED BY <2>3, <2>4, <2>5 DEF Explained
<1> QED BY <1>3, <1>4

LEMMA BeginKeeps ==
  ASSUME ScansInv, NEW p \in Portals, NEW k, At(p, k), scan[p][k].at = "new",
         NEW rows \in Seq(AnyRow), NEW reply \in Replies \cup {<<>>}, Begin(p, k, rows, reply),
         IF Fn(p, k) \in OverStream THEN reply \in Replies /\ rows = Rows(reply)
         ELSE Calls(p)[k].limit >= 0 /\ rows \in RowsOf(p, k)
  PROVE  ScansInv'
<1> DEFINE here == <<p, k>>
           r == [at |-> "open", serial |-> serial + 1, rows |-> rows, got |-> <<>>, reply |-> reply]
<1>1. /\ TypeOK /\ Shape
      /\ running = [portal |-> p, place |-> k] /\ running # NoCall
      /\ k \in DOMAIN scan[p] /\ k \in 1..Len(Calls(p))
      /\ here \in Places /\ St(here) = scan[p][k]
      /\ portal[p].at = "open" /\ (reader # NoPortal => reader = p)
  BY Called
<1>2. /\ serial' = serial + 1 /\ scan' = [scan EXCEPT ![p][k] = r]
      /\ stack' = stack \o Connection(p, k)
      /\ states' = IF OnTable(p, k) THEN states ELSE states \cup {here}
      /\ UNCHANGED <<stored, portal, running, context, reader, taken, undefined>>
  BY DEF Begin
<1>3. serial \in Nat /\ r \in ScanState
  <2>1. serial \in Nat
    BY <1>1 DEF Shape
  <2>2. <<>> \in Seq(AnyRow \cup {Garbage})
    OBVIOUS
  <2> QED BY <2>1, <2>2 DEF ScanState
<1>4. r.at = "open" /\ r.serial = serial + 1 /\ r.rows = rows /\ r.got = <<>> /\ r.reply = reply
  OBVIOUS
<1> HIDE DEF r
<1>5. /\ scan' \in [Portals -> Seq(ScanState)]
      /\ \A q \in Portals : Len(scan'[q]) = Len(scan[q]) /\ DOMAIN scan'[q] = DOMAIN scan[q]
      /\ Places' = Places /\ St(here)' = r
      /\ \A c \in Places : c # here => St(c)' = St(c)
  BY <1>1, <1>2, <1>3, OneScanChanges
<1>6. SameQueries
  BY <1>2 DEF SameQueries
<1>7. ~Begun(here)
  BY <1>1 DEF Begun
<1>8. \A c \in Places : /\ c[1] \in Portals /\ (OnTable(c[1], c[2])' <=> OnTable(c[1], c[2]))
                        /\ (InFrom(c[1])' <=> InFrom(c[1])) /\ c = <<c[1], c[2]>>
  BY <1>6, PlaceIs, QueriesStay
<1>9. /\ stack \in Seq(Owner) /\ stack' \in Seq(Owner) /\ DOMAIN stack' = 1..Len(stack')
      /\ DOMAIN stack = 1..Len(stack) /\ Len(stack) \in Nat
      /\ \A i \in 1..Len(stack) : i \in 1..Len(stack') /\ stack'[i] = stack[i]
      /\ OnTable(p, k) => Len(stack') = Len(stack) + 1 /\ stack'[Len(stack) + 1] = ByScan(p, k)
      /\ ~OnTable(p, k) => stack' = stack
  <2>1. stack \in Seq(Owner) /\ ByScan(p, k) \in Owner
    BY <1>1 DEF Shape, ByScan, Owner
  <2>2. DOMAIN stack = 1..Len(stack) /\ Len(stack) \in Nat
    BY <2>1, LenProperties
  <2>3. CASE OnTable(p, k)
    <3>1. stack' = stack \o <<ByScan(p, k)>> /\ <<ByScan(p, k)>> \in Seq(Owner)
      BY <1>2, <2>1, <2>3 DEF Connection
    <3>2. Len(<<ByScan(p, k)>>) = 1 /\ <<ByScan(p, k)>>[1] = ByScan(p, k)
      OBVIOUS
    <3>3. /\ stack' \in Seq(Owner) /\ Len(stack') = Len(stack) + 1
          /\ \A i \in 1..(Len(stack) + 1) :
               stack'[i] = IF i <= Len(stack) THEN stack[i] ELSE <<ByScan(p, k)>>[i - Len(stack)]
      BY <2>1, <3>1, <3>2, ConcatProperties
    <3>4. DOMAIN stack' = 1..Len(stack')
      BY <3>3, LenProperties
    <3>5. stack'[Len(stack) + 1] = ByScan(p, k)
      <4>1. Len(stack) + 1 \in 1..(Len(stack) + 1) /\ ~(Len(stack) + 1 <= Len(stack))
            /\ (Len(stack) + 1) - Len(stack) = 1
        BY <2>2
      <4> QED BY <3>2, <3>3, <4>1
    <3> QED BY <2>1, <2>2, <2>3, <3>3, <3>4, <3>5
  <2>4. CASE ~OnTable(p, k)
    <3>1. stack' = stack \o <<>>
      BY <1>2, <2>4 DEF Connection
    <3>2. stack \o <<>> = stack
      BY <2>1, ConcatEmptySeq
    <3>3. stack' = stack
      BY <3>1, <3>2
    <3> QED BY <2>1, <2>2, <2>4, <3>3
  <2> QED BY <2>3, <2>4
<1>10. TypeOK'
  <2>1. \A q \in Portals :
          /\ DOMAIN scan'[q] = DOMAIN Calls(q)'
          /\ \A j \in DOMAIN scan'[q] :
               /\ scan'[q][j].at \in {"new", "open", "done", "left", "gone"}
               /\ Len(scan'[q][j].got) <= Len(scan'[q][j].rows)
               /\ scan'[q][j].at = "done" => Len(scan'[q][j].got) = Len(scan'[q][j].rows)
    <3>1. \A c \in Places : /\ St(c).at \in {"new", "open", "done", "left", "gone"}
                            /\ Len(St(c).got) <= Len(St(c).rows)
                            /\ St(c).at = "done" => Len(St(c).got) = Len(St(c).rows)
      BY <1>1, PlaceIs DEF TypeOK, St
    <3>2. Len(r.got) = 0 /\ Len(r.rows) \in Nat
      BY <1>4
    <3>3. \A c \in Places : /\ St(c)'.at \in {"new", "open", "done", "left", "gone"}
                            /\ Len(St(c)'.got) <= Len(St(c)'.rows)
                            /\ St(c)'.at = "done" => Len(St(c)'.got) = Len(St(c)'.rows)
      <4> SUFFICES ASSUME NEW c \in Places
                   PROVE  /\ St(c)'.at \in {"new", "open", "done", "left", "gone"}
                          /\ Len(St(c)'.got) <= Len(St(c)'.rows)
                          /\ St(c)'.at = "done" => Len(St(c)'.got) = Len(St(c)'.rows)
        OBVIOUS
      <4>1. CASE c = here
        BY <1>4, <1>5, <3>2, <4>1
      <4>2. CASE c # here
        BY <1>5, <3>1, <4>2
      <4> QED BY <4>1, <4>2
    <3> QED BY <1>1, <1>5, <1>6, <3>3, ScansTyped
  <2>2. \A i \in DOMAIN stack' : \/ \E c \in Places' : stack'[i] = ByScan(c[1], c[2])
                                 \/ \E q \in Portals : stack'[i] = ByReader(q)
    <3>1. \A i \in 1..Len(stack) : \/ \E c \in Places : stack[i] = ByScan(c[1], c[2])
                                   \/ \E q \in Portals : stack[i] = ByReader(q)
      <4>1. \A i \in DOMAIN stack : \/ \E c \in Places : stack[i] = ByScan(c[1], c[2])
                                    \/ \E q \in Portals : stack[i] = ByReader(q)
        BY <1>1 DEF TypeOK
      <4>2. DOMAIN stack = 1..Len(stack)
        BY <1>9
      <4> QED BY <4>1, <4>2
    <3>2. \A i \in DOMAIN stack' : \/ i \in 1..Len(stack) /\ stack'[i] = stack[i]
                                   \/ stack'[i] = ByScan(here[1], here[2])
      <4>1. here[1] = p /\ here[2] = k
        OBVIOUS
      <4>2. CASE OnTable(p, k)
        <5> SUFFICES ASSUME NEW i \in 1..Len(stack'), i \notin 1..Len(stack)
                     PROVE  stack'[i] = ByScan(p, k)
          BY <1>9, <4>1
        <5>1. i = Len(stack) + 1
          BY <1>9, <4>2
        <5> QED BY <1>9, <4>2, <5>1
      <4>3. CASE ~OnTable(p, k)
        BY <1>9, <4>3
      <4> QED BY <4>2, <4>3
    <3>3. Places' = Places /\ here \in Places
      BY <1>1, <1>5
    <3> HIDE DEF here
    <3> QED BY <3>1, <3>2, <3>3
  <2>3. /\ portal' = portal /\ running' = running /\ stored' \in 0..MaxStored
        /\ states' \subseteq Places' /\ reader' \in Portals \cup {NoPortal} /\ undefined' \subseteq Portals
    BY <1>1, <1>2, <1>5 DEF TypeOK
  <2>4. running' = NoCall \/ (/\ portal'[running'.portal].at = "open"
                              /\ running'.place \in 1..(Len(Calls(running.portal)') + 1))
    BY <1>1, <2>3 DEF TypeOK, Calls
  <2>5. portal' \in [Portals -> [at : {"unused", "open", "closed"},
                                 query : Queries \cup {NoQuery}, snapshot : 0..MaxStored]]
    BY <1>1, <2>3 DEF TypeOK
  <2> QED BY <2>1, <2>2, <2>3, <2>4, <2>5, Zenon DEF TypeOK
<1>11. Shape'
  <2>1. \A q \in Portals : Len(scan'[q]) = Len(Calls(q)')
    BY <1>1, <1>5, <1>6, QueriesStay DEF Shape
  <2>2. \A q \in Portals : portal'[q].at = "unused" => portal'[q].query = NoQuery
    BY <1>1, <1>2 DEF Shape
  <2>3. undefined' \subseteq {q \in Portals : portal'[q].at # "unused"}
    BY <1>1, <1>2 DEF Shape
  <2>4. serial' \in Nat
    BY <1>2, <1>3
  <2>5. /\ running' \in [portal : Portals \cup {NoPortal}, place : Nat]
        /\ running' # NoCall => running'.portal \in Portals
    <3>1. /\ running \in [portal : Portals \cup {NoPortal}, place : Nat]
          /\ running # NoCall => running.portal \in Portals
      BY <1>1 DEF Shape
    <3>2. running' = running
      BY <1>2
    <3> QED BY <3>1, <3>2
  <2> QED BY <1>5, <1>9, <2>1, <2>2, <2>3, <2>4, <2>5 DEF Shape
<1>12. Found'
  <2> SUFFICES ASSUME NEW c \in Places, Begun(c)'
               PROVE  /\ St(c)'.serial <= serial'
                      /\ IF Streams(c)' THEN St(c)'.reply \in Replies /\ St(c)'.rows = Rows(St(c)'.reply)
                         ELSE Calls(c[1])'[c[2]].limit >= 0 /\ St(c)'.rows \in RowsOf(c[1], c[2])'
    BY <1>5 DEF Found
  <2>1. /\ (Streams(c)' <=> Streams(c)) /\ Calls(c[1])' = Calls(c[1])
        /\ RowsOf(c[1], c[2])' = RowsOf(c[1], c[2])
    BY <1>6, <1>8, QueriesStay DEF Streams
  <2>2. CASE c = here
    <3>1. c[1] = p /\ c[2] = k /\ St(c)' = r
      BY <1>5, <2>2
    <3> QED BY <1>2, <1>3, <1>4, <2>1, <3>1 DEF Streams
  <2>3. CASE c # here
    <3>1. St(c)' = St(c) /\ Begun(c)
      BY <1>5, <2>3 DEF Begun
    <3>2. St(c).serial \in Nat
      BY <1>1, PlaceTyped DEF ScanState
    <3> QED BY <1>2, <1>3, <2>1, <3>1, <3>2 DEF ScansInv, Found
  <2> QED BY <2>2, <2>3
<1>13. Faithful'
  <2> SUFFICES ASSUME NEW c \in Places, c[1] \notin undefined, NEW i \in 1..Len(St(c)'.got)
               PROVE  St(c)'.got[i] = St(c)'.rows[i]
    BY <1>2, <1>5 DEF Faithful
  <2>1. CASE c = here
    <3>1. St(c)'.got = <<>>
      BY <1>4, <1>5, <2>1
    <3>2. i \in 1..0
      BY <3>1
    <3> QED BY <3>2
  <2>2. CASE c # here
    BY <1>5, <2>2 DEF ScansInv, Faithful
  <2> QED BY <2>1, <2>2
<1>14. Reading'
  <2> SUFFICES ASSUME reader # NoPortal PROVE Reading'
    BY <1>2 DEF Reading
  <2>1. reader = p
    BY <1>1
  <2>2. IsFiniteSet(OwnScans(p))
    BY <2>1 DEF ScansInv, Reading
  <2>3. PICK i \in 1..Len(stack) : stack[i] = ByReader(p) /\ Len(stack) = i + Cardinality(OwnScans(p))
    BY <2>1 DEF ScansInv, Reading
  <2>4. \A j \in DOMAIN scan[p] : j # k => scan'[p][j] = scan[p][j]
    <3> SUFFICES ASSUME NEW j \in DOMAIN scan[p], j # k PROVE scan'[p][j] = scan[p][j]
      OBVIOUS
    <3>1. <<p, j>> \in Places /\ <<p, j>> # here
      BY PlaceIs
    <3>2. St(<<p, j>>)' = St(<<p, j>>)
      BY <1>5, <3>1
    <3> QED BY <3>2 DEF St
  <2>5. scan'[p][k].at = "open" /\ scan[p][k].at = "new"
    BY <1>4, <1>5 DEF St
  <2>6. OwnScans(p)' = IF OnTable(p, k) THEN OwnScans(p) \cup {k} ELSE OwnScans(p)
    <3>1. \A j : OnTable(p, j)' <=> OnTable(p, j)
      BY <1>6, QueriesStay
    <3>2. \A j \in DOMAIN scan[p] : j # k => (Held(p, j)' <=> Held(p, j))
      BY <2>4, <3>1 DEF Held
    <3>3. ~Held(p, k) /\ (Held(p, k)' <=> OnTable(p, k))
      BY <2>5, <3>1 DEF Held
    <3>4. DOMAIN scan'[p] = DOMAIN scan[p] /\ k \in DOMAIN scan[p]
      BY <1>1, <1>5
    <3> QED BY <3>2, <3>3, <3>4 DEF OwnScans
  <2>7. k \notin OwnScans(p)
    BY <2>5 DEF OwnScans, Held
  <2>8. Cardinality(OwnScans(p)) \in Nat
    BY <2>2, FS_CardinalityType
  <2>9. /\ IsFiniteSet(OwnScans(p)')
        /\ Cardinality(OwnScans(p)') = Cardinality(OwnScans(p)) + IF OnTable(p, k) THEN 1 ELSE 0
    BY <2>2, <2>6, <2>7, <2>8, FS_AddElement
  <2>10. Len(stack') = i + Cardinality(OwnScans(p)')
    BY <1>9, <2>3, <2>8, <2>9
  <2>11. i \in 1..Len(stack') /\ stack'[i] = ByReader(p)
    BY <1>9, <2>3
  <2>12. OwnScans(reader)' = OwnScans(p)'
    BY <1>2, <2>1 DEF OwnScans, Held, OnTable, Fn, Calls
  <2> QED BY <1>1, <1>2, <2>1, <2>9, <2>10, <2>11, <2>12 DEF Reading
<1>15. Holders' = IF OnTable(p, k) THEN Holders \cup {here} ELSE Holders
  <2>1. \A c \in Places : c # here => (Held(c[1], c[2])' <=> Held(c[1], c[2]))
    BY <1>5, <1>8 DEF Held, St
  <2>2. ~Held(p, k) /\ (Held(p, k)' <=> OnTable(p, k))
    BY <1>1, <1>4, <1>5, <1>8 DEF Held, St
  <2>3. ~Held(here[1], here[2]) /\ (Held(here[1], here[2])' <=> OnTable(p, k))
    BY <2>2
  <2> QED BY <1>1, <1>5, <2>1, <2>3 DEF Holders
<1>16. IsFiniteSet(Holders') /\ HoldingsBalance'
  <2>1. here \notin Holders
    BY <1>1 DEF Holders, Held
  <2>2. IsFiniteSet(Holders) /\ Cardinality(Holders) \in Nat
    BY FS_CardinalityType DEF ScansInv
  <2>3. /\ IsFiniteSet(Holders')
        /\ Cardinality(Holders') = Cardinality(Holders) + IF OnTable(p, k) THEN 1 ELSE 0
    BY <1>15, <2>1, <2>2, FS_AddElement
  <2>4. Len(stack) = Cardinality(Holders) + IF reader = NoPortal THEN 0 ELSE 1
    BY DEF ScansInv, HoldingsBalance, Holders
  <2>5. Len(stack') = Cardinality(Holders') + IF reader' = NoPortal THEN 0 ELSE 1
    BY <1>2, <1>9, <2>2, <2>3, <2>4
  <2>6. ASSUME NEW c \in Places
        PROVE  /\ scan'[c[1]][c[2]].at = "open" /\ ~OnTable(c[1], c[2])' => c \in states'
               /\ scan'[c[1]][c[2]].at = "done" => c \notin states'
    <3>1. CASE c = here
      <4>1. c[1] = p /\ c[2] = k /\ scan'[c[1]][c[2]].at = "open"
        BY <1>4, <1>5, <3>1 DEF St
      <4> QED BY <1>2, <1>8, <3>1, <4>1
    <3>2. CASE c # here
      <4>1. scan'[c[1]][c[2]] = scan[c[1]][c[2]]
        BY <1>5, <3>2 DEF St
      <4> QED BY <1>2, <1>8, <3>2, <4>1 DEF ScansInv, HoldingsBalance
    <3> QED BY <3>1, <3>2
  <2> QED BY <1>5, <2>3, <2>5, <2>6 DEF HoldingsBalance, Holders
<1>17. FromRuns'
  <2> SUFFICES ASSUME NEW c \in Places, InFrom(c[1]), St(c)'.at = "open"
               PROVE  /\ running = [portal |-> c[1], place |-> c[2]]
                      /\ OnTable(c[1], c[2]) => Top' = ByScan(c[1], c[2])
    BY <1>2, <1>5, <1>8 DEF FromRuns
  <2>1. c = here
    BY <1>1, <1>5, OtherFromScans
  <2>2. c[1] = p /\ c[2] = k
    BY <2>1
  <2>3. OnTable(p, k) => Top' = ByScan(p, k)
    <3>1. OnTable(p, k) => stack' # <<>> /\ stack'[Len(stack')] = ByScan(p, k)
      BY <1>9
    <3> QED BY <3>1 DEF Top
  <2> QED BY <1>1, <2>2, <2>3
<1>18. ContextLeft'
  <2>1. context # Executor =>
          /\ ~InFrom(p) /\ \E j \in DOMAIN scan[p] : j < k /\ OnTable(p, j)
    BY <1>1 DEF ScansInv, ContextLeft
  <2>2. running'.portal = p /\ running'.place = k /\ running' # NoCall
    BY <1>1, <1>2
  <2>3. \A j : OnTable(p, j)' <=> OnTable(p, j)
    BY <1>6, QueriesStay
  <2>4. (InFrom(p)' <=> InFrom(p)) /\ DOMAIN scan'[p] = DOMAIN scan[p]
    BY <1>5, <1>6, QueriesStay
  <2>5. context' # Executor =>
          /\ running' # NoCall /\ ~InFrom(p)'
          /\ \E j \in DOMAIN scan'[p] : j < running'.place /\ OnTable(p, j)'
    BY <1>2, <2>1, <2>2, <2>3, <2>4
  <2> QED BY <2>2, <2>5 DEF ContextLeft, InFrom, OnTable, Fn, Calls
<1>19. Connected'
  <2> SUFFICES ASSUME NEW c \in Places, St(c)'.at = "open", OnTable(c[1], c[2])
               PROVE  \/ \E i \in 1..Len(stack') : stack'[i] = ByScan(c[1], c[2])
                      \/ \E t \in taken : t[1] = c /\ t[2] # c
    BY <1>2, <1>5, <1>8 DEF Connected
  <2>1. CASE c = here
    BY <1>9, <2>1
  <2>2. CASE c # here
    <3>1. \/ \E i \in 1..Len(stack) : stack[i] = ByScan(c[1], c[2])
          \/ \E t \in taken : t[1] = c /\ t[2] # c
      BY <1>5, <2>2 DEF ScansInv, Connected
    <3> QED BY <1>9, <3>1
  <2> QED BY <2>1, <2>2
<1>20. Stacked'
  <2>1. ASSUME NEW i \in 1..Len(stack'), NEW c \in Places, stack'[i] = ByScan(c[1], c[2])
        PROVE  \/ i \in 1..Len(stack) /\ stack[i] = stack'[i] /\ c # here /\ Begun(c) /\ St(c)' = St(c)
               \/ i = Len(stack) + 1 /\ c = here
    <3>1. CASE i \in 1..Len(stack)
      <4>1. stack[i] = stack'[i] /\ Begun(c)
        BY <1>9, <2>1, <3>1 DEF ScansInv, Stacked
      <4> QED BY <1>5, <1>7, <3>1, <4>1
    <3>2. CASE i \notin 1..Len(stack)
      <4>1. i = Len(stack) + 1 /\ OnTable(p, k)
        <5>1. OnTable(p, k)
          BY <1>9, <3>2
        <5>2. Len(stack') = Len(stack) + 1 /\ Len(stack) \in Nat
          BY <1>9, <5>1
        <5> QED BY <3>2, <5>1, <5>2
      <4>2. ByScan(c[1], c[2]) = ByScan(p, k)
        BY <1>9, <2>1, <4>1
      <4>3. c[1] = p /\ c[2] = k
        BY <4>2, Owners
      <4> QED BY <1>8, <4>1, <4>3
    <3> QED BY <3>1, <3>2
  <2>2. Begun(here)'
    BY <1>4, <1>5 DEF Begun
  <2>3. ASSUME NEW i \in 1..Len(stack'), NEW c \in Places, stack'[i] = ByScan(c[1], c[2])
        PROVE  Begun(c)'
    BY <2>1, <2>2, <2>3 DEF Begun
  <2>4. ASSUME NEW i \in 1..Len(stack'), NEW j \in 1..Len(stack'), NEW c \in Places, NEW d \in Places,
               i < j, stack'[i] = ByScan(c[1], c[2]), stack'[j] = ByScan(d[1], d[2])
        PROVE  St(c)'.serial < St(d)'.serial
    <3>1. \/ i \in 1..Len(stack) /\ stack[i] = stack'[i] /\ c # here /\ Begun(c) /\ St(c)' = St(c)
          \/ i = Len(stack) + 1 /\ c = here
      BY <2>1, <2>4
    <3>2. \/ j \in 1..Len(stack) /\ stack[j] = stack'[j] /\ d # here /\ Begun(d) /\ St(d)' = St(d)
          \/ j = Len(stack) + 1 /\ d = here
      BY <2>1, <2>4
    <3>3. i \in 1..Len(stack) /\ stack[i] = stack'[i] /\ Begun(c) /\ St(c)' = St(c)
      <4>1. i # Len(stack) + 1
        <5>1. j \in 1..Len(stack) \/ j = Len(stack) + 1
          BY <3>2
        <5>2. Len(stack) \in Nat
          BY <1>9
        <5> QED BY <2>4, <5>1, <5>2
      <4> QED BY <3>1, <4>1
    <3>4. CASE j \in 1..Len(stack) /\ stack[j] = stack'[j] /\ St(d)' = St(d)
      BY <2>4, <3>3, <3>4 DEF ScansInv, Stacked
    <3>5. CASE d = here
      <4>1. St(c).serial <= serial /\ St(c).serial \in Nat
        BY <1>1, <3>3, PlaceTyped DEF ScansInv, Found, ScanState
      <4>2. St(d)'.serial = serial + 1
        BY <1>4, <1>5, <3>5
      <4> DEFINE a == St(c).serial
      <4>3. St(c)'.serial = a
        BY <3>3
      <4>4. a <= serial /\ a \in Nat /\ serial \in Nat
        BY <1>1, <4>1 DEF ScansInv, Shape
      <4> HIDE DEF a
      <4>5. a < serial + 1
        BY <4>4
      <4> QED BY <4>2, <4>3, <4>5, Zenon
    <3> QED BY <3>2, <3>4, <3>5
  <2> QED BY <1>5, <2>3, <2>4 DEF Stacked
<1>21. Recalled' /\ TakenFromLater' /\ UndefinedExplained'
  <2>1. \A c \in Places : Begun(c) => Begun(c)' /\ St(c)'.serial = St(c).serial
    BY <1>5, <1>7 DEF Begun
  <2> QED BY <1>2, <1>5, <1>6, <2>1, HistoriesStay
<1> QED
  BY <1>10, <1>11, <1>12, <1>13, <1>14, <1>16, <1>17, <1>18, <1>19, <1>20, <1>21 DEF ScansInv

-----------------------------------------------------------------------------
(* The rows of a stream.                                                   *)

Reached(text, size, i) == IF i * size < Len(text) THEN i * size ELSE Len(text)

LEMMA PieceCount ==
  ASSUME NEW l \in Nat, NEW size \in Nat \ {0}
  PROVE  LET n == (l + size - 1) \div size IN
         /\ n \in Nat /\ l <= n * size /\ n * size <= l + size - 1
         /\ \A i \in 1..n : (i - 1) * size < l /\ i * size = (i - 1) * size + size
         /\ n = 0 <=> l = 0
<1>1. PICK n : n = (l + size - 1) \div size
  OBVIOUS
<1>2. l + size - 1 \in Nat
  OBVIOUS
<1>3. n \in Nat /\ n * size <= l + size - 1 /\ l + size - 1 < n * size + size
  BY <1>1, <1>2
<1>4. n * size \in Nat
  BY <1>3
<1>5. l <= n * size
  BY <1>3, <1>4
<1>6. ASSUME NEW i \in 1..n PROVE (i - 1) * size < l /\ i * size = (i - 1) * size + size
  <2>1. i * size <= n * size /\ i * size \in Nat
    BY <1>3
  <2>2. (i - 1) * size = i * size - size
    OBVIOUS
  <2> QED BY <1>3, <1>4, <2>1, <2>2
<1>7. n = 0 <=> l = 0
  BY <1>3, <1>5
<1> QED BY <1>1, <1>3, <1>5, <1>6, <1>7

(* The pieces of a text are its stretches, each where the one before ends. *)
LEMMA PiecesAre ==
  ASSUME NEW text \in Seq(STRING), NEW size \in Nat \ {0}
  PROVE  /\ Pieces(text, size) \in Seq(Seq(STRING))
         /\ Pieces(text, size) = <<>> <=> text = <<>>
         /\ Reached(text, size, 0) = 0 /\ Reached(text, size, Len(Pieces(text, size))) = Len(text)
         /\ \A i \in 1..Len(Pieces(text, size)) :
              /\ Reached(text, size, i - 1) \in Nat /\ Reached(text, size, i) \in Nat
              /\ Reached(text, size, i - 1) < Reached(text, size, i)
              /\ Reached(text, size, i) <= Len(text)
              /\ Pieces(text, size)[i] = SubSeq(text, Reached(text, size, i - 1) + 1, Reached(text, size, i))
<1>1. PICK l : l = Len(text)
  OBVIOUS
<1>2. l \in Nat
  BY <1>1
<1>3. PICK n : n = (l + size - 1) \div size
  OBVIOUS
<1>4. /\ n \in Nat /\ l <= n * size /\ n * size <= l + size - 1
      /\ \A i \in 1..n : (i - 1) * size < l /\ i * size = (i - 1) * size + size
      /\ n = 0 <=> l = 0
  BY <1>2, <1>3, PieceCount
<1>5. PICK f : f = Pieces(text, size)
  OBVIOUS
<1>6. /\ DOMAIN f = 1..n
      /\ \A i \in 1..n : f[i] = SubSeq(text, (i - 1) * size + 1, IF i * size < l THEN i * size ELSE l)
  BY <1>1, <1>3, <1>5 DEF Pieces
<1>7. ASSUME NEW i \in 1..n
      PROVE  /\ Reached(text, size, i - 1) \in Nat /\ Reached(text, size, i) \in Nat
             /\ Reached(text, size, i - 1) < Reached(text, size, i)
             /\ Reached(text, size, i) <= l
             /\ f[i] = SubSeq(text, Reached(text, size, i - 1) + 1, Reached(text, size, i))
  <2>1. /\ (i - 1) * size < l /\ i * size = (i - 1) * size + size
        /\ (i - 1) * size \in Nat /\ i * size \in Nat
    BY <1>4
  <2>2. Reached(text, size, i - 1) = (i - 1) * size
    BY <1>1, <2>1 DEF Reached
  <2>3. Reached(text, size, i) = IF i * size < l THEN i * size ELSE l
    BY <1>1 DEF Reached
  <2>4. f[i] = SubSeq(text, Reached(text, size, i - 1) + 1, Reached(text, size, i))
    BY <1>6, <2>2, <2>3
  <2>5. /\ Reached(text, size, i) \in Nat /\ (i - 1) * size < Reached(text, size, i)
        /\ Reached(text, size, i) <= l
    BY <1>2, <2>1, <2>3
  <2> QED BY <2>1, <2>2, <2>4, <2>5
<1>8. ASSUME NEW i \in 1..n PROVE f[i] \in Seq(STRING)
  <2>1. PICK a, b : a = Reached(text, size, i - 1) + 1 /\ b = Reached(text, size, i)
    OBVIOUS
  <2>2. a \in 1..l /\ b \in 1..l /\ f[i] = SubSeq(text, a, b)
    <3>1. PICK x : x = Reached(text, size, i - 1)
      OBVIOUS
    <3>2. x \in Nat /\ b \in Nat /\ x < b /\ b <= l /\ a = x + 1 /\ f[i] = SubSeq(text, a, b)
      BY <1>7, <2>1, <3>1
    <3> QED BY <1>2, <3>2
  <2>3. \A j \in a..b : text[j] \in STRING
    BY <1>1, <1>2, <2>2, ElementOfSeq
  <2> QED BY <2>2, <2>3, SubSeqProperties
<1>9. f \in Seq(Seq(STRING)) /\ Len(f) = n
  <2>1. f = [i \in 1..n |-> f[i]]
    BY <1>5, <1>6 DEF Pieces
  <2>2. PICK S : S = Seq(STRING)
    OBVIOUS
  <2>3. f \in [1..n -> S]
    BY <1>8, <2>1, <2>2
  <2>4. f \in Seq(S) /\ Len(f) = n
    BY <1>4, <2>3
  <2> QED BY <2>2, <2>4
<1>10. f = <<>> <=> text = <<>>
  <2>1. f = <<>> <=> n = 0
    BY <1>9
  <2>2. text = <<>> <=> l = 0
    BY <1>1
  <2> QED BY <1>4, <2>1, <2>2
<1>11. Reached(text, size, 0) = 0 /\ Reached(text, size, n) = l
  <2>1. 0 * size = 0 /\ ~(n * size < l)
    BY <1>2, <1>4
  <2> QED BY <1>1, <1>2, <2>1 DEF Reached
<1> QED BY <1>1, <1>5, <1>7, <1>9, <1>10, <1>11

LEMMA NumberedAre ==
  ASSUME NEW pieces \in Seq(Seq(STRING)), NEW text \in Seq(STRING)
  PROVE  /\ Numbered(pieces) \in Seq([seq_no : Nat, chunk : Seq(STRING), is_final : BOOLEAN])
         /\ Len(Numbered(pieces)) = Len(pieces)
         /\ \A i \in 1..Len(pieces) : Numbered(pieces)[i] = Row(i, pieces[i], FALSE)
<1>1. DOMAIN pieces = 1..Len(pieces) /\ Len(pieces) \in Nat
  BY LenProperties
<1>2. \A i \in 1..Len(pieces) : pieces[i] \in Seq(STRING)
  BY ElementOfSeq
<1>3. \A i \in 1..Len(pieces) : Row(i, pieces[i], FALSE) \in [seq_no : Nat, chunk : Seq(STRING), is_final : BOOLEAN]
  BY <1>1, <1>2 DEF Row
<1>4. Numbered(pieces) = [i \in 1..Len(pieces) |-> Row(i, pieces[i], FALSE)]
  BY <1>1 DEF Numbered
<1>5. PICK S : S = [seq_no : Nat, chunk : Seq(STRING), is_final : BOOLEAN]
  OBVIOUS
<1>6. PICK g : g = Numbered(pieces)
  OBVIOUS
<1>7. g \in [1..Len(pieces) -> S] /\ \A i \in 1..Len(pieces) : g[i] = Row(i, pieces[i], FALSE)
  BY <1>3, <1>4, <1>5, <1>6
<1>8. g \in Seq(S) /\ Len(g) = Len(pieces)
  <2>1. PICK n \in Nat : n = Len(pieces)
    BY <1>1
  <2>2. g \in [1..n -> S]
    BY <1>7, <2>1
  <2>3. g \in Seq(S) /\ Len(g) = n
    BY <2>2
  <2> QED BY <2>1, <2>3
<1> QED BY <1>5, <1>6, <1>7, <1>8

StreamRow == [seq_no : Nat, chunk : Seq(STRING), is_final : BOOLEAN]

(* Every answer is cut into pieces, or comes in pieces, or is empty.       *)
LEMMA RowsAre ==
  ASSUME NEW reply \in Reply
  PROVE  \E pieces \in Seq(Seq(STRING)), body \in Seq(StreamRow) :
           /\ Rows(reply) = Append(body, Row(Len(pieces) + 1, reply.text, TRUE))
           /\ \/ body = Numbered(pieces)
              \/ reply.text = <<>> /\ ~reply.mock /\ pieces = <<>> /\ body = <<Row(1, <<>>, FALSE)>>
           /\ IF reply.mock /\ reply.script # <<>> THEN pieces = reply.script
              ELSE \E size \in Nat \ {0} : pieces = Pieces(reply.text, size)
<1>1. /\ reply.text \in Seq(STRING) /\ reply.script \in Seq(Seq(STRING)) /\ reply.mock \in BOOLEAN
      /\ ChunkSize \in Nat \ {0} /\ MockChunkSize \in Nat \ {0}
  BY ChunkAssumption DEF Reply
<1>2. CASE reply.mock
  <2>1. PICK pieces : pieces = IF reply.script # <<>> THEN reply.script ELSE Pieces(reply.text, MockChunkSize)
    OBVIOUS
  <2>2. Rows(reply) = Append(Numbered(pieces), Row(Len(pieces) + 1, reply.text, TRUE))
    BY <1>2, <2>1 DEF Rows, MockStreamed, WithFinal
  <2>3. pieces \in Seq(Seq(STRING))
    BY <1>1, <2>1, PiecesAre
  <2>4. Numbered(pieces) \in Seq(StreamRow)
    BY <1>1, <2>3, NumberedAre DEF StreamRow
  <2>5. IF reply.mock /\ reply.script # <<>> THEN pieces = reply.script
        ELSE \E size \in Nat \ {0} : pieces = Pieces(reply.text, size)
    <3>1. CASE reply.script # <<>>
      BY <1>2, <2>1, <3>1
    <3>2. CASE reply.script = <<>>
      BY <1>1, <2>1, <3>2
    <3> QED BY <3>1, <3>2
  <2> QED BY <2>2, <2>3, <2>4, <2>5
<1>3. CASE ~reply.mock
  <2>1. PICK pieces : pieces = Pieces(reply.text, ChunkSize)
    OBVIOUS
  <2>2. pieces \in Seq(Seq(STRING)) /\ (pieces = <<>> <=> reply.text = <<>>)
    BY <1>1, <2>1, PiecesAre
  <2>3. PICK body : body = IF pieces = <<>> THEN <<Row(1, <<>>, FALSE)>> ELSE Numbered(pieces)
    OBVIOUS
  <2>4. Rows(reply) = Append(body, Row(Len(pieces) + 1, reply.text, TRUE))
    BY <1>3, <2>1, <2>3 DEF Rows, Streamed, WithFinal
  <2>5. body \in Seq(StreamRow)
    <3>1. Numbered(pieces) \in Seq(StreamRow)
      BY <1>1, <2>2, NumberedAre DEF StreamRow
    <3>2. Row(1, <<>>, FALSE) \in StreamRow
      <4>1. <<>> \in Seq(STRING)
        OBVIOUS
      <4> QED BY <4>1 DEF Row, StreamRow
    <3>3. PICK S, row : S = StreamRow /\ row = Row(1, <<>>, FALSE)
      OBVIOUS
    <3>4. <<row>> \in Seq(S)
      <4>1. row \in S
        BY <3>2, <3>3
      <4> QED BY <4>1
    <3> QED BY <2>3, <3>1, <3>3, <3>4
  <2> QED BY <1>1, <1>3, <2>1, <2>2, <2>3, <2>4, <2>5
<1> QED BY <1>2, <1>3

LEMMA RowsTyped ==
  ASSUME TypeOK, Shape
  PROVE  /\ \A reply \in Replies : Rows(reply) \in Seq(AnyRow)
         /\ \A c \in Places : Calls(c[1])[c[2]].limit >= 0 =>
              \A rows \in RowsOf(c[1], c[2]) : rows \in Seq(AnyRow)
<1>1. ASSUME NEW reply \in Replies PROVE Rows(reply) \in Seq(AnyRow)
  <2>1. reply \in Reply
    BY ScansAssumption
  <2>2. PICK pieces \in Seq(Seq(STRING)), body \in Seq(StreamRow) :
          Rows(reply) = Append(body, Row(Len(pieces) + 1, reply.text, TRUE))
    BY <2>1, RowsAre
  <2>3. Row(Len(pieces) + 1, reply.text, TRUE) \in StreamRow
    <3>1. Len(pieces) + 1 \in Nat /\ reply.text \in Seq(STRING)
      BY <2>1, LenProperties DEF Reply
    <3> QED BY <3>1 DEF Row, StreamRow
  <2>4. Rows(reply) \in Seq(StreamRow)
    <3>1. PICK S, row : S = StreamRow /\ row = Row(Len(pieces) + 1, reply.text, TRUE)
      OBVIOUS
    <3>2. body \in Seq(S) /\ row \in S /\ Rows(reply) = Append(body, row)
      BY <2>2, <2>3, <3>1
    <3>3. Append(body, row) \in Seq(S)
      BY <3>2
    <3> QED BY <3>1, <3>2, <3>3
  <2>5. StreamRow \subseteq AnyRow
    BY DEF StreamRow, AnyRow
  <2> HIDE DEF StreamRow, AnyRow
  <2> QED BY <2>4, <2>5
<1>2. ASSUME NEW c \in Places, Calls(c[1])[c[2]].limit >= 0, NEW rows \in RowsOf(c[1], c[2])
      PROVE  rows \in Seq(AnyRow)
  <2>1. c[1] \in Portals /\ c[2] \in DOMAIN scan[c[1]]
    BY PlaceIs
  <2>2. portal[c[1]].snapshot \in Nat /\ Calls(c[1])[c[2]].limit \in Nat
    BY <1>2, <2>1, QueryTyped
  <2>3. PICK m \in Matching(c[1], c[2]) : rows = TableRows(RowCount(c[1], c[2], m))
    BY DEF RowsOf
  <2>4. PICK n \in Nat : n = RowCount(c[1], c[2], m)
    BY <2>2, <2>3 DEF RowCount, Matching
  <2>6. rows = [i \in 1..n |-> [row |-> i]]
    BY <2>3, <2>4 DEF TableRows
  <2>5. \A i \in 1..n : [row |-> i] \in AnyRow
    BY DEF AnyRow
  <2> HIDE DEF AnyRow
  <2> QED BY <2>5, <2>6
<1> QED BY <1>1, <1>2

-----------------------------------------------------------------------------
(* A call, step by step.                                                   *)

LEMMA FirstCallKeeps ==
  ASSUME ScansInv, NEW p \in Portals, NEW k,
         FirstCall(p, k) \/ \E reply \in Replies : FirstCallOfStream(p, k, reply)
  PROVE  ScansInv'
<1>1. At(p, k) /\ scan[p][k].at = "new"
  BY DEF FirstCall, FirstCallOfStream
<1>2. TypeOK /\ Shape /\ <<p, k>> \in Places
  BY <1>1, Called
<1>3. CASE FirstCall(p, k)
  <2>1. /\ Fn(p, k) \notin OverStream /\ Calls(p)[k].limit >= 0
        /\ \E rows \in RowsOf(p, k) : Begin(p, k, rows, <<>>)
    BY <1>3 DEF FirstCall
  <2>2. PICK c \in Places : c = <<p, k>>
    BY <1>2
  <2>3. c[1] = p /\ c[2] = k
    BY <2>2
  <2>4. PICK rows \in RowsOf(p, k) : Begin(p, k, rows, <<>>)
    BY <2>1
  <2>5. rows \in Seq(AnyRow)
    BY <1>2, <2>1, <2>3, <2>4, RowsTyped
  <2>6. <<>> \in Replies \cup {<<>>}
    OBVIOUS
  <2> QED BY <1>1, <2>1, <2>4, <2>5, <2>6, BeginKeeps
<1>4. ASSUME NEW reply \in Replies, FirstCallOfStream(p, k, reply) PROVE ScansInv'
  <2>1. Fn(p, k) \in OverStream /\ Begin(p, k, Rows(reply), reply)
    BY <1>4 DEF FirstCallOfStream
  <2>2. Rows(reply) \in Seq(AnyRow)
    BY <1>2, RowsTyped
  <2> QED BY <1>1, <2>1, <2>2, BeginKeeps
<1> QED BY <1>3, <1>4

LEMMA FailureKeeps ==
  ASSUME ScansInv, NEW p \in Portals, NEW k, FirstCallFails(p, k) \/ Crash(p, k)
  PROVE  ScansInv'
<1>1. At(p, k) /\ Reset
  BY DEF FirstCallFails, Crash
<1>2. /\ TypeOK /\ Shape /\ <<p, k>> \in Places /\ St(<<p, k>>) = scan[p][k]
      /\ portal[p].at = "open"
  BY <1>1, Called
<1>3. states \subseteq Places /\ \A c \in Places : St(c).at = "done" => c \notin states
  BY <1>2 DEF ScansInv, TypeOK, HoldingsBalance, St
<1>4. CASE FirstCallFails(p, k)
  <2>1. /\ scan[p][k].at = "new" /\ undefined' = undefined
        /\ states' = states \/ states' = states \cup {<<p, k>>}
    BY <1>4 DEF FirstCallFails
  <2>2. St(<<p, k>>).at # "done"
    BY <1>2, <2>1
  <2>3. states' \subseteq Places /\ \A c \in Places : St(c).at = "done" => c \notin states'
    BY <1>2, <1>3, <2>1, <2>2
  <2> QED BY <1>1, <2>1, <2>3, ResetKeeps
<1>5. CASE Crash(p, k)
  <2>1. /\ scan[p][k].at = "open" /\ states' = {} /\ undefined' = undefined \cup {p}
        /\ ~LiveContext \/ ~LiveRows(p, k)
    BY <1>5 DEF Crash
  <2>2. Explained(p)
    BY <1>1, <2>1, WhyUndefined
  <2>3. portal[p].at # "unused"
    BY <1>2
  <2> QED BY <1>1, <2>1, <2>2, <2>3, ResetKeeps
<1> QED BY <1>4, <1>5

LEMMA EndKeeps ==
  ASSUME ScansInv, EndTransaction \/ \E p \in Portals : PrintFails(p)
  PROVE  ScansInv'
<1>1. Reset /\ UNCHANGED <<states, undefined>>
  BY DEF EndTransaction, PrintFails, Error
<1>2. states \subseteq Places /\ \A c \in Places : St(c).at = "done" => c \notin states
  BY DEF ScansInv, TypeOK, HoldingsBalance, St
<1> QED BY <1>1, <1>2, ResetKeeps

(* A row of a scan, or what is left of it.                                 *)
LEMMA DeliverKeeps ==
  ASSUME ScansInv, NEW p \in Portals, NEW k, NextRow(p, k) \/ NextRowUndefined(p, k)
  PROVE  ScansInv'
<1> DEFINE here == <<p, k>>
           s == scan[p][k]
<1>1. At(p, k) /\ s.at = "open" /\ Len(s.got) < Len(s.rows)
  BY DEF NextRow, NextRowUndefined, More
<1>2. /\ TypeOK /\ Shape
      /\ running = [portal |-> p, place |-> k] /\ running # NoCall
      /\ k \in DOMAIN scan[p] /\ k \in 1..Len(Calls(p)) /\ Len(Calls(p)) \in Nat
      /\ here \in Places /\ St(here) = s /\ s \in ScanState
      /\ portal[p].at = "open" /\ (reader # NoPortal => reader = p)
  BY <1>1, Called
<1>3. PICK row :
        /\ Deliver(p, k, row)
        /\ \/ row = s.rows[Len(s.got) + 1] /\ undefined' = undefined
           \/ row = Garbage /\ undefined' = undefined \cup {p} /\ Explained(p)
  <2>1. CASE NextRow(p, k)
    BY <2>1 DEF NextRow
  <2>2. CASE NextRowUndefined(p, k)
    BY <1>1, <2>2, WhyUndefined DEF NextRowUndefined
  <2> QED BY <2>1, <2>2
<1>4. /\ s.got \in Seq(AnyRow \cup {Garbage}) /\ s.rows \in Seq(AnyRow)
      /\ Len(s.got) \in Nat /\ Len(s.rows) \in Nat
  BY <1>2, LenProperties DEF ScanState
<1>5. row \in AnyRow \cup {Garbage}
  <2>1. Len(s.got) + 1 \in 1..Len(s.rows)
    <3>1. PICK x, y : x = Len(s.got) /\ y = Len(s.rows)
      OBVIOUS
    <3>2. x \in Nat /\ y \in Nat /\ x < y
      BY <1>1, <1>4, <3>1
    <3>3. x + 1 \in 1..y
      BY <3>2
    <3> QED BY <3>1, <3>3
  <2>2. s.rows[Len(s.got) + 1] \in AnyRow
    BY <1>4, <2>1, ElementOfSeq
  <2> QED BY <1>3, <2>2
<1>6. PICK r : r = [s EXCEPT !.got = Append(s.got, row)]
  OBVIOUS
<1>7. /\ r \in ScanState /\ r.at = "open" /\ r.serial = s.serial /\ r.rows = s.rows /\ r.reply = s.reply
      /\ r.got = Append(s.got, row)
  <2>1. Append(s.got, row) \in Seq(AnyRow \cup {Garbage})
    <3>1. PICK S : S = AnyRow \cup {Garbage}
      OBVIOUS
    <3>2. s.got \in Seq(S) /\ row \in S
      BY <1>4, <1>5, <3>1
    <3>3. Append(s.got, row) \in Seq(S)
      BY <3>2, AppendProperties
    <3> QED BY <3>1, <3>3
  <2> QED BY <1>1, <1>2, <1>6, <2>1 DEF ScanState
<1>8. /\ Len(r.got) = Len(s.got) + 1 /\ r.got[Len(s.got) + 1] = row
      /\ \A i \in 1..Len(s.got) : r.got[i] = s.got[i]
  <2>1. PICK S, g : S = AnyRow \cup {Garbage} /\ g = s.got
    OBVIOUS
  <2>2. g \in Seq(S) /\ row \in S /\ r.got = Append(g, row)
    BY <1>4, <1>5, <1>7, <2>1
  <2> HIDE DEF s
  <2> QED BY <2>1, <2>2, AppendProperties
<1>9. /\ scan' = [scan EXCEPT ![p][k] = r]
      /\ running' = Again(p, k)
      /\ UNCHANGED <<stored, portal, context, stack, states, reader, serial, taken>>
  <2>1. scan' = [scan EXCEPT ![p][k].got = Append(@, row)]
    BY <1>3 DEF Deliver
  <2>2. scan' = [scan EXCEPT ![p][k] = r]
    BY <1>6, <2>1
  <2> QED BY <1>3, <2>2 DEF Deliver
<1>10. /\ scan' \in [Portals -> Seq(ScanState)]
       /\ \A q \in Portals : Len(scan'[q]) = Len(scan[q]) /\ DOMAIN scan'[q] = DOMAIN scan[q]
       /\ Places' = Places /\ St(here)' = r
       /\ \A c \in Places : c # here => St(c)' = St(c)
  BY <1>2, <1>7, <1>9, OneScanChanges
<1> HIDE DEF s
<1>11. SameQueries
  BY <1>9 DEF SameQueries
<1>12. \A c \in Places :
         /\ c[1] \in Portals /\ c = <<c[1], c[2]>>
         /\ OnTable(c[1], c[2])' <=> OnTable(c[1], c[2])
         /\ InFrom(c[1])' <=> InFrom(c[1])
         /\ St(c)'.at = St(c).at /\ St(c)'.serial = St(c).serial /\ St(c)'.rows = St(c).rows
         /\ St(c)'.reply = St(c).reply /\ (Begun(c)' <=> Begun(c))
  <2> SUFFICES ASSUME NEW c \in Places
               PROVE  /\ c[1] \in Portals /\ c = <<c[1], c[2]>>
                      /\ OnTable(c[1], c[2])' <=> OnTable(c[1], c[2])
                      /\ InFrom(c[1])' <=> InFrom(c[1])
                      /\ St(c)'.at = St(c).at /\ St(c)'.serial = St(c).serial /\ St(c)'.rows = St(c).rows
                      /\ St(c)'.reply = St(c).reply /\ (Begun(c)' <=> Begun(c))
    OBVIOUS
  <2>1. c[1] \in Portals /\ c = <<c[1], c[2]>>
    BY PlaceIs
  <2>2. /\ St(c)'.at = St(c).at /\ St(c)'.serial = St(c).serial /\ St(c)'.rows = St(c).rows
        /\ St(c)'.reply = St(c).reply
    <3>1. CASE c = here
      BY <1>1, <1>2, <1>7, <1>10, <3>1
    <3>2. CASE c # here
      BY <1>10, <3>2
    <3> QED BY <3>1, <3>2
  <2> QED BY <1>11, <2>1, <2>2, QueriesStay DEF Begun
<1>13. PICK n \in k..(Len(Calls(p)) + 1) :
         /\ running' = [portal |-> p, place |-> n] /\ running' # NoCall /\ n \in Nat
         /\ InFrom(p) => n = k
  <2>1. CASE InFrom(p)
    <3>1. running' = running
      BY <1>9, <2>1 DEF Again, InFrom
    <3> QED BY <1>2, <3>1
  <2>2. CASE ~InFrom(p)
    <3>1. running' = After(p, k) /\ k \in Nat /\ k <= Len(Calls(p))
      BY <1>2, <1>9, <2>2 DEF Again, InFrom
    <3>2. PICK n \in (k + 1)..(Len(Calls(p)) + 1) : After(p, k) = [portal |-> p, place |-> n] /\ After(p, k) # NoCall
      BY <1>2, <3>1, AfterIs
    <3>3. n \in Nat /\ n \in k..(Len(Calls(p)) + 1)
      BY <1>2, <3>1
    <3> QED BY <2>2, <3>1, <3>2, <3>3
  <2> QED BY <2>1, <2>2
<1>14. TypeOK'
  <2>1. \A q \in Portals :
          /\ DOMAIN scan'[q] = DOMAIN Calls(q)'
          /\ \A j \in DOMAIN scan'[q] :
               /\ scan'[q][j].at \in {"new", "open", "done", "left", "gone"}
               /\ Len(scan'[q][j].got) <= Len(scan'[q][j].rows)
               /\ scan'[q][j].at = "done" => Len(scan'[q][j].got) = Len(scan'[q][j].rows)
    <3>1. \A c \in Places : /\ St(c).at \in {"new", "open", "done", "left", "gone"}
                            /\ Len(St(c).got) <= Len(St(c).rows)
                            /\ St(c).at = "done" => Len(St(c).got) = Len(St(c).rows)
      BY <1>2, PlaceIs DEF TypeOK, St
    <3>2. \A c \in Places : /\ St(c)'.at \in {"new", "open", "done", "left", "gone"}
                            /\ Len(St(c)'.got) <= Len(St(c)'.rows)
                            /\ St(c)'.at = "done" => Len(St(c)'.got) = Len(St(c)'.rows)
      <4> SUFFICES ASSUME NEW c \in Places
                   PROVE  /\ St(c)'.at \in {"new", "open", "done", "left", "gone"}
                          /\ Len(St(c)'.got) <= Len(St(c)'.rows)
                          /\ St(c)'.at = "done" => Len(St(c)'.got) = Len(St(c)'.rows)
        OBVIOUS
      <4>1. CASE c = here
        <5>1. Len(r.got) <= Len(r.rows)
          BY <1>1, <1>4, <1>7, <1>8
        <5> QED BY <1>7, <1>10, <4>1, <5>1
      <4>2. CASE c # here
        BY <1>10, <3>1, <4>2
      <4> QED BY <4>1, <4>2
    <3> QED BY <1>2, <1>10, <1>11, <3>2, ScansTyped
  <2>2. /\ \A i \in DOMAIN stack' : \/ \E c \in Places' : stack'[i] = ByScan(c[1], c[2])
                                    \/ \E q \in Portals : stack'[i] = ByReader(q)
        /\ states' \subseteq Places' /\ stored' \in 0..MaxStored
        /\ reader' \in Portals \cup {NoPortal}
        /\ portal' \in [Portals -> [at : {"unused", "open", "closed"},
                                    query : Queries \cup {NoQuery}, snapshot : 0..MaxStored]]
    <3>1. /\ \A i \in DOMAIN stack : \/ \E c \in Places : stack[i] = ByScan(c[1], c[2])
                                     \/ \E q \in Portals : stack[i] = ByReader(q)
          /\ states \subseteq Places /\ stored \in 0..MaxStored /\ reader \in Portals \cup {NoPortal}
          /\ portal \in [Portals -> [at : {"unused", "open", "closed"},
                                     query : Queries \cup {NoQuery}, snapshot : 0..MaxStored]]
      BY <1>2 DEF TypeOK
    <3>2. Places' = Places
      BY <1>10
    <3>3. UNCHANGED <<stored, portal, stack, states, reader>>
      BY <1>9
    <3> QED BY <3>1, <3>2, <3>3
  <2>3. undefined' \subseteq Portals
    BY <1>2, <1>3 DEF TypeOK
  <2>4. running' = NoCall \/ (/\ portal'[running'.portal].at = "open"
                              /\ running'.place \in 1..(Len(Calls(running.portal)') + 1))
    <3>1. running'.portal = p /\ running'.place = n
      BY <1>13
    <3>2. Calls(running.portal)' = Calls(p)
      BY <1>9, <3>1 DEF Calls
    <3>3. n \in 1..(Len(Calls(p)) + 1)
      BY <1>2, <1>13
    <3> QED BY <1>2, <1>9, <3>1, <3>2, <3>3
  <2> QED BY <2>1, <2>2, <2>3, <2>4, Zenon DEF TypeOK
<1>15. Shape'
  <2>1. \A q \in Portals : Len(scan'[q]) = Len(Calls(q)')
    BY <1>2, <1>10, <1>11, QueriesStay DEF Shape
  <2>2. \A q \in Portals : portal'[q].at = "unused" => portal'[q].query = NoQuery
    BY <1>2, <1>9 DEF Shape
  <2>3. undefined' \subseteq {q \in Portals : portal'[q].at # "unused"}
    <3>1. undefined \subseteq {q \in Portals : portal[q].at # "unused"}
      BY <1>2 DEF Shape
    <3>2. portal[p].at # "unused"
      BY <1>2
    <3> QED BY <1>3, <1>9, <3>1, <3>2
  <2>4. serial' \in Nat /\ stack' \in Seq(Owner)
    BY <1>2, <1>9 DEF Shape
  <2>5. /\ running' \in [portal : Portals \cup {NoPortal}, place : Nat]
        /\ running' # NoCall => running'.portal \in Portals
    BY <1>13
  <2> QED BY <1>10, <2>1, <2>2, <2>3, <2>4, <2>5 DEF Shape
<1>16. Found'
  BY <1>9, <1>10, <1>11, <1>12, FoundStays
<1>17. Faithful'
  <2> SUFFICES ASSUME NEW c \in Places, c[1] \notin undefined', NEW i \in 1..Len(St(c)'.got)
               PROVE  St(c)'.got[i] = St(c)'.rows[i]
    BY <1>10 DEF Faithful
  <2>1. c[1] \notin undefined
    BY <1>3
  <2>2. CASE c = here
    <3>1. row = s.rows[Len(s.got) + 1]
      BY <1>3, <2>2
    <3>2. i \in 1..(Len(s.got) + 1) /\ St(c)' = r
      BY <1>8, <1>10, <2>2
    <3>3. ASSUME i \in 1..Len(s.got) PROVE s.got[i] = s.rows[i]
      BY <1>2, <2>1, <2>2, <3>3 DEF ScansInv, Faithful
    <3>4. CASE i \in 1..Len(s.got)
      BY <1>7, <1>8, <3>2, <3>3, <3>4
    <3>5. CASE i = Len(s.got) + 1
      BY <1>7, <1>8, <3>1, <3>2, <3>5
    <3>6. PICK x \in Nat : x = Len(s.got)
      BY <1>4
    <3>7. i \in 1..x \/ i = x + 1
      BY <3>2, <3>6
    <3> QED BY <3>4, <3>5, <3>6, <3>7
  <2>3. CASE c # here
    BY <1>10, <2>1, <2>3 DEF ScansInv, Faithful
  <2> QED BY <2>2, <2>3
<1>18. \A c \in Places : Held(c[1], c[2])' <=> Held(c[1], c[2])
  BY <1>12 DEF Held, St
<1>19. Reading'
  <2> SUFFICES ASSUME reader # NoPortal PROVE Reading'
    BY <1>9 DEF Reading
  <2>1. reader = p /\ reader' = p
    BY <1>2, <1>9
  <2>2. OwnScans(reader)' = OwnScans(reader)
    <3>1. \A j \in DOMAIN scan[p] : Held(p, j)' <=> Held(p, j)
      <4> SUFFICES ASSUME NEW j \in DOMAIN scan[p] PROVE Held(p, j)' <=> Held(p, j)
        OBVIOUS
      <4>1. PICK c \in Places : c = <<p, j>>
        BY PlaceIs
      <4>2. c[1] = p /\ c[2] = j
        BY <4>1
      <4> QED BY <1>18, <4>2
    <3>2. OwnScans(p)' = OwnScans(p)
      BY <1>10, <3>1 DEF OwnScans
    <3>3. OwnScans(reader)' = OwnScans(p)'
      BY <2>1 DEF OwnScans, Held, OnTable, Fn, Calls
    <3> QED BY <2>1, <3>2, <3>3
  <2>3. running'.portal = p
    BY <1>13
  <2> QED BY <1>2, <1>9, <2>1, <2>2, <2>3 DEF ScansInv, Reading
<1>20. Holders' = Holders
  BY <1>10, <1>18 DEF Holders
<1>21. HoldingsBalance' /\ IsFiniteSet(Holders')
  <2>1. Len(stack') = Cardinality(Holders') + IF reader' = NoPortal THEN 0 ELSE 1
    BY <1>9, <1>20 DEF ScansInv, HoldingsBalance, Holders
  <2>2. \A c \in Places' : /\ scan'[c[1]][c[2]].at = "open" /\ ~OnTable(c[1], c[2])' => c \in states'
                           /\ scan'[c[1]][c[2]].at = "done" => c \notin states'
    BY <1>9, <1>10, <1>12 DEF ScansInv, HoldingsBalance, St
  <2> QED BY <1>20, <2>1, <2>2 DEF ScansInv, HoldingsBalance, Holders
<1>22. FromRuns'
  <2> SUFFICES ASSUME NEW c \in Places, InFrom(c[1]), St(c).at = "open"
               PROVE  /\ running' = [portal |-> c[1], place |-> c[2]]
                      /\ OnTable(c[1], c[2]) => Top' = ByScan(c[1], c[2])
    BY <1>10, <1>12 DEF FromRuns
  <2>1. c = here
    BY <1>1, OtherFromScans
  <2>2. c[1] = p /\ c[2] = k
    BY <2>1
  <2>3. OnTable(c[1], c[2]) => Top = ByScan(c[1], c[2])
    BY DEF ScansInv, FromRuns
  <2>4. Top' = Top
    BY <1>9 DEF Top
  <2> QED BY <1>13, <2>2, <2>3, <2>4
<1>23. ContextLeft'
  <2> SUFFICES ASSUME context # Executor PROVE ContextLeft'
    BY <1>9 DEF ContextLeft
  <2>1. ~InFrom(p) /\ \E j \in DOMAIN scan[p] : j < k /\ OnTable(p, j)
    BY <1>2 DEF ScansInv, ContextLeft
  <2>2. PICK j \in DOMAIN scan[p] : j < k /\ OnTable(p, j)
    BY <2>1
  <2>3. running'.portal = p /\ running'.place = n
    BY <1>13
  <2>4. j < n
    <3>1. j \in 1..Len(Calls(p))
      BY <1>2, QueryTyped
    <3> QED BY <1>2, <1>13, <2>2, <3>1
  <2>5. /\ ~InFrom(p)' /\ OnTable(p, j)' /\ j \in DOMAIN scan'[p]
    BY <1>10, <1>11, <2>1, <2>2, QueriesStay
  <2>6. ~InFrom(running.portal)' /\ OnTable(running.portal, j)' /\ j \in DOMAIN scan'[running'.portal]
    BY <2>3, <2>5 DEF InFrom, OnTable, Fn, Calls
  <2> QED BY <1>13, <2>3, <2>4, <2>6 DEF ContextLeft
<1>24. Connected'
  BY <1>9, <1>10, <1>12 DEF ScansInv, Connected
<1>25. Stacked'
  BY <1>9, <1>10, <1>12 DEF ScansInv, Stacked
<1>26. Recalled' /\ TakenFromLater' /\ UndefinedExplained'
  <2>1. Explained(p) => Explained(p)'
    BY <1>9, <1>10, <1>11, QueriesStay DEF Explained
  <2>2. \A q \in undefined' \ undefined : q \in Portals /\ Explained(q)'
    BY <1>3, <2>1
  <2>3. taken \subseteq taken' /\ taken' \ taken = {}
    BY <1>9
  <2> QED BY <1>9, <1>10, <1>11, <1>12, <2>2, <2>3, HistoriesStay
<1> QED
  BY <1>14, <1>15, <1>16, <1>17, <1>19, <1>21, <1>22, <1>23, <1>24, <1>25, <1>26 DEF ScansInv

(* The end of a scan: it gives back a connection.                          *)
LEMMA DoneKeeps ==
  ASSUME ScansInv, NEW p \in Portals, NEW k, Done(p, k)
  PROVE  ScansInv'
<1> DEFINE here == <<p, k>>
           s == scan[p][k]
<1>1. At(p, k) /\ s.at = "open" /\ ~(Len(s.got) < Len(s.rows))
  BY DEF Done, More
<1>2. /\ TypeOK /\ Shape
      /\ running = [portal |-> p, place |-> k] /\ running # NoCall
      /\ k \in DOMAIN scan[p] /\ k \in 1..Len(Calls(p)) /\ Len(Calls(p)) \in Nat
      /\ here \in Places /\ St(here) = s /\ s \in ScanState
      /\ portal[p].at = "open" /\ (reader # NoPortal => reader = p)
  BY <1>1, Called
<1>3. PICK r : r = [s EXCEPT !.at = "done"]
  OBVIOUS
<1>4. /\ r \in ScanState /\ r.at = "done" /\ r.serial = s.serial /\ r.rows = s.rows /\ r.reply = s.reply
      /\ r.got = s.got
  BY <1>2, <1>3 DEF ScanState
<1>5. scan' = [scan EXCEPT ![p][k] = r]
  <2>1. scan' = [scan EXCEPT ![p][k].at = "done"]
    BY DEF Done
  <2> QED BY <1>3, <2>1
<1>6. /\ scan' \in [Portals -> Seq(ScanState)]
      /\ \A q \in Portals : Len(scan'[q]) = Len(scan[q]) /\ DOMAIN scan'[q] = DOMAIN scan[q]
      /\ Places' = Places /\ St(here)' = r
      /\ \A c \in Places : c # here => St(c)' = St(c)
  BY <1>2, <1>4, <1>5, OneScanChanges
<1> HIDE DEF s
<1>7. /\ states' = states \ {here} /\ running' = After(p, k)
      /\ undefined' = undefined \/ (undefined' = undefined \cup {p} /\ Explained(p))
      /\ UNCHANGED <<stored, portal, reader, serial>>
  <2>1. /\ states' = states \ {<<p, k>>} /\ running' = After(p, k)
        /\ UNCHANGED <<stored, portal, reader, serial>>
    BY DEF Done
  <2>2. undefined' = IF LiveContext \/ Fn(p, k) \notin Decoding THEN undefined ELSE undefined \cup {p}
    BY DEF Done
  <2>3. ~LiveContext => Explained(p)
    BY <1>1, WhyUndefined DEF s
  <2>4. undefined' = undefined \/ (undefined' = undefined \cup {p} /\ Explained(p))
    <3>1. CASE LiveContext
      BY <2>2, <3>1
    <3>2. CASE ~LiveContext
      BY <2>2, <2>3, <3>2
    <3> QED BY <3>1, <3>2
  <2> QED BY <2>1, <2>4
<1>8. SameQueries
  BY <1>7 DEF SameQueries
<1>9. \A c \in Places :
        /\ c[1] \in Portals /\ c = <<c[1], c[2]>>
        /\ OnTable(c[1], c[2])' <=> OnTable(c[1], c[2])
        /\ InFrom(c[1])' <=> InFrom(c[1])
        /\ St(c)'.serial = St(c).serial /\ St(c)'.rows = St(c).rows
        /\ St(c)'.reply = St(c).reply /\ St(c)'.got = St(c).got /\ (Begun(c)' <=> Begun(c))
        /\ St(c)'.at = IF c = here THEN "done" ELSE St(c).at
  <2> SUFFICES ASSUME NEW c \in Places
               PROVE  /\ c[1] \in Portals /\ c = <<c[1], c[2]>>
                      /\ OnTable(c[1], c[2])' <=> OnTable(c[1], c[2])
                      /\ InFrom(c[1])' <=> InFrom(c[1])
                      /\ St(c)'.serial = St(c).serial /\ St(c)'.rows = St(c).rows
                      /\ St(c)'.reply = St(c).reply /\ St(c)'.got = St(c).got /\ (Begun(c)' <=> Begun(c))
                      /\ St(c)'.at = IF c = here THEN "done" ELSE St(c).at
    OBVIOUS
  <2>1. c[1] \in Portals /\ c = <<c[1], c[2]>>
    BY PlaceIs
  <2>2. /\ St(c)'.serial = St(c).serial /\ St(c)'.rows = St(c).rows
        /\ St(c)'.reply = St(c).reply /\ St(c)'.got = St(c).got /\ (Begun(c)' <=> Begun(c))
        /\ St(c)'.at = IF c = here THEN "done" ELSE St(c).at
    <3>1. CASE c = here
      BY <1>1, <1>2, <1>4, <1>6, <3>1 DEF Begun
    <3>2. CASE c # here
      BY <1>6, <3>2 DEF Begun
    <3> QED BY <3>1, <3>2
  <2> QED BY <1>8, <2>1, <2>2, QueriesStay
<1>10. PICK n \in (k + 1)..(Len(Calls(p)) + 1) :
         running' = [portal |-> p, place |-> n] /\ running' # NoCall /\ n \in Nat /\ k < n
  <2>1. k \in Nat /\ k <= Len(Calls(p))
    BY <1>2
  <2>2. PICK n \in (k + 1)..(Len(Calls(p)) + 1) : After(p, k) = [portal |-> p, place |-> n] /\ After(p, k) # NoCall
    BY <1>2, <2>1, AfterIs
  <2>3. n \in Nat /\ k < n
    BY <1>2, <2>1
  <2> QED BY <1>7, <2>2, <2>3
<1>11. /\ IsFiniteSet(Holders) /\ Cardinality(Holders) \in Nat
       /\ Len(stack) = Cardinality(Holders) + IF reader = NoPortal THEN 0 ELSE 1
       /\ OnTable(p, k) => here \in Holders
       /\ stack \in Seq(Owner) /\ DOMAIN stack = 1..Len(stack) /\ Len(stack) \in Nat
  <2>1. IsFiniteSet(Holders) /\ Cardinality(Holders) \in Nat
    BY FS_CardinalityType DEF ScansInv
  <2>2. Len(stack) = Cardinality(Holders) + IF reader = NoPortal THEN 0 ELSE 1
    BY DEF ScansInv, HoldingsBalance, Holders
  <2>3. OnTable(p, k) => here \in Holders
    BY <1>1, <1>2 DEF Holders, Held, s
  <2>4. stack \in Seq(Owner) /\ DOMAIN stack = 1..Len(stack) /\ Len(stack) \in Nat
    BY <1>2, LenProperties DEF Shape
  <2> QED BY <2>1, <2>2, <2>3, <2>4
<1>12. OnTable(p, k) => stack # <<>>
  <2> SUFFICES ASSUME OnTable(p, k) PROVE stack # <<>>
    OBVIOUS
  <2>1. Cardinality(Holders) # 0
    BY <1>11, FS_EmptySet
  <2>2. Len(stack) # 0
    BY <1>11, <2>1
  <2> QED BY <2>2
<1>13. /\ stack' \in Seq(Owner) /\ DOMAIN stack' = 1..Len(stack') /\ Len(stack') \in Nat
       /\ \A i \in 1..Len(stack') : i \in 1..Len(stack) /\ stack'[i] = stack[i]
       /\ Len(stack') = Len(stack) - IF OnTable(p, k) THEN 1 ELSE 0
       /\ \A i \in 1..Len(stack) : i \in 1..Len(stack') \/ (OnTable(p, k) /\ stack[i] = Top)
  <2>1. CASE OnTable(p, k)
    <3>1. stack' = Pop
      BY <1>12, <2>1 DEF Done, Finishes, Pop
    <3>2. /\ Len(stack) \in Nat \ {0} /\ Pop \in Seq(Owner) /\ Len(Pop) = Len(stack) - 1
          /\ DOMAIN Pop = 1..(Len(stack) - 1)
          /\ \A i \in 1..(Len(stack) - 1) : Pop[i] = stack[i]
          /\ Top = stack[Len(stack)]
      BY <1>2, <1>12, <2>1, Popped
    <3>3. PICK l : l = Len(stack)
      OBVIOUS
    <3>4. l \in Nat \ {0} /\ l - 1 \in Nat /\ \A i \in 1..l : i \in 1..(l - 1) \/ i = l
      BY <3>2, <3>3
    <3>5. /\ stack' \in Seq(Owner) /\ Len(stack') = l - 1 /\ DOMAIN stack' = 1..(l - 1)
          /\ \A i \in 1..(l - 1) : i \in 1..l /\ stack'[i] = stack[i]
      BY <3>1, <3>2, <3>3, <3>4
    <3>6. \A i \in 1..l : i \in 1..(l - 1) \/ stack[i] = Top
      BY <3>2, <3>3, <3>4
    <3> QED BY <2>1, <3>3, <3>4, <3>5, <3>6
  <2>2. CASE ~OnTable(p, k)
    <3>1. stack' = stack
      BY <2>2 DEF Done, Finishes
    <3>2. Len(stack) = Len(stack) - 0
      BY <1>11
    <3> QED BY <1>11, <2>2, <3>1, <3>2
  <2> QED BY <2>1, <2>2
<1>14. /\ taken \subseteq taken'
       /\ \A t \in taken' \ taken :
            /\ OnTable(p, k) /\ t \in Places \X {here}
            /\ Top = ByScan(t[1][1], t[1][2]) /\ St(t[1]).at = "open"
       /\ OnTable(p, k) => \A c \in Places :
            Top = ByScan(c[1], c[2]) /\ St(c).at = "open" => <<c, here>> \in taken'
  <2>1. CASE OnTable(p, k)
    <3>1. taken' = taken \cup {t \in Places \X {here} :
                      Top = ByScan(t[1][1], t[1][2]) /\ St(t[1]).at = "open"}
      BY <1>12, <2>1 DEF Done, Finishes, St
    <3> QED BY <2>1, <3>1
  <2>2. CASE ~OnTable(p, k)
    <3>1. taken' = taken
      BY <2>2 DEF Done, Finishes
    <3> QED BY <2>2, <3>1
  <2> QED BY <2>1, <2>2
<1>15. context' # Executor => IF OnTable(p, k) THEN ~InFrom(p) ELSE context # Executor
  BY <1>12 DEF Done, Finishes, InFrom
<1>16. TypeOK'
  <2>1. \A q \in Portals :
          /\ DOMAIN scan'[q] = DOMAIN Calls(q)'
          /\ \A j \in DOMAIN scan'[q] :
               /\ scan'[q][j].at \in {"new", "open", "done", "left", "gone"}
               /\ Len(scan'[q][j].got) <= Len(scan'[q][j].rows)
               /\ scan'[q][j].at = "done" => Len(scan'[q][j].got) = Len(scan'[q][j].rows)
    <3>1. \A c \in Places : /\ St(c).at \in {"new", "open", "done", "left", "gone"}
                            /\ Len(St(c).got) <= Len(St(c).rows)
                            /\ St(c).at = "done" => Len(St(c).got) = Len(St(c).rows)
                            /\ Len(St(c).got) \in Nat /\ Len(St(c).rows) \in Nat
      BY <1>2, PlaceIs, PlaceTyped DEF TypeOK, St
    <3>2. \A c \in Places : /\ St(c)'.at \in {"new", "open", "done", "left", "gone"}
                            /\ Len(St(c)'.got) <= Len(St(c)'.rows)
                            /\ St(c)'.at = "done" => Len(St(c)'.got) = Len(St(c)'.rows)
      <4> SUFFICES ASSUME NEW c \in Places
                   PROVE  /\ St(c)'.at \in {"new", "open", "done", "left", "gone"}
                          /\ Len(St(c)'.got) <= Len(St(c)'.rows)
                          /\ St(c)'.at = "done" => Len(St(c)'.got) = Len(St(c)'.rows)
        OBVIOUS
      <4>1. CASE c = here
        <5>1. Len(s.got) = Len(s.rows)
          <6>1. /\ Len(s.got) <= Len(s.rows)
                /\ Len(s.got) \in Nat /\ Len(s.rows) \in Nat
            BY <1>2, <3>1
          <6>2. ~(Len(s.got) < Len(s.rows))
            BY <1>1 DEF s
          <6>3. PICK x, y : x = Len(s.got) /\ y = Len(s.rows)
            OBVIOUS
          <6>4. x \in Nat /\ y \in Nat /\ x <= y /\ ~(x < y)
            BY <6>1, <6>2, <6>3
          <6> QED BY <6>3, <6>4
        <5>2. Len(s.got) <= Len(s.rows)
          BY <1>2, <3>1
        <5> QED BY <1>4, <1>6, <4>1, <5>1, <5>2
      <4>2. CASE c # here
        BY <1>6, <3>1, <4>2
      <4> QED BY <4>1, <4>2
    <3> QED BY <1>2, <1>6, <1>8, <3>2, ScansTyped
  <2>2. \A i \in DOMAIN stack' : \/ \E c \in Places' : stack'[i] = ByScan(c[1], c[2])
                                 \/ \E q \in Portals : stack'[i] = ByReader(q)
    <3>1. \A i \in DOMAIN stack : \/ \E c \in Places : stack[i] = ByScan(c[1], c[2])
                                  \/ \E q \in Portals : stack[i] = ByReader(q)
      BY <1>2 DEF TypeOK
    <3>2. Places' = Places
      BY <1>6
    <3>3. \A i \in DOMAIN stack' : i \in DOMAIN stack /\ stack'[i] = stack[i]
      BY <1>11, <1>13
    <3> QED BY <3>1, <3>2, <3>3, Zenon
  <2>3. /\ states' \subseteq Places' /\ stored' \in 0..MaxStored
        /\ reader' \in Portals \cup {NoPortal}
        /\ portal' \in [Portals -> [at : {"unused", "open", "closed"},
                                    query : Queries \cup {NoQuery}, snapshot : 0..MaxStored]]
    <3>1. /\ states \subseteq Places /\ stored \in 0..MaxStored /\ reader \in Portals \cup {NoPortal}
          /\ portal \in [Portals -> [at : {"unused", "open", "closed"},
                                     query : Queries \cup {NoQuery}, snapshot : 0..MaxStored]]
      BY <1>2 DEF TypeOK
    <3>2. Places' = Places
      BY <1>6
    <3>3. UNCHANGED <<stored, portal, reader>> /\ states' \subseteq states
      BY <1>7
    <3> QED BY <3>1, <3>2, <3>3
  <2>4. undefined' \subseteq Portals
    BY <1>2, <1>7 DEF TypeOK
  <2>5. running' = NoCall \/ (/\ portal'[running'.portal].at = "open"
                              /\ running'.place \in 1..(Len(Calls(running.portal)') + 1))
    <3>1. running'.portal = p /\ running'.place = n
      BY <1>10
    <3>2. Calls(running.portal)' = Calls(p)
      BY <1>7, <3>1 DEF Calls
    <3>3. n \in 1..(Len(Calls(p)) + 1)
      BY <1>2, <1>10
    <3> QED BY <1>2, <1>7, <3>1, <3>2, <3>3
  <2> QED BY <2>1, <2>2, <2>3, <2>4, <2>5, Zenon DEF TypeOK
<1>17. Shape'
  <2>1. \A q \in Portals : Len(scan'[q]) = Len(Calls(q)')
    BY <1>2, <1>6, <1>8, QueriesStay DEF Shape
  <2>2. \A q \in Portals : portal'[q].at = "unused" => portal'[q].query = NoQuery
    BY <1>2, <1>7 DEF Shape
  <2>3. undefined' \subseteq {q \in Portals : portal'[q].at # "unused"}
    <3>1. undefined \subseteq {q \in Portals : portal[q].at # "unused"}
      BY <1>2 DEF Shape
    <3>2. portal[p].at # "unused"
      BY <1>2
    <3> QED BY <1>7, <3>1, <3>2
  <2>4. serial' \in Nat
    BY <1>2, <1>7 DEF Shape
  <2>5. /\ running' \in [portal : Portals \cup {NoPortal}, place : Nat]
        /\ running' # NoCall => running'.portal \in Portals
    BY <1>10
  <2> QED BY <1>6, <1>13, <2>1, <2>2, <2>3, <2>4, <2>5 DEF Shape
<1>18. Found'
  BY <1>6, <1>7, <1>8, <1>9, FoundStays
<1>19. Faithful'
  <2>1. undefined \subseteq undefined'
    BY <1>7
  <2> QED BY <1>6, <1>9, <2>1 DEF ScansInv, Faithful
<1>20. \A c \in Places : Held(c[1], c[2])' <=> Held(c[1], c[2]) /\ c # here
  <2>1. \A c \in Places : c # here => St(c)' = St(c)
    BY <1>6
  <2>2. St(here)'.at = "done"
    BY <1>4, <1>6
  <2> QED BY <1>9, <2>1, <2>2 DEF Held, St
<1>21. Reading'
  <2> SUFFICES ASSUME reader # NoPortal PROVE Reading'
    BY <1>7 DEF Reading
  <2>1. reader = p /\ reader' = p
    BY <1>2, <1>7
  <2>2. OwnScans(p)' = OwnScans(p) \ {k}
    <3>1. ASSUME NEW j \in DOMAIN scan[p] PROVE Held(p, j)' <=> Held(p, j) /\ j # k
      <4>1. PICK c \in Places : c = <<p, j>>
        BY PlaceIs
      <4>2. c[1] = p /\ c[2] = j /\ (c = here <=> j = k)
        BY <4>1
      <4> QED BY <1>20, <4>2
    <3> QED BY <1>6, <3>1 DEF OwnScans
  <2>3. k \in OwnScans(p) <=> OnTable(p, k)
    BY <1>1, <1>2 DEF OwnScans, Held, s
  <2>4. IsFiniteSet(OwnScans(p)) /\ Cardinality(OwnScans(p)) \in Nat
    BY <2>1, FS_CardinalityType DEF ScansInv, Reading
  <2>5. PICK i \in 1..Len(stack) : stack[i] = ByReader(p) /\ Len(stack) = i + Cardinality(OwnScans(p))
    BY <2>1 DEF ScansInv, Reading
  <2>6. /\ IsFiniteSet(OwnScans(p)') /\ Cardinality(OwnScans(p)') \in Nat
        /\ Cardinality(OwnScans(p)') = Cardinality(OwnScans(p)) - IF OnTable(p, k) THEN 1 ELSE 0
    <3>1. CASE OnTable(p, k)
      BY <2>2, <2>3, <2>4, <3>1, FS_RemoveElement, FS_CardinalityType
    <3>2. CASE ~OnTable(p, k)
      <4>1. OwnScans(p)' = OwnScans(p)
        BY <2>2, <2>3, <3>2
      <4> QED BY <2>4, <3>2, <4>1
    <3> QED BY <3>1, <3>2
  <2>7. i \in 1..Len(stack') /\ Len(stack') = i + Cardinality(OwnScans(p)')
    <3>1. PICK l, m, x, y : /\ l = Len(stack) /\ m = Len(stack')
                            /\ x = Cardinality(OwnScans(p)) /\ y = Cardinality(OwnScans(p)')
      OBVIOUS
    <3>2. l \in Nat /\ m \in Nat /\ x \in Nat /\ y \in Nat /\ i \in 1..l /\ l = i + x
      BY <1>11, <1>13, <2>4, <2>5, <2>6, <3>1
    <3>3. (m = l - 1 /\ y = x - 1) \/ (m = l - 0 /\ y = x - 0)
      BY <1>13, <2>6, <3>1
    <3>4. i \in 1..m /\ m = i + y
      BY <3>2, <3>3
    <3> QED BY <3>1, <3>4
  <2>8. OwnScans(reader)' = OwnScans(p)'
    BY <2>1 DEF OwnScans, Held, OnTable, Fn, Calls
  <2>9. stack'[i] = ByReader(p)
    BY <1>13, <2>5, <2>7
  <2>10. portal'[p].at = "open" /\ running'.portal = p
    BY <1>2, <1>7, <1>10
  <2> QED BY <2>1, <2>6, <2>7, <2>8, <2>9, <2>10 DEF Reading
<1>22. Holders' = Holders \ {here}
  BY <1>6, <1>20 DEF Holders
<1>23. HoldingsBalance' /\ IsFiniteSet(Holders')
  <2>1. here \in Holders <=> OnTable(p, k)
    BY <1>1, <1>2 DEF Holders, Held, s
  <2>2. /\ IsFiniteSet(Holders')
        /\ Cardinality(Holders') = Cardinality(Holders) - IF OnTable(p, k) THEN 1 ELSE 0
    <3>1. CASE OnTable(p, k)
      BY <1>11, <1>22, <2>1, <3>1, FS_RemoveElement
    <3>2. CASE ~OnTable(p, k)
      <4>1. Holders' = Holders
        BY <1>22, <2>1, <3>2
      <4> QED BY <1>11, <3>2, <4>1
    <3> QED BY <3>1, <3>2
  <2>3. Len(stack') = Cardinality(Holders') + IF reader' = NoPortal THEN 0 ELSE 1
    BY <1>7, <1>11, <1>13, <2>2
  <2>4. ASSUME NEW c \in Places
        PROVE  /\ scan'[c[1]][c[2]].at = "open" /\ ~OnTable(c[1], c[2])' => c \in states'
               /\ scan'[c[1]][c[2]].at = "done" => c \notin states'
    <3>1. CASE c = here
      <4>1. St(c)'.at = "done"
        BY <1>9, <3>1
      <4> QED BY <1>7, <3>1, <4>1 DEF St
    <3>2. CASE c # here
      <4>1. scan'[c[1]][c[2]] = scan[c[1]][c[2]]
        BY <1>6, <3>2 DEF St
      <4> QED BY <1>7, <1>9, <3>2, <4>1 DEF ScansInv, HoldingsBalance
    <3> QED BY <3>1, <3>2
  <2> QED BY <1>6, <2>2, <2>3, <2>4 DEF HoldingsBalance, Holders
<1>24. FromRuns'
  <2> SUFFICES ASSUME NEW c \in Places, InFrom(c[1]), St(c)'.at = "open" PROVE FALSE
    BY <1>6, <1>9 DEF FromRuns
  <2>1. c # here /\ St(c).at = "open"
    BY <1>9
  <2> QED BY <1>1, <2>1, OtherFromScans
<1>25. ContextLeft'
  <2> SUFFICES ASSUME context' # Executor PROVE ContextLeft'
    BY DEF ContextLeft
  <2>1. ~InFrom(p) /\ \E j \in DOMAIN scan[p] : j < n /\ OnTable(p, j)
    <3>1. CASE OnTable(p, k)
      BY <1>2, <1>10, <1>15, <3>1
    <3>2. CASE ~OnTable(p, k)
      <4>1. ~InFrom(p) /\ \E j \in DOMAIN scan[p] : j < k /\ OnTable(p, j)
        BY <1>2, <1>15, <3>2 DEF ScansInv, ContextLeft
      <4>2. PICK j \in DOMAIN scan[p] : j < k /\ OnTable(p, j)
        BY <4>1
      <4>3. j \in 1..Len(Calls(p))
        BY <1>2, QueryTyped
      <4>4. j < n
        BY <1>2, <1>10, <4>2, <4>3
      <4> QED BY <4>1, <4>2, <4>4
    <3> QED BY <3>1, <3>2
  <2>2. PICK j \in DOMAIN scan[p] : j < n /\ OnTable(p, j)
    BY <2>1
  <2>3. running'.portal = p /\ running'.place = n
    BY <1>10
  <2>4. /\ ~InFrom(p)' /\ OnTable(p, j)' /\ j \in DOMAIN scan'[p]
    BY <1>6, <1>8, <2>1, <2>2, QueriesStay
  <2>5. ~InFrom(running.portal)' /\ OnTable(running.portal, j)' /\ j \in DOMAIN scan'[running'.portal]
    BY <2>3, <2>4 DEF InFrom, OnTable, Fn, Calls
  <2> QED BY <1>10, <2>2, <2>3, <2>5 DEF ContextLeft
<1>26. Connected'
  <2> SUFFICES ASSUME NEW c \in Places, St(c)'.at = "open", OnTable(c[1], c[2])
               PROVE  \/ \E i \in 1..Len(stack') : stack'[i] = ByScan(c[1], c[2])
                      \/ \E t \in taken' : t[1] = c /\ t[2] # c
    BY <1>6, <1>9 DEF Connected
  <2>1. c # here /\ St(c).at = "open"
    BY <1>9
  <2>2. \/ \E i \in 1..Len(stack) : stack[i] = ByScan(c[1], c[2])
        \/ \E t \in taken : t[1] = c /\ t[2] # c
    BY <2>1 DEF ScansInv, Connected
  <2>3. CASE \E t \in taken : t[1] = c /\ t[2] # c
    BY <1>14, <2>3
  <2>4. ASSUME NEW i \in 1..Len(stack), stack[i] = ByScan(c[1], c[2])
        PROVE  \/ \E x \in 1..Len(stack') : stack'[x] = ByScan(c[1], c[2])
               \/ \E t \in taken' : t[1] = c /\ t[2] # c
    <3>1. CASE i \in 1..Len(stack')
      BY <1>13, <2>4, <3>1
    <3>2. CASE i \notin 1..Len(stack')
      <4>1. OnTable(p, k) /\ Top = ByScan(c[1], c[2])
        BY <1>13, <2>4, <3>2
      <4>2. <<c, here>> \in taken'
        BY <1>14, <2>1, <4>1
      <4>3. <<c, here>>[1] = c /\ <<c, here>>[2] = here
        OBVIOUS
      <4> QED BY <2>1, <4>2, <4>3
    <3> QED BY <3>1, <3>2
  <2> QED BY <2>2, <2>3, <2>4
<1>27. Stacked'
  <2>1. \A i \in 1..Len(stack') : i \in 1..Len(stack) /\ stack'[i] = stack[i]
    BY <1>13
  <2> QED BY <1>6, <1>9, <2>1 DEF ScansInv, Stacked
<1>28. ASSUME NEW t \in taken' \ taken
       PROVE  /\ t \in {c \in Places : Begun(c)} \X {c \in Places : Begun(c)}
              /\ t[1] # t[2] => Later(t)'
  <2>1. PICK c \in Places : t = <<c, here>>
    BY <1>14
  <2>2. t[1] = c /\ t[2] = here
    BY <2>1
  <2>3. OnTable(p, k) /\ Top = ByScan(c[1], c[2]) /\ St(c).at = "open"
    BY <1>14, <2>2
  <2>4. Begun(c) /\ Begun(here)
    BY <1>1, <1>2, <2>3 DEF Begun, s
  <2>5. ASSUME c # here PROVE Later(t)'
    <3>1. ~InFrom(c[1])
      BY <1>1, <2>3, <2>5, OtherFromScans
    <3>2. here[1] = p /\ here[2] = k /\ St(here).at = "open"
      BY <1>1, <1>2 DEF s
    <3>3. ~InFrom(p)
      <4> SUFFICES ASSUME InFrom(p) PROVE FALSE
        OBVIOUS
      <4>1. Top = ByScan(p, k)
        BY <1>2, <2>3, <3>2 DEF ScansInv, FromRuns
      <4>2. ByScan(c[1], c[2]) = ByScan(p, k)
        BY <2>3, <4>1
      <4>3. c[1] = p /\ c[2] = k
        BY <4>2, Owners
      <4> QED BY <1>9, <2>5, <4>3
    <3>4. St(here).serial < St(c).serial \/ \E u \in taken : u[1] = here /\ u[2] # here
      <4>1. \/ \E i \in 1..Len(stack) : stack[i] = ByScan(here[1], here[2])
            \/ \E u \in taken : u[1] = here /\ u[2] # here
        BY <1>2, <2>3, <3>2 DEF ScansInv, Connected
      <4>2. ASSUME NEW i \in 1..Len(stack), stack[i] = ByScan(here[1], here[2])
            PROVE  St(here).serial < St(c).serial
        <5>1. stack[Len(stack)] = ByScan(c[1], c[2]) /\ Len(stack) \in 1..Len(stack)
          BY <1>11, <2>3, <4>2, <1>12 DEF Top
        <5>2. i # Len(stack)
          <6> SUFFICES ASSUME i = Len(stack) PROVE FALSE
            OBVIOUS
          <6>1. ByScan(here[1], here[2]) = ByScan(c[1], c[2])
            BY <4>2, <5>1
          <6>2. here[1] = c[1] /\ here[2] = c[2]
            BY <6>1, Owners
          <6> QED BY <1>9, <2>5, <3>2, <6>2
        <5>3. i < Len(stack)
          BY <1>11, <5>2
        <5> QED BY <1>2, <4>2, <5>1, <5>3 DEF ScansInv, Stacked
      <4> QED BY <4>1, <4>2
    <3>5. /\ ~InFrom(c[1])' /\ ~InFrom(here[1])'
          /\ St(here)'.serial = St(here).serial /\ St(c)'.serial = St(c).serial
      BY <1>2, <1>9, <3>1, <3>2, <3>3
    <3>6. St(here)'.serial < St(c)'.serial \/ \E u \in taken' : u[1] = here /\ u[2] # here
      BY <1>14, <3>4, <3>5
    <3> QED BY <2>2, <3>5, <3>6 DEF Later
  <2> QED BY <1>2, <2>1, <2>2, <2>4, <2>5
<1>29. Recalled' /\ TakenFromLater' /\ UndefinedExplained'
  <2>1. Explained(p) => Explained(p)'
    BY <1>6, <1>8, <1>14, QueriesStay DEF Explained
  <2>2. \A q \in undefined' \ undefined : q \in Portals /\ Explained(q)'
    BY <1>7, <2>1
  <2> QED BY <1>6, <1>8, <1>9, <1>14, <1>28, <2>2, HistoriesStay
<1> QED
  BY <1>16, <1>17, <1>18, <1>19, <1>21, <1>23, <1>24, <1>25, <1>26, <1>27, <1>29 DEF ScansInv

-----------------------------------------------------------------------------
(* The invariant always holds.                                             *)

LEMMA InitScans ==
  ASSUME Init
  PROVE  ScansInv
<1>1. /\ stored \in 0..MaxStored
      /\ portal = [p \in Portals |-> [at |-> "unused", query |-> NoQuery, snapshot |-> 0]]
      /\ scan = [p \in Portals |-> <<>>]
      /\ running = NoCall /\ context = Executor
      /\ stack = <<>> /\ states = {}
      /\ reader = NoPortal /\ serial = 0
      /\ taken = {} /\ undefined = {}
  BY DEF Init
<1>2. Places = {}
  BY <1>1 DEF Places
<1>3. \A p \in Portals : Calls(p) = <<>> /\ scan[p] = <<>>
  BY <1>1 DEF Calls, NoQuery
<1>4. TypeOK
  <2>1. portal \in [Portals -> [at : {"unused", "open", "closed"},
                                query : Queries \cup {NoQuery}, snapshot : 0..MaxStored]]
    BY <1>1, ScansAssumption
  <2>2. DOMAIN stack = {} /\ \A p \in Portals : DOMAIN scan[p] = {} /\ DOMAIN Calls(p) = {}
    BY <1>1, <1>3
  <2> QED BY <1>1, <2>1, <2>2 DEF TypeOK
<1>5. Shape
  <2>1. <<>> \in Seq(ScanState) /\ <<>> \in Seq(Owner)
    OBVIOUS
  <2>2. scan \in [Portals -> Seq(ScanState)] /\ \A p \in Portals : Len(scan[p]) = Len(Calls(p))
    BY <1>1, <1>3, <2>1
  <2>3. running \in [portal : Portals \cup {NoPortal}, place : Nat]
    BY <1>1 DEF NoCall
  <2> QED BY <1>1, <2>1, <2>2, <2>3 DEF Shape
<1>6. Holders = {}
  BY <1>2 DEF Holders
<1>7. HoldingsBalance /\ IsFiniteSet(Holders)
  <2>1. Len(stack) = 0 /\ Cardinality(Holders) = 0 /\ IsFiniteSet(Holders)
    BY <1>1, <1>6, FS_EmptySet
  <2> QED BY <1>1, <1>2, <2>1 DEF HoldingsBalance, Holders
<1>8. Found /\ Faithful /\ Reading /\ FromRuns /\ ContextLeft /\ Connected
  BY <1>1, <1>2 DEF Found, Faithful, Reading, FromRuns, ContextLeft, Connected
<1>9. Stacked /\ Recalled /\ TakenFromLater /\ UndefinedExplained
  BY <1>1, <1>2 DEF Stacked, Recalled, TakenFromLater, UndefinedExplained
<1> QED BY <1>4, <1>5, <1>7, <1>8, <1>9 DEF ScansInv

LEMMA StepScans ==
  ASSUME ScansInv, [Next]_vars
  PROVE  ScansInv'
<1>1. CASE AddRow
  <2>1. stored' \in 0..MaxStored
    BY <1>1, ScansAssumption DEF AddRow, ScansInv, TypeOK
  <2> QED BY <1>1, <2>1, NothingMoves DEF AddRow
<1>2. CASE EndTransaction
  BY <1>2, EndKeeps
<1>3. ASSUME NEW p \in Portals, NEW q \in Queries, Open(p, q) PROVE ScansInv'
  BY <1>3, OpenKeeps
<1>4. ASSUME NEW p \in Portals, Fetch(p) \/ SendRow(p) \/ PrintRow(p) PROVE ScansInv'
  BY <1>4, RowKeeps
<1>5. ASSUME NEW p \in Portals, Close(p) PROVE ScansInv'
  BY <1>5, CloseKeeps
<1>6. ASSUME NEW p \in Portals, NEW k, Call(p, k) PROVE ScansInv'
  <2>1. CASE FirstCall(p, k) \/ \E reply \in Replies : FirstCallOfStream(p, k, reply)
    BY <2>1, FirstCallKeeps
  <2>2. CASE FirstCallFails(p, k) \/ Crash(p, k)
    BY <2>2, FailureKeeps
  <2>3. CASE NextRow(p, k) \/ NextRowUndefined(p, k)
    BY <2>3, DeliverKeeps
  <2>4. CASE Done(p, k)
    BY <2>4, DoneKeeps
  <2> QED BY <1>6, <2>1, <2>2, <2>3, <2>4 DEF Call
<1>7. ASSUME NEW p \in Portals, PrintFails(p) PROVE ScansInv'
  BY <1>7, EndKeeps
<1>8. CASE UNCHANGED vars
  <2>1. stored' \in 0..MaxStored
    BY <1>8 DEF vars, ScansInv, TypeOK
  <2> QED BY <1>8, <2>1, NothingMoves DEF vars
<1> QED BY <1>1, <1>2, <1>3, <1>4, <1>5, <1>6, <1>7, <1>8 DEF Next

LEMMA ScansAlways == Spec => []ScansInv
<1>1. Init => ScansInv
  BY InitScans
<1>2. ScansInv /\ [Next]_vars => ScansInv'
  BY StepScans
<1> QED BY <1>1, <1>2, PTL DEF Spec

-----------------------------------------------------------------------------
(* What holds of the scans of any statements.                              *)

(* Statements, scans, connections and the call of the executor are what    *)
(* they should be, whatever the functions do to one another.               *)
THEOREM ScanTypesHold == Spec => []TypeOK
<1>1. ScansInv => TypeOK
  BY DEF ScansInv
<1> QED BY <1>1, ScansAlways, PTL

(* Each scan gives back one connection, whoever's: SPI_finish at the end   *)
(* of a scan never finds the stack empty, and the chunks of a stream are   *)
(* in reach exactly while it is read.                                      *)
THEOREM ConnectionsBalance == Spec => []HoldingsBalance
<1>1. ScansInv => HoldingsBalance
  BY DEF ScansInv
<1> QED BY <1>1, ScansAlways, PTL

(* A function in FROM returns the rows of its statement's snapshot up to   *)
(* its limit, whatever other cursors are open.                             *)
THEOREM FromScansAreWhole == Spec => []FromScansWhole
<1>1. ScansInv => FromScansWhole
  <2> SUFFICES ASSUME ScansInv, NEW c \in Places, InFrom(c[1]), St(c).at \in {"open", "done"}, ~Streams(c)
               PROVE  /\ \A i \in DOMAIN St(c).got :
                           St(c).got[i] = [row |-> i] /\ i <= portal[c[1]].snapshot
                      /\ St(c).at = "done" =>
                           \/ Len(St(c).got) = portal[c[1]].snapshot
                           \/ Len(St(c).got) = Calls(c[1])[c[2]].limit /\ Fn(c[1], c[2]) \notin Unlimited
                           \/ Len(St(c).got) < Calls(c[1])[c[2]].limit /\ Fn(c[1], c[2]) \in Searching
                      /\ St(c).at = "open" /\ OnTable(c[1], c[2]) => Top = ByScan(c[1], c[2])
    BY DEF FromScansWhole, St, Streams
  <2>1. TypeOK /\ Shape /\ c[1] \in Portals /\ c[2] \in DOMAIN scan[c[1]] /\ St(c) \in ScanState
    BY PlaceIs, PlaceTyped DEF ScansInv
  <2>2. /\ St(c).got \in Seq(AnyRow \cup {Garbage}) /\ Len(St(c).got) \in Nat
        /\ DOMAIN St(c).got = 1..Len(St(c).got)
    BY <2>1, LenProperties DEF ScanState
  <2>3. c[1] \notin undefined /\ Begun(c)
    BY DEF ScansInv, UndefinedExplained, Begun
  <2>4. Calls(c[1])[c[2]].limit >= 0 /\ St(c).rows \in RowsOf(c[1], c[2])
    BY <2>3 DEF ScansInv, Found
  <2>5. portal[c[1]].snapshot \in Nat /\ Calls(c[1])[c[2]].limit \in Nat
    BY <2>1, <2>4, QueryTyped
  <2>11. PICK m \in Matching(c[1], c[2]) : St(c).rows = TableRows(RowCount(c[1], c[2], m))
    BY <2>4 DEF RowsOf
  <2>6. PICK n \in Nat : /\ n = RowCount(c[1], c[2], m) /\ n <= portal[c[1]].snapshot
                         /\ \/ n = portal[c[1]].snapshot
                            \/ n = Calls(c[1])[c[2]].limit /\ Fn(c[1], c[2]) \notin Unlimited
                            \/ n < Calls(c[1])[c[2]].limit /\ Fn(c[1], c[2]) \in Searching
    <3>1. m \in Nat /\ m <= portal[c[1]].snapshot
          /\ (Fn(c[1], c[2]) \in Searching \/ m = portal[c[1]].snapshot)
      BY <2>5 DEF Matching
    <3>2. ~(Fn(c[1], c[2]) \in Searching /\ Fn(c[1], c[2]) \in Unlimited)
      BY DEF Searching, Unlimited
    <3> QED BY <2>5, <3>1, <3>2 DEF RowCount
  <2>7. Len(St(c).rows) = n /\ \A i \in 1..n : St(c).rows[i] = [row |-> i]
    <3>1. St(c).rows = [i \in 1..n |-> [row |-> i]]
      BY <2>11, <2>6 DEF TableRows
    <3> QED BY <3>1
  <2>8. Len(St(c).got) <= n /\ (St(c).at = "done" => Len(St(c).got) = n)
    BY <2>1, <2>7 DEF TypeOK, St
  <2>9. \A i \in 1..Len(St(c).got) : St(c).got[i] = [row |-> i] /\ i <= portal[c[1]].snapshot
    <3>1. \A i \in 1..Len(St(c).got) : St(c).got[i] = St(c).rows[i]
      BY <2>3 DEF ScansInv, Faithful
    <3>2. \A i \in 1..Len(St(c).got) : i \in 1..n /\ i <= portal[c[1]].snapshot
      <4> DEFINE l == Len(St(c).got)
                 last == portal[c[1]].snapshot
      <4>1. l \in Nat /\ l <= n /\ last \in Nat /\ n <= last
        BY <2>2, <2>5, <2>6, <2>8
      <4> HIDE DEF l, last
      <4>2. \A i \in 1..l : i \in 1..n /\ i <= last
        BY <4>1
      <4> QED BY <4>2 DEF l, last
    <3> QED BY <2>7, <3>1, <3>2
  <2>10. St(c).at = "open" /\ OnTable(c[1], c[2]) => Top = ByScan(c[1], c[2])
    BY DEF ScansInv, FromRuns
  <2> QED BY <2>2, <2>6, <2>8, <2>9, <2>10
<1> QED BY <1>1, ScansAlways, PTL

(* A scan that is still read loses its connection only in select lists, to *)
(* one that began before it or has lost its own.                           *)
THEOREM ConnectionsAreTakenFromLater == Spec => []TakenFromLater
<1>1. ScansInv => TakenFromLater
  BY DEF ScansInv
<1> QED BY <1>1, ScansAlways, PTL

(* Freed memory is read only in a select list that has lost a connection   *)
(* or in which a function has finished before.                             *)
THEOREM UndefinedIsExplained == Spec => []UndefinedExplained
<1>1. ScansInv => UndefinedExplained
  BY DEF ScansInv
<1> QED BY <1>1, ScansAlways, PTL

(* SQL that a function runs leaves that function's connection on top.      *)
THEOREM ReadersEndOnTop == Spec => []ReadersFinishTheirOwn
<1>1. ScansInv => ReadersFinishTheirOwn
  BY ReaderOnTop DEF ReadersFinishTheirOwn
<1> QED BY <1>1, ScansAlways, PTL

-----------------------------------------------------------------------------
(* What the rows of a stream spell.                                        *)

(* FlattenSeq is the last of any sequence of partial results.              *)
PartialResults(seqs, n, h) ==
  /\ n \in Nat \ {0} /\ Len(seqs) = n /\ h = [i \in 1..n |-> h[i]]
  /\ h[1] = seqs[1] /\ \A i \in 2..n : h[i] = h[i - 1] \o seqs[i]

LEMMA Flattened ==
  ASSUME NEW seqs, NEW n, NEW h, PartialResults(seqs, n, h)
  PROVE  FlattenSeq(seqs) = h[n]
<1> USE DEF PartialResults
<1> DEFINE g == CHOOSE f : f = [i \in 1..Len(seqs) |-> IF i = 1 THEN seqs[i] ELSE f[i - 1] \o seqs[i]]
<1>1. FlattenSeq(seqs) = g[Len(seqs)]
  <2>1. Len(seqs) # 0
    OBVIOUS
  <2> QED BY <2>1, Zenon DEF FlattenSeq
<1>2. h = [i \in 1..Len(seqs) |-> IF i = 1 THEN seqs[i] ELSE h[i - 1] \o seqs[i]]
  <2>1. ASSUME NEW i \in 1..n PROVE h[i] = IF i = 1 THEN seqs[i] ELSE h[i - 1] \o seqs[i]
    <3>1. CASE i = 1
      BY <3>1
    <3>2. CASE i # 1
      <4>1. i \in 2..n
        BY <3>2
      <4> QED BY <3>2, <4>1
    <3> QED BY <3>1, <3>2
  <2>2. [i \in 1..n |-> h[i]] = [i \in 1..n |-> IF i = 1 THEN seqs[i] ELSE h[i - 1] \o seqs[i]]
    BY <2>1, Zenon
  <2> QED BY <2>2, Zenon
<1>3. g = [i \in 1..Len(seqs) |-> IF i = 1 THEN seqs[i] ELSE g[i - 1] \o seqs[i]]
  BY <1>2, Zenon
<1> HIDE DEF g
<1>4. g[1] = seqs[1] /\ \A i \in 2..n : g[i] = g[i - 1] \o seqs[i]
  <2>1. 1 \in 1..n /\ \A i \in 2..n : i \in 1..n /\ i # 1
    OBVIOUS
  <2>2. \A i \in 1..n : g[i] = IF i = 1 THEN seqs[i] ELSE g[i - 1] \o seqs[i]
    BY <1>3, Zenon
  <2> QED BY <2>1, <2>2, Zenon
<1>5. \A i \in 1..n : g[i] = h[i]
  <2> DEFINE T == {i \in 1..n : g[i] # h[i]}
  <2> SUFFICES ASSUME T # {} PROVE FALSE
    OBVIOUS
  <2>1. T \subseteq Nat
    OBVIOUS
  <2>2. PICK m \in T : \A x \in T : m <= x
    <3> HIDE DEF T
    <3> QED BY <2>1, Least
  <2>3. m \in 1..n /\ g[m] # h[m]
    OBVIOUS
  <2>4. m \in 2..n /\ m - 1 \in 1..n /\ ~(m <= m - 1)
    BY <1>4, <2>3
  <2>5. m - 1 \notin T
    <3> HIDE DEF T
    <3> QED BY <2>2, <2>4
  <2>6. g[m - 1] = h[m - 1]
    BY <2>4, <2>5
  <2> QED BY <1>4, <2>3, <2>4, <2>6
<1> QED BY <1>1, <1>5

(* Pieces spell their text.                                                *)
LEMMA PiecesSpell ==
  ASSUME NEW txt \in Seq(STRING), NEW size \in Nat \ {0}
  PROVE  FlattenSeq(Pieces(txt, size)) = txt
<1>1. PICK f, n : f = Pieces(txt, size) /\ n = Len(f)
  OBVIOUS
<1>2. /\ f \in Seq(Seq(STRING)) /\ n \in Nat /\ DOMAIN f = 1..n
      /\ f = <<>> <=> txt = <<>>
      /\ Reached(txt, size, 0) = 0 /\ Reached(txt, size, n) = Len(txt)
      /\ \A i \in 1..n :
           /\ Reached(txt, size, i - 1) \in Nat /\ Reached(txt, size, i) \in Nat
           /\ Reached(txt, size, i - 1) < Reached(txt, size, i)
           /\ Reached(txt, size, i) <= Len(txt)
           /\ f[i] = SubSeq(txt, Reached(txt, size, i - 1) + 1, Reached(txt, size, i))
  BY <1>1, PiecesAre, LenProperties
<1>3. Len(txt) \in Nat
  BY LenProperties
<1>4. CASE n = 0
  <2>1. f = <<>> /\ txt = <<>>
    BY <1>1, <1>2, <1>4
  <2> QED BY <1>1, <2>1 DEF FlattenSeq
<1>5. CASE n # 0
  <2>1. PICK h : h = [i \in 1..n |-> SubSeq(txt, 1, Reached(txt, size, i))]
    OBVIOUS
  <2>2. \A i \in 1..n : h[i] = SubSeq(txt, 1, Reached(txt, size, i))
    BY <2>1
  <2>3. h = [i \in 1..n |-> h[i]]
    BY <2>1
  <2>4. h[1] = f[1]
    <3>1. 1 \in 1..n /\ 1 - 1 = 0 /\ 0 + 1 = 1
      BY <1>2, <1>5
    <3>2. f[1] = SubSeq(txt, Reached(txt, size, 1 - 1) + 1, Reached(txt, size, 1))
      BY <1>2, <3>1
    <3>3. f[1] = SubSeq(txt, Reached(txt, size, 0) + 1, Reached(txt, size, 1))
      BY <3>1, <3>2
    <3>4. h[1] = SubSeq(txt, 1, Reached(txt, size, 1))
      BY <2>2, <3>1
    <3> QED BY <1>2, <3>1, <3>3, <3>4
  <2>5. ASSUME NEW i \in 2..n PROVE h[i] = h[i - 1] \o f[i]
    <3>1. i \in 1..n /\ i - 1 \in 1..n
      BY <1>2, <2>5
    <3>2. PICK a, b : a = Reached(txt, size, i - 1) /\ b = Reached(txt, size, i)
      OBVIOUS
    <3>3. a \in Nat /\ b \in Nat /\ a < b /\ b <= Len(txt) /\ f[i] = SubSeq(txt, a + 1, b)
      BY <1>2, <3>1, <3>2
    <3>4. h[i] = SubSeq(txt, 1, b) /\ h[i - 1] = SubSeq(txt, 1, a)
      BY <2>2, <3>1, <3>2
    <3>5. 1 \in 1..(Len(txt) + 1) /\ a \in (1 - 1)..Len(txt) /\ b \in a..Len(txt)
      BY <1>3, <3>3
    <3>6. SubSeq(txt, 1, a) \o SubSeq(txt, a + 1, b) = SubSeq(txt, 1, b)
      BY <3>5, ConcatAdjacentSubSeq
    <3> QED BY <3>3, <3>4, <3>6
  <2>6. FlattenSeq(f) = h[n]
    <3>1. n \in Nat \ {0} /\ Len(f) = n /\ \A i \in 2..n : h[i] = h[i - 1] \o f[i]
      BY <1>1, <1>2, <1>5, <2>5
    <3>2. PartialResults(f, n, h)
      BY <2>3, <2>4, <3>1 DEF PartialResults
    <3> QED BY <3>2, Flattened, Zenon
  <2>7. h[n] = SubSeq(txt, 1, Len(txt))
    BY <1>2, <1>5, <2>2
  <2> QED BY <1>1, <2>6, <2>7, SubSeqFull
<1> QED BY <1>4, <1>5

(* What a client learns from the rows of an answer.                        *)
LEMMA RowsSpell ==
  ASSUME NEW reply \in Reply, NEW rows, rows = Rows(reply), NEW n, n = Len(rows)
  PROVE  /\ n \in Nat \ {0}
         /\ \A i \in 1..n : rows[i].is_final = (i = n)
         /\ rows[n].chunk = reply.text
         /\ Joined(SubSeq(rows, 1, n - 1)) = Spelt(reply)
         /\ \/ \A i \in 1..n : rows[i].seq_no = i
            \/ reply.text = <<>> /\ ~reply.mock
<1>1. PICK pieces \in Seq(Seq(STRING)), body \in Seq(StreamRow) :
        /\ rows = Append(body, Row(Len(pieces) + 1, reply.text, TRUE))
        /\ \/ body = Numbered(pieces)
           \/ reply.text = <<>> /\ ~reply.mock /\ pieces = <<>> /\ body = <<Row(1, <<>>, FALSE)>>
        /\ IF reply.mock /\ reply.script # <<>> THEN pieces = reply.script
           ELSE \E size \in Nat \ {0} : pieces = Pieces(reply.text, size)
  BY RowsAre
<1>2. reply.text \in Seq(STRING) /\ Len(pieces) \in Nat
  BY LenProperties DEF Reply
<1>3. PICK S, final : S = StreamRow /\ final = Row(Len(pieces) + 1, reply.text, TRUE)
  OBVIOUS
<1>4. /\ final \in S /\ body \in Seq(S)
      /\ final.is_final = TRUE /\ final.chunk = reply.text /\ final.seq_no = Len(pieces) + 1
  <2>1. final \in S
    BY <1>2, <1>3 DEF Row, StreamRow
  <2> QED BY <1>3, <2>1 DEF Row
<1>5. /\ Len(body) \in Nat /\ n = Len(body) + 1 /\ rows \in Seq(S)
      /\ \A i \in 1..Len(body) : rows[i] = body[i]
      /\ rows[n] = final
  <2>1. rows = Append(body, final)
    BY <1>1, <1>3
  <2> QED BY <1>4, <2>1, AppendProperties, LenProperties
<1>6. SubSeq(rows, 1, n - 1) = body
  <2>1. PICK l \in Nat : l = Len(body) /\ n = l + 1 /\ n - 1 = l
    BY <1>5
  <2>2. \A i \in 1..l : rows[i] \in S
    BY <1>4, <1>5, <2>1, ElementOfSeq
  <2>3. /\ SubSeq(rows, 1, l) \in Seq(S)
        /\ Len(SubSeq(rows, 1, l)) = IF 1 <= l THEN l - 1 + 1 ELSE 0
        /\ \A i \in 1..(l - 1 + 1) : SubSeq(rows, 1, l)[i] = rows[1 + i - 1]
    BY <2>2, SubSeqProperties
  <2>4. Len(SubSeq(rows, 1, l)) = l /\ l - 1 + 1 = l /\ \A i \in 1..l : 1 + i - 1 = i
    BY <2>1, <2>3
  <2>5. \A i \in 1..l : SubSeq(rows, 1, l)[i] = body[i]
    BY <1>5, <2>1, <2>3, <2>4
  <2> QED BY <1>4, <2>1, <2>3, <2>4, <2>5, SeqEqual
<1>7. CASE body = Numbered(pieces)
  <2>1. /\ Len(body) = Len(pieces)
        /\ \A i \in 1..Len(pieces) : body[i] = Row(i, pieces[i], FALSE)
    BY <1>2, <1>7, NumberedAre
  <2>2. \A i \in 1..Len(body) : rows[i].is_final = FALSE /\ rows[i].seq_no = i /\ rows[i].chunk = pieces[i]
    <3>1. \A i \in 1..Len(body) : rows[i] = Row(i, pieces[i], FALSE)
      BY <1>5, <2>1
    <3> SUFFICES ASSUME NEW i \in 1..Len(body)
                 PROVE  rows[i].is_final = FALSE /\ rows[i].seq_no = i /\ rows[i].chunk = pieces[i]
      OBVIOUS
    <3>2. PICK x : x = pieces[i]
      OBVIOUS
    <3>3. rows[i] = [seq_no |-> i, chunk |-> x, is_final |-> FALSE]
      BY <3>1, <3>2 DEF Row
    <3> QED BY <3>2, <3>3
  <2>3. \A i \in 1..n : (i \in 1..Len(body) /\ i # n) \/ i = n
    BY <1>5
  <2>4. n = Len(pieces) + 1
    BY <1>5, <2>1
  <2>5. \A i \in 1..n : rows[i].is_final = (i = n) /\ rows[i].seq_no = i
    BY <1>4, <1>5, <2>2, <2>3, <2>4
  <2>6. Joined(body) = Spelt(reply)
    <3>2. DOMAIN body = 1..Len(pieces) /\ DOMAIN pieces = 1..Len(pieces)
      BY <1>4, <2>1, LenProperties
    <3>3. [i \in DOMAIN body |-> body[i].chunk] = pieces
      <4>1. \A i \in 1..Len(pieces) : body[i].chunk = pieces[i]
        BY <1>5, <2>1, <2>2
      <4>2. pieces = [i \in 1..Len(pieces) |-> pieces[i]]
        BY <3>2, LenProperties
      <4>3. [i \in 1..Len(pieces) |-> body[i].chunk] = [i \in 1..Len(pieces) |-> pieces[i]]
        BY <4>1, Zenon
      <4> QED BY <3>2, <4>2, <4>3, Zenon
    <3>4. CASE reply.mock /\ reply.script # <<>>
      <4>1. pieces = reply.script
        BY <1>1, <3>4
      <4> QED BY <3>3, <3>4, <4>1, Zenon DEF Joined, Spelt
    <3>5. CASE ~(reply.mock /\ reply.script # <<>>)
      <4>1. PICK size \in Nat \ {0} : pieces = Pieces(reply.text, size)
        BY <1>1, <3>5
      <4>2. Spelt(reply) = reply.text
        BY <3>5 DEF Spelt
      <4> QED BY <1>2, <3>3, <4>1, <4>2, PiecesSpell DEF Joined
    <3> QED BY <3>4, <3>5
  <2>7. n \in Nat \ {0}
    BY <1>5
  <2>8. rows[n].chunk = reply.text
    BY <1>4, <1>5
  <2>9. Joined(SubSeq(rows, 1, n - 1)) = Spelt(reply)
    BY <1>6, <2>6, Zenon
  <2> QED BY <2>5, <2>7, <2>8, <2>9, Zenon
<1>8. CASE reply.text = <<>> /\ ~reply.mock /\ pieces = <<>> /\ body = <<Row(1, <<>>, FALSE)>>
  <2>1. Len(body) = 1 /\ body[1] = Row(1, <<>>, FALSE) /\ DOMAIN body = 1..1
    BY <1>8
  <2>2. n = 2 /\ rows[1].is_final = FALSE /\ rows[2].is_final = TRUE
    BY <1>4, <1>5, <2>1 DEF Row
  <2>3. \A i \in 1..n : rows[i].is_final = (i = n)
    <3>1. \A i \in 1..n : i = 1 \/ i = 2
      BY <2>2
    <3> QED BY <2>2, <3>1
  <2>4. Joined(body) = <<>>
    <3>1. PICK seqs : seqs = [i \in DOMAIN body |-> body[i].chunk]
      OBVIOUS
    <3>2. seqs = [i \in 1..1 |-> <<>>]
      <4>1. \A i \in 1..1 : body[i].chunk = <<>>
        BY <2>1 DEF Row
      <4> QED BY <2>1, <3>1, <4>1
    <3>3. Len(seqs) = 1 /\ seqs[1] = <<>> /\ 1 \in Nat \ {0} /\ seqs = [i \in 1..1 |-> seqs[i]]
          /\ \A i \in 2..1 : seqs[i] = seqs[i - 1] \o seqs[i]
      BY <3>2
    <3>4. FlattenSeq(seqs) = seqs[1]
      <4>1. PartialResults(seqs, 1, seqs)
        BY <3>3 DEF PartialResults
      <4> QED BY <4>1, Flattened, Zenon
    <3> QED BY <3>1, <3>3, <3>4 DEF Joined
  <2>5. n \in Nat \ {0} /\ rows[n].chunk = reply.text
    BY <1>4, <1>5
  <2>6. Joined(SubSeq(rows, 1, n - 1)) = Spelt(reply)
    <3>1. Spelt(reply) = <<>>
      BY <1>8 DEF Spelt
    <3> QED BY <1>6, <2>4, <3>1, Zenon
  <2> QED BY <1>8, <2>3, <2>5, <2>6, Zenon
<1> QED BY <1>1, <1>7, <1>8

(* Who reads a stream to its end gets the answer in the last row, which    *)
(* alone is final, and before it, in numbered pieces, the answer once more *)
(* or the mock_chunks a mock model is configured with.                     *)
THEOREM StreamsSpellReplies == Spec => []StreamsSpellTheirReply
<1>1. ScansInv => StreamsSpellTheirReply
  <2> SUFFICES ASSUME ScansInv, NEW c \in Places, St(c).at = "done", Streams(c), c[1] \notin undefined,
                      NEW n, n = Len(St(c).got)
               PROVE  /\ \A i \in 1..n : St(c).got[i].is_final = (i = n)
                      /\ St(c).got[n].chunk = St(c).reply.text
                      /\ Joined(SubSeq(St(c).got, 1, n - 1)) = Spelt(St(c).reply)
                      /\ \/ \A i \in 1..n : St(c).got[i].seq_no = i
                         \/ St(c).reply.text = <<>> /\ ~St(c).reply.mock
    BY DEF StreamsSpellTheirReply, St, Streams
  <2>1. TypeOK /\ Shape /\ c[1] \in Portals /\ c[2] \in DOMAIN scan[c[1]] /\ St(c) \in ScanState
    BY PlaceIs, PlaceTyped DEF ScansInv
  <2>2. St(c).reply \in Replies /\ St(c).rows = Rows(St(c).reply)
    BY DEF ScansInv, Found, Begun
  <2>3. St(c).reply \in Reply
    BY <2>2, ScansAssumption
  <2>4. Len(St(c).got) = Len(St(c).rows)
    BY <2>1 DEF TypeOK, St
  <2>5. \A i \in 1..Len(St(c).got) : St(c).got[i] = St(c).rows[i]
    BY DEF ScansInv, Faithful
  <2>6. St(c).got = St(c).rows
    <3>1. PICK S : S = AnyRow \cup {Garbage}
      OBVIOUS
    <3>2. St(c).got \in Seq(S) /\ St(c).rows \in Seq(AnyRow) /\ AnyRow \subseteq S
      BY <2>1, <3>1 DEF ScanState
    <3>3. St(c).rows \in Seq(S)
      BY <3>2, SeqMonotonic
    <3> QED BY <2>4, <2>5, <3>2, <3>3, SeqEqual
  <2> QED BY <2>2, <2>3, <2>6, RowsSpell
<1> QED BY <1>1, ScansAlways, PTL

=============================================================================
