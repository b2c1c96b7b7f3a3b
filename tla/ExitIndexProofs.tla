-------------------------- MODULE ExitIndexProofs ---------------------------
(***************************************************************************)
(* For every set of families and without bounds: the mirror of ExitIndex   *)
(* is write-through, so a restart after reseed loses nothing; the row of   *)
(* the latest settlement carries the right root as long as no reorg takes  *)
(* a settlement back; the spent marks are those of the canonical claims;   *)
(* the records served are those of the canonical chain.                    *)
(***************************************************************************)
EXTENDS ExitIndex, FoldProofs

IsMap(f) == f = [k \in DOMAIN f |-> f[k]]

(* Before reseed the mirror is empty and no write batch is open. *)
Unseeded == ~seeded => records = Nothing /\ latest = NoRow /\ ~batch.open

MirrorInv ==
  /\ IsMap(records) /\ IsMap(store.records)
  /\ seeded \in BOOLEAN
  /\ Unseeded
  /\ MirrorIsStore

(* Putting and dropping keys makes functions                                *)
(* (put_exit_record, delete_exit_record).                                     *)
LEMMA MapsStayMaps ==
  ASSUME NEW map, NEW key, NEW value
  PROVE  IsMap(Put(map, key, value)) /\ IsMap(Drop(map, key))
BY DEF IsMap, Put, Drop

(* Dropping a key that is absent changes nothing (the hide of an unknown       *)
(* family).                                                                   *)
LEMMA DropAbsent ==
  ASSUME NEW map, IsMap(map), NEW key, key \notin DOMAIN map
  PROVE  Drop(map, key) = map
<1>1. DOMAIN map \ {key} = DOMAIN map
  OBVIOUS
<1> QED BY <1>1 DEF IsMap, Drop

(* A hook writes the same records and the same row to the mirror and to the   *)
(* write batch (on_exits_committed .. on_exits_recommitted).                  *)
LEMMA HookWritesThrough ==
  ASSUME MirrorInv, SeedFirst, Hook
  PROVE  batch'.open /\ batch'.records = records' /\ batch'.latest = latest' /\ IsMap(records')
<1>1. seeded /\ ~batch.open
  BY DEF Hook
<1>2. store.records = records /\ store.latest = latest /\ IsMap(records)
  BY <1>1 DEF MirrorInv, MirrorIsStore
<1> DEFINE e == Head(calls).tx
<1> HIDE DEF e
<1>3. CASE OnExitsCommitted(e) \/ OnExitsRecommitted(e)
  BY <1>2, <1>3, MapsStayMaps DEF OnExitsCommitted, OnExitsRecommitted, Write
<1>4. CASE OnSettlementObserved(e)
  BY <1>2, <1>4 DEF OnSettlementObserved, Write
<1>5. CASE OnPermissionSpent(e)
  <2>1. CASE e.old_root \notin DOMAIN records
    <3>1. Drop(store.records, e.old_root) = records
      BY <1>2, <2>1, DropAbsent
    <3> QED BY <1>2, <1>5, <2>1, <3>1 DEF OnPermissionSpent, Write
  <2>2. CASE e.old_root \in DOMAIN records
    BY <1>2, <1>5, <2>2, MapsStayMaps DEF OnPermissionSpent, Write, Moved
  <2> QED BY <2>1, <2>2
<1>6. CASE OnExitsReverted(e)
  BY <1>2, <1>6, MapsStayMaps DEF OnExitsReverted, Write
<1>7. CASE Write(store.records, store.marks, store.latest) /\ UNCHANGED <<records, latest>>
  BY <1>2, <1>7 DEF Write
<1>8. CASE OnPermissionSpendReverted(e)
  BY <1>2, <1>8, MapsStayMaps DEF OnPermissionSpendReverted, Write
<1> QED BY <1>3, <1>4, <1>5, <1>6, <1>7, <1>8 DEF Hook, e

(* The inductive invariant of the mirror. *)
THEOREM MirrorInvariant == SeedFirst /\ Spec => []MirrorInv
<1> SUFFICES ASSUME SeedFirst PROVE Spec => []MirrorInv
  OBVIOUS
<1>1. Init => MirrorInv
  <2>1. IsMap(Nothing)
    BY DEF IsMap, Nothing
  <2> SUFFICES ASSUME Init PROVE MirrorInv
    OBVIOUS
  <2>2. records = Nothing /\ store.records = Nothing /\ seeded = FALSE
    BY DEF Init
  <2>3. Unseeded
    BY DEF Init, Unseeded, NoBatch
  <2>4. MirrorIsStore
    BY <2>2 DEF MirrorIsStore
  <2> QED BY <2>1, <2>2, <2>3, <2>4 DEF MirrorInv
<1>2. ASSUME MirrorInv, [Next]_vars
      PROVE  MirrorInv'
  <2>1. CASE UNCHANGED vars
    BY <1>2, <2>1 DEF vars, MirrorInv, MirrorIsStore, Unseeded, IsMap
  <2>2. ASSUME NEW e, Mine(e)
        PROVE  MirrorInv'
    BY <1>2, <2>2 DEF Mine, memory, MirrorInv, MirrorIsStore, Unseeded, IsMap
  <2>3. CASE Reorg
    BY <1>2, <2>3 DEF Reorg, memory, MirrorInv, MirrorIsStore, Unseeded, IsMap
  <2>4. CASE Hook
    <3>1. UNCHANGED <<store, seeded>> /\ seeded
      BY <1>2, <2>4 DEF Hook
    <3> QED BY <1>2, <2>4, <3>1, HookWritesThrough
            DEF MirrorInv, MirrorIsStore, Unseeded, IsMap
  <2>5. CASE Commit
    BY <1>2, <2>5 DEF Commit, NoBatch, memory, MirrorInv, MirrorIsStore, Unseeded, IsMap
  <2>6. CASE Reseed
    <3>1. records = Nothing /\ latest = NoRow /\ ~batch.open /\ DOMAIN records = {}
      BY <1>2, <2>6 DEF Reseed, MirrorInv, Unseeded, Nothing
    <3>2. records' = [r \in DOMAIN store.records |-> store.records[r]]
      BY <2>6, <3>1 DEF Reseed
    <3>3. records' = store.records
      BY <1>2, <3>2 DEF MirrorInv, IsMap
    <3> QED BY <1>2, <2>6, <3>1, <3>3 DEF Reseed, MirrorInv, MirrorIsStore, Unseeded, IsMap
  <2>7. CASE Restart
    BY <1>2, <2>7 DEF Restart, NoBatch, Nothing, MirrorInv, MirrorIsStore, Unseeded, IsMap
  <2> QED BY <1>2, <2>1, <2>2, <2>3, <2>4, <2>5, <2>6, <2>7
          DEF Next, SettleExits, SettleObserved, Claim
<1> QED BY <1>1, <1>2, PTL DEF Spec

(* MirrorIsStore: after reseed the store, with the open write batch, is the   *)
(* mirror, so a restart at any moment loses nothing, provided that no hook    *)
(* runs between start_runner and reseed.                                      *)
THEOREM MirrorIsWrittenThrough == SeedFirst /\ Spec => []MirrorIsStore
<1>1. MirrorInv => MirrorIsStore
  BY DEF MirrorInv
<1> QED BY <1>1, MirrorInvariant, PTL

---------------------------------------------------------------------------
(* What AtPlaces computes: the elements are taken one by one (the runner's    *)
(* reordering of the reverts, retain of a record's spends).                   *)
Takes(upTo, s, places) ==
  /\ upTo[0] = <<>>
  /\ \A n \in 1..Len(s) :
       upTo[n] = IF n \in places THEN Append(upTo[n - 1], s[n]) ELSE upTo[n - 1]

LEMMA AtPlacesTakes ==
  ASSUME NEW s, IsRow(s), NEW places
  PROVE  \E upTo : Takes(upTo, s, places) /\ AtPlaces(s, places) = upTo[Len(s)]
<1> DEFINE N == Len(s)
           next(f, n) == IF n \in places THEN Append(f[n - 1], s[n]) ELSE f[n - 1]
           Below(f, m) == f = [n \in 0..m |-> IF n = 0 THEN <<>> ELSE next(f, n)]
           Good == {m \in Nat : \E f : Below(f, m)}
           upTo == CHOOSE f : Below(f, N)
<1>0. N \in Nat
  BY RowOf DEF IsRow
<1>1. 0 \in Good
  <2> DEFINE f == [n \in 0..0 |-> <<>>]
  <2>1. Below(f, 0)
    OBVIOUS
  <2> QED BY <2>1
<1>2. ASSUME NEW m \in Nat, m \in Good PROVE m + 1 \in Good
  <2>1. PICK f : Below(f, m)
    BY <1>2
  <2> DEFINE g == [n \in 0..(m + 1) |-> IF n <= m THEN f[n] ELSE next(f, n)]
  <2>2. \A n \in 0..m : g[n] = f[n]
    OBVIOUS
  <2>3. \A n \in 1..(m + 1) : next(g, n) = next(f, n)
    <3> TAKE n \in 1..(m + 1)
    <3>1. n - 1 \in 0..m
      OBVIOUS
    <3>2. g[n - 1] = f[n - 1]
      BY <2>2, <3>1
    <3> QED BY <3>2
  <2>4. \A n \in 0..(m + 1) : g[n] = IF n = 0 THEN <<>> ELSE next(g, n)
    <3> TAKE n \in 0..(m + 1)
    <3>1. CASE n <= m
      <4>1. n \in 0..m
        BY <3>1
      <4>2. g[n] = f[n] /\ f[n] = IF n = 0 THEN <<>> ELSE next(f, n)
        BY <2>1, <2>2, <4>1
      <4>3. n # 0 => next(g, n) = next(f, n)
        BY <2>3, <4>1
      <4> HIDE DEF g, next
      <4> QED BY <4>2, <4>3
    <3>2. CASE n = m + 1
      <4>1. g[n] = next(f, n) /\ n # 0 /\ n \in 1..(m + 1)
        BY <3>2
      <4>2. next(g, n) = next(f, n)
        BY <2>3, <4>1
      <4> HIDE DEF g, next
      <4> QED BY <4>1, <4>2
    <3> QED BY <3>1, <3>2
  <2>5. Below(g, m + 1)
    <3> HIDE DEF next
    <3>1. g = [n \in 0..(m + 1) |-> g[n]]
      OBVIOUS
    <3> HIDE DEF g
    <3> QED BY <2>4, <3>1
  <2> HIDE DEF g
  <2> QED BY <2>5
<1>3. N \in Good
  <2> HIDE DEF Good
  <2> QED BY <1>0, <1>1, <1>2, NatSetInduction
<1>4. Below(upTo, N)
  BY <1>3
<1>5. AtPlaces(s, places) = upTo[N]
  BY DEF AtPlaces
<1> HIDE DEF upTo
<1>6. /\ upTo[0] = <<>>
      /\ \A n \in 1..N : upTo[n] = next(upTo, n)
  <2> HIDE DEF next
  <2> QED BY <1>0, <1>4
<1>7. Takes(upTo, s, places)
  BY <1>6 DEF Takes
<1> QED BY <1>5, <1>7

(* Only keeps what is of one of the kinds.                                    *)
Chosen(row, s, n, kinds) ==
  /\ IsRow(row)
  /\ \A i \in 1..Len(row) : \E k \in 1..n : row[i] = s[k] /\ s[k].kind \in kinds
  /\ \A k \in 1..n : s[k].kind \in kinds => \E i \in 1..Len(row) : row[i] = s[k]

LEMMA OnlyChooses ==
  ASSUME NEW s, IsRow(s), NEW kinds
  PROVE  Chosen(Only(s, kinds), s, Len(s), kinds)
<1> DEFINE N == Len(s)
           places == { i \in 1..N : s[i].kind \in kinds }
<1>0. N \in Nat
  BY RowOf DEF IsRow
<1>4. \A n \in 1..N : n \in places <=> s[n].kind \in kinds
  OBVIOUS
<1> HIDE DEF places
<1>5. PICK upTo : Takes(upTo, s, places) /\ AtPlaces(s, places) = upTo[N]
  BY AtPlacesTakes
<1>6. /\ upTo[0] = <<>>
      /\ \A n \in 1..N :
           upTo[n] = IF s[n].kind \in kinds THEN Append(upTo[n - 1], s[n]) ELSE upTo[n - 1]
  BY <1>4, <1>5 DEF Takes
<1> DEFINE Fine == {m \in Nat : m <= N => Chosen(upTo[m], s, m, kinds)}
<1>7. 0 \in Fine
  <2>1. IsRow(<<>>) /\ Len(<<>>) = 0
    <3>1. <<>> \in Seq({})
      OBVIOUS
    <3> QED BY <3>1, RowOf
  <2>2. Chosen(<<>>, s, 0, kinds)
    BY <2>1 DEF Chosen
  <2> QED BY <1>6, <2>2
<1>8. ASSUME NEW m \in Nat, m \in Fine PROVE m + 1 \in Fine
  <2> SUFFICES ASSUME m + 1 <= N PROVE Chosen(upTo[m + 1], s, m + 1, kinds)
    OBVIOUS
  <2>1. Chosen(upTo[m], s, m, kinds)
    BY <1>0, <1>8
  <2>2. upTo[m + 1] = IF s[m + 1].kind \in kinds THEN Append(upTo[m], s[m + 1]) ELSE upTo[m]
    <3>1. m + 1 \in 1..N /\ (m + 1) - 1 = m
      BY <1>0
    <3> QED BY <1>6, <3>1
  <2> DEFINE u == upTo[m]
             v == upTo[m + 1]
  <2> HIDE DEF u, v
  <2>3. CASE s[m + 1].kind \in kinds
    <3>1. v = Append(u, s[m + 1])
      BY <2>2, <2>3 DEF u, v
    <3>2. /\ IsRow(v) /\ Len(u) \in Nat /\ Len(v) = Len(u) + 1
          /\ v[Len(u) + 1] = s[m + 1]
          /\ \A i \in 1..Len(u) : v[i] = u[i]
      BY <2>1, <3>1, RowGrows DEF Chosen, u
    <3>3. ASSUME NEW i \in 1..Len(v)
          PROVE  \E k \in 1..(m + 1) : v[i] = s[k] /\ s[k].kind \in kinds
      <4>1. CASE i = Len(u) + 1
        BY <2>3, <3>2, <4>1
      <4>2. CASE i \in 1..Len(u)
        <5>1. PICK k \in 1..m : u[i] = s[k] /\ s[k].kind \in kinds
          BY <2>1, <4>2 DEF Chosen, u
        <5>2. k \in 1..(m + 1) /\ v[i] = s[k]
          BY <3>2, <4>2, <5>1
        <5> QED BY <5>1, <5>2
      <4> QED BY <3>2, <4>1, <4>2
    <3>4. ASSUME NEW k \in 1..(m + 1), s[k].kind \in kinds
          PROVE  \E i \in 1..Len(v) : v[i] = s[k]
      <4>1. CASE k = m + 1
        <5>1. Len(u) + 1 \in 1..Len(v)
          BY <3>2
        <5> QED BY <3>2, <4>1, <5>1
      <4>2. CASE k \in 1..m
        <5>1. PICK i \in 1..Len(u) : u[i] = s[k]
          BY <2>1, <3>4, <4>2 DEF Chosen, u
        <5>2. i \in 1..Len(v) /\ v[i] = s[k]
          BY <3>2, <5>1
        <5> QED BY <5>2
      <4> QED BY <4>1, <4>2
    <3> QED BY <3>2, <3>3, <3>4 DEF Chosen, v
  <2>4. CASE s[m + 1].kind \notin kinds
    <3>1. v = u
      BY <2>2, <2>4 DEF u, v
    <3>2. \A k \in 1..(m + 1) : s[k].kind \in kinds => k \in 1..m
      BY <2>4
    <3>3. \A k \in 1..m : k \in 1..(m + 1)
      OBVIOUS
    <3>4. Chosen(u, s, m + 1, kinds)
      BY <2>1, <3>2, <3>3 DEF Chosen, u
    <3> QED BY <3>1, <3>4 DEF v
  <2> QED BY <2>3, <2>4
<1>9. N \in Fine
  <2> HIDE DEF Fine
  <2> QED BY <1>0, <1>7, <1>8, NatSetInduction
<1> QED BY <1>0, <1>5, <1>9 DEF Only, places

---------------------------------------------------------------------------
(* The reports *)

AllApply(cs, p) == \A i \in (p + 1)..Len(cs) : cs[i].hook = "apply"

(* The reports after the newest revert are the newest transactions.          *)
CallsInv ==
  /\ IsRow(l1) /\ IsRow(calls)
  /\ \A i \in 1..Len(l1) : l1[i].kind \in {"Exits", "Observed", "Claim"}
  /\ \A i \in 1..Len(calls) : calls[i].hook \in {"apply", "revert"}
  /\ \A p \in 0..Len(calls) : AllApply(calls, p) =>
       /\ Len(calls) - p <= Len(l1)
       /\ \A i \in (p + 1)..Len(calls) : calls[i] = Apply(l1[Len(l1) - Len(calls) + i])
  /\ reorgs \in Nat
  /\ reorgs = 0 => AllApply(calls, 0)
  /\ batch.open \in BOOLEAN
  /\ batch.open => calls # <<>>

---------------------------------------------------------------------------
(* The row of the latest settlement, as long as there is no reorg *)

ExitsOf(s) == { i \in 1..Len(s) : EmitsExits(s[i]) }
LastRoot(s) ==
  IF ExitsOf(s) = {} THEN NoRoot
  ELSE Commitment(s[CHOOSE i \in ExitsOf(s) : \A j \in ExitsOf(s) : j <= i])

(* The row after the first transactions of the chain: its root is the last    *)
(* one unless a settlement with exits is still to come.                       *)
RowIsCurrent(s, row, done) ==
  /\ row = [permission_root |-> row.permission_root, txid |-> row.txid]
  /\ (\A i \in (done + 1)..Len(s) : ~EmitsExits(s[i])) => row.permission_root = LastRoot(s)
  /\ (s # <<>> /\ done = Len(s) /\ s[Len(s)].kind = "Observed") => row.txid = s[Len(s)].tx

AheadInv ==
  reorgs = 0 =>
    /\ RowIsCurrent(l1, store.latest, Len(l1) - Len(calls))
    /\ batch.open => RowIsCurrent(l1, batch.latest, Len(l1) - Len(calls) + 1)

---------------------------------------------------------------------------
(* The spent marks *)

(* Different families never have the same root.                               *)
RootsDiffer ==
  \A f, g \in Families :
    \A E \in SUBSET (1..Len(Leaves[f])), F \in SUBSET (1..Len(Leaves[g])) :
      (E # 1..Len(Leaves[f]) /\ F # 1..Len(Leaves[g]) /\ Root(Leaves[f], E) = Root(Leaves[g], F))
        => f = g

Touches(e, key) == e.kind = "Claim" /\ Mark(e) = key
Untouched(cs, key) == \A i \in 1..Len(cs) : ~Touches(cs[i].tx, key)
LastTouch(cs, key, i) ==
  Touches(cs[i].tx, key) /\ \A j \in (i + 1)..Len(cs) : ~Touches(cs[j].tx, key)
Canonical(s, key) == { i \in 1..Len(s) : Touches(s[i], key) }

(* A key no report is about is marked as the chain says; otherwise the last   *)
(* report about it says so.                                                   *)
MarkTold(s, marks, cs, key) ==
  /\ Untouched(cs, key) => /\ key \in DOMAIN marks <=> Canonical(s, key) # {}
                           /\ \A i \in Canonical(s, key) : marks[key] = s[i].tx
  /\ \A i \in 1..Len(cs) : LastTouch(cs, key, i) =>
       IF cs[i].hook = "apply" THEN \E j \in Canonical(s, key) : cs[i].tx = s[j]
       ELSE Canonical(s, key) = {}

SoundClaim(e) ==
  /\ e.family \in Families
  /\ e.leaf \in 1..Len(Leaves[e.family])
  /\ \E E \in SUBSET (1..Len(Leaves[e.family]) \ {e.leaf}) : e.old_root = Root(Leaves[e.family], E)

ClaimsInv ==
  /\ \A i \in 1..Len(l1) : l1[i].kind = "Claim" => SoundClaim(l1[i])
  /\ \A i, j \in 1..Len(l1) :
       (l1[i].kind = "Claim" /\ l1[j].kind = "Claim" /\ Mark(l1[i]) = Mark(l1[j])) => i = j

MarksInv ==
  \A key : /\ MarkTold(l1, store.marks, calls, key)
           /\ batch.open => MarkTold(l1, batch.marks, Tail(calls), key)

---------------------------------------------------------------------------
(* What a reorg adds to the reports: reverts of what it took back, each of    *)
(* the claims among them, in either order.                                    *)
RevertsOf(back, n) ==
  /\ IsRow(back) /\ back # <<>>
  /\ \A i \in 1..Len(back) : \E k \in (n + 1)..Len(l1) : back[i] = Revert(l1[k])
  /\ \A k \in (n + 1)..Len(l1) : \E i \in 1..Len(back) : back[i] = Revert(l1[k])

LEMMA RevertsOfRow ==
  ASSUME NEW s, IsRow(s)
  PROVE  /\ IsRow(Reverts(s)) /\ Len(Reverts(s)) = Len(s) /\ Len(s) \in Nat
         /\ \A i \in 1..Len(s) : Reverts(s)[i] = Revert(s[i])
<1>1. Len(s) \in Nat
  BY RowOf DEF IsRow
<1>2. \A i \in 1..Len(s) : Reverts(s)[i] = Revert(s[i])
  BY <1>1 DEF Reverts
<1>3. Reverts(s) = [i \in 1..Len(s) |-> Reverts(s)[i]]
  BY <1>1 DEF Reverts
<1> QED BY <1>1, <1>2, <1>3, RowIsMade

LEMMA ReorgReverts ==
  ASSUME CallsInv, Reorg
  PROVE  \E n \in 0..(Len(l1) - 1) : \E back :
           /\ l1' = SubSeq(l1, 1, n)
           /\ calls' = calls \o back
           /\ RevertsOf(back, n)
<1>0. IsRow(l1) /\ IsRow(calls) /\ Len(l1) \in Nat
  BY RowOf DEF CallsInv, IsRow
<1>1. PICK n \in 0..(Len(l1) - 1) :
        LET gone == Backwards(SubSeq(l1, n + 1, Len(l1)))
        IN  /\ l1' = SubSeq(l1, 1, n)
            /\ \/ calls' = calls \o Reverts(gone)
               \/ calls' = calls \o Reverts(Only(gone, {"Exits", "Observed"}))
                                 \o Reverts(Only(gone, {"Claim"}))
  BY DEF Reorg
<1> DEFINE cut == SubSeq(l1, n + 1, Len(l1))
           gone == Backwards(cut)
           size == Len(l1) - n
<1>2. /\ n \in Nat /\ size \in Nat \ {0}
      /\ IsRow(cut) /\ Len(cut) = size
      /\ \A i \in 1..size : cut[i] = l1[n + i]
  <2>1. n \in Nat /\ size \in Nat \ {0} /\ n <= Len(l1)
    BY <1>0
  <2> QED BY <1>0, <2>1, RowIsCut
<1> HIDE DEF cut
<1>3. /\ IsRow(gone) /\ Len(gone) = size
      /\ \A i \in 1..size : gone[i] = l1[Len(l1) + 1 - i]
  <2>1. gone = [i \in 1..size |-> cut[size + 1 - i]]
    BY <1>2 DEF Backwards
  <2>2. gone = [i \in 1..size |-> gone[i]]
    BY <2>1
  <2>3. ASSUME NEW i \in 1..size PROVE gone[i] = l1[Len(l1) + 1 - i]
    <3>1. size + 1 - i \in 1..size /\ n + (size + 1 - i) = Len(l1) + 1 - i
      BY <1>0, <1>2
    <3> QED BY <1>2, <2>1, <3>1
  <2> HIDE DEF gone
  <2> QED BY <1>2, <2>2, <2>3, RowIsMade
<1> HIDE DEF gone
<1>4. \A k \in (n + 1)..Len(l1) : \E i \in 1..size : gone[i] = l1[k]
  <2> TAKE k \in (n + 1)..Len(l1)
  <2>1. Len(l1) + 1 - k \in 1..size /\ Len(l1) + 1 - (Len(l1) + 1 - k) = k
    BY <1>0, <1>2
  <2> QED BY <1>3, <2>1
<1>5. \A i \in 1..size : \E k \in (n + 1)..Len(l1) : gone[i] = l1[k]
  <2> TAKE i \in 1..size
  <2>1. Len(l1) + 1 - i \in (n + 1)..Len(l1)
    BY <1>0, <1>2
  <2> QED BY <1>3, <2>1
<1>6. CASE calls' = calls \o Reverts(gone)
  <2> DEFINE back == Reverts(gone)
  <2>1. /\ IsRow(back) /\ Len(back) = size
        /\ \A i \in 1..size : back[i] = Revert(gone[i])
    BY <1>3, RevertsOfRow
  <2> HIDE DEF back
  <2>2. RevertsOf(back, n)
    <3>1. back # <<>>
      BY <1>2, <2>1
    <3>2. \A i \in 1..Len(back) : \E k \in (n + 1)..Len(l1) : back[i] = Revert(l1[k])
      BY <1>5, <2>1
    <3>3. \A k \in (n + 1)..Len(l1) : \E i \in 1..Len(back) : back[i] = Revert(l1[k])
      BY <1>4, <2>1
    <3> QED BY <2>1, <3>1, <3>2, <3>3 DEF RevertsOf
  <2>3. calls' = calls \o back
    BY <1>6 DEF back
  <2> QED BY <1>1, <2>2, <2>3
<1>7. CASE calls' = calls \o Reverts(Only(gone, {"Exits", "Observed"})) \o Reverts(Only(gone, {"Claim"}))
  <2> DEFINE one == Only(gone, {"Exits", "Observed"})
             two == Only(gone, {"Claim"})
             back == Reverts(one) \o Reverts(two)
  <2>1. Chosen(one, gone, size, {"Exits", "Observed"}) /\ Chosen(two, gone, size, {"Claim"})
    BY <1>3, OnlyChooses
  <2> HIDE DEF one, two
  <2>2. IsRow(one) /\ IsRow(two)
    BY <2>1 DEF Chosen
  <2>3. /\ IsRow(Reverts(one)) /\ Len(Reverts(one)) = Len(one) /\ Len(one) \in Nat
        /\ \A i \in 1..Len(one) : Reverts(one)[i] = Revert(one[i])
    BY <2>2, RevertsOfRow
  <2>4. /\ IsRow(Reverts(two)) /\ Len(Reverts(two)) = Len(two) /\ Len(two) \in Nat
        /\ \A i \in 1..Len(two) : Reverts(two)[i] = Revert(two[i])
    BY <2>2, RevertsOfRow
  <2>5. /\ IsRow(back)
        /\ Len(back) = Len(one) + Len(two)
        /\ \A i \in 1..Len(one) : back[i] = Revert(one[i])
        /\ \A i \in 1..Len(two) : back[Len(one) + i] = Revert(two[i])
    <3>1. /\ IsRow(back) /\ Len(back) = Len(Reverts(one)) + Len(Reverts(two))
          /\ \A i \in 1..Len(Reverts(one)) : back[i] = Reverts(one)[i]
          /\ \A i \in 1..Len(Reverts(two)) : back[Len(Reverts(one)) + i] = Reverts(two)[i]
      BY <2>3, <2>4, RowJoins
    <3> HIDE DEF back
    <3> QED BY <2>3, <2>4, <3>1
  <2>6. calls' = calls \o back
    <3>1. calls' = (calls \o Reverts(one)) \o Reverts(two)
      BY <1>7 DEF one, two
    <3>2. IsRow(calls) /\ IsRow(Reverts(one)) /\ IsRow(Reverts(two))
      BY <1>0, <2>3, <2>4
    <3> HIDE DEF back
    <3>3. Associates(calls, Reverts(one), Reverts(two))
      BY <3>2, RowAssoc
    <3> QED BY <3>1, <3>3 DEF Associates, back
  <2> HIDE DEF back
  <2>7. ASSUME NEW i \in 1..Len(back)
        PROVE  \E k \in (n + 1)..Len(l1) : back[i] = Revert(l1[k])
    <3>1. CASE i \in 1..Len(one)
      <4>1. PICK j \in 1..size : one[i] = gone[j]
        BY <2>1, <3>1 DEF Chosen
      <4> QED BY <1>5, <2>5, <3>1, <4>1
    <3>2. CASE ~(i \in 1..Len(one))
      <4>1. i - Len(one) \in 1..Len(two) /\ Len(one) + (i - Len(one)) = i
        BY <2>3, <2>4, <2>5, <3>2
      <4>2. PICK j \in 1..size : two[i - Len(one)] = gone[j]
        BY <2>1, <4>1 DEF Chosen
      <4>3. back[i] = Revert(two[i - Len(one)])
        BY <2>5, <4>1
      <4> QED BY <1>5, <4>2, <4>3
    <3> QED BY <3>1, <3>2
  <2>8. ASSUME NEW k \in (n + 1)..Len(l1)
        PROVE  \E i \in 1..Len(back) : back[i] = Revert(l1[k])
    <3>1. PICK j \in 1..size : gone[j] = l1[k]
      BY <1>4
    <3>2. gone[j].kind \in {"Exits", "Observed", "Claim"}
      <4>1. k \in 1..Len(l1)
        BY <1>0, <1>2
      <4> QED BY <3>1, <4>1 DEF CallsInv
    <3>3. CASE gone[j].kind \in {"Exits", "Observed"}
      <4>1. PICK i \in 1..Len(one) : one[i] = gone[j]
        BY <2>1, <3>3 DEF Chosen
      <4>2. i \in 1..Len(back)
        BY <2>3, <2>4, <2>5
      <4> QED BY <2>5, <3>1, <4>1, <4>2
    <3>4. CASE gone[j].kind \in {"Claim"}
      <4>1. PICK i \in 1..Len(two) : two[i] = gone[j]
        BY <2>1, <3>4 DEF Chosen
      <4>2. Len(one) + i \in 1..Len(back)
        BY <2>3, <2>4, <2>5
      <4> QED BY <2>5, <3>1, <4>1, <4>2
    <3> QED BY <3>2, <3>3, <3>4
  <2>9. back # <<>>
    <3>1. n + 1 \in (n + 1)..Len(l1)
      BY <1>0, <1>2
    <3>2. PICK i \in 1..Len(back) : back[i] = Revert(l1[n + 1])
      BY <2>8, <3>1
    <3>3. Len(<<>>) = 0
      OBVIOUS
    <3> QED BY <3>2, <3>3
  <2>10. RevertsOf(back, n)
    BY <2>5, <2>7, <2>8, <2>9 DEF RevertsOf
  <2> QED BY <1>1, <2>6, <2>10
<1> QED BY <1>1, <1>6, <1>7 DEF gone, cut

(* What a step does to the chain and to the reports.                          *)
LEMMA MineAppends ==
  ASSUME CallsInv, NEW e, Mine(e)
  PROVE  /\ IsRow(l1') /\ IsRow(calls') /\ Len(l1) \in Nat /\ Len(calls) \in Nat
         /\ Len(l1') = Len(l1) + 1 /\ Len(calls') = Len(calls) + 1
         /\ l1'[Len(l1) + 1] = e /\ calls'[Len(calls) + 1] = Apply(e)
         /\ \A i \in 1..Len(l1) : l1'[i] = l1[i]
         /\ \A i \in 1..Len(calls) : calls'[i] = calls[i]
<1>1. IsRow(l1) /\ l1' = Append(l1, e) /\ IsRow(calls) /\ calls' = Append(calls, Apply(e))
  BY DEF CallsInv, Mine
<1> QED BY <1>1, RowGrows

LEMMA CommitShifts ==
  ASSUME CallsInv, Commit
  PROVE  /\ calls # <<>> /\ IsRow(calls') /\ Len(calls) \in Nat \ {0}
         /\ Len(calls') = Len(calls) - 1
         /\ \A i \in 1..Len(calls') : calls'[i] = calls[i + 1]
<1>1. IsRow(calls) /\ calls # <<>> /\ calls' = Tail(calls)
  BY DEF CallsInv, Commit
<1> QED BY <1>1, RowShifts

(* The reports made again after a restart are of the newest transactions,     *)
(* and the reports still to come are among them.                              *)
LEMMA RestartReplays ==
  ASSUME CallsInv, Restart, calls' # calls
  PROVE  \E n \in 0..(Len(l1) - Len(calls)) :
           /\ AllApply(calls, 0) /\ Len(calls) <= Len(l1)
           /\ IsRow(calls') /\ Len(calls') = Len(l1) - n /\ Len(calls') \in Nat
           /\ Len(calls') >= Len(calls)
           /\ \A i \in 1..Len(calls') : calls'[i] = Apply(l1[n + i])
           /\ \A i \in 1..Len(calls) : calls[i] = calls'[Len(calls') - Len(calls) + i]
<1>0. Len(l1) \in Nat /\ Len(calls) \in Nat
  BY RowOf DEF CallsInv, IsRow
<1>1. AllApply(calls, 0)
  BY DEF Restart, AllApply
<1>2. PICK n \in 0..(Len(l1) - Len(calls)) : calls' = [i \in 1..(Len(l1) - n) |-> Apply(l1[n + i])]
  BY DEF Restart
<1>3. /\ Len(calls) <= Len(l1)
      /\ \A i \in 1..Len(calls) : calls[i] = Apply(l1[Len(l1) - Len(calls) + i])
  <2>1. 0 \in 0..Len(calls)
    BY <1>0
  <2> QED BY <1>0, <1>1, <2>1 DEF CallsInv
<1>4. Len(l1) - n \in Nat /\ n \in Nat
  BY <1>0, <1>2, <1>3
<1>5. IsRow(calls') /\ Len(calls') = Len(l1) - n
  <2>1. calls' = [i \in 1..(Len(l1) - n) |-> calls'[i]]
    BY <1>2
  <2> QED BY <1>4, <2>1, RowIsMade
<1>6. ASSUME NEW i \in 1..Len(calls)
      PROVE  calls[i] = calls'[Len(calls') - Len(calls) + i]
  <2>1. Len(calls') - Len(calls) + i \in 1..(Len(l1) - n)
    BY <1>0, <1>2, <1>3, <1>4, <1>5
  <2>2. n + (Len(calls') - Len(calls) + i) = Len(l1) - Len(calls) + i
    BY <1>0, <1>4, <1>5
  <2>3. calls'[Len(calls') - Len(calls) + i] = Apply(l1[n + (Len(calls') - Len(calls) + i)])
    BY <1>2, <2>1
  <2> QED BY <1>3, <2>2, <2>3
<1>7. \A i \in 1..Len(calls') : calls'[i] = Apply(l1[n + i])
  BY <1>2, <1>5
<1>8. Len(calls') >= Len(calls)
  BY <1>0, <1>2, <1>4, <1>5
<1> QED BY <1>1, <1>3, <1>4, <1>5, <1>6, <1>7, <1>8

LEMMA CallsInit == Init => CallsInv
<1> SUFFICES ASSUME Init PROVE CallsInv
  OBVIOUS
<1>1. IsRow(<<>>) /\ Len(<<>>) = 0
  <2>1. <<>> \in Seq({})
    OBVIOUS
  <2> QED BY <2>1, RowOf
<1>2. l1 = <<>> /\ calls = <<>> /\ reorgs = 0 /\ batch.open = FALSE
  BY DEF Init, NoBatch
<1>3. AllApply(calls, 0)
  BY <1>1, <1>2 DEF AllApply
<1>4. \A p \in 0..Len(calls) :
        Len(calls) - p <= Len(l1) /\ \A i \in (p + 1)..Len(calls) : FALSE
  BY <1>1, <1>2
<1>5. \A i \in 1..Len(l1) : FALSE
  BY <1>1, <1>2
<1>6. \A i \in 1..Len(calls) : FALSE
  BY <1>1, <1>2
<1> QED BY <1>1, <1>2, <1>3, <1>4, <1>5, <1>6 DEF CallsInv

LEMMA CallsMine ==
  ASSUME CallsInv, NEW e, Mine(e), e.kind \in {"Exits", "Observed", "Claim"}
  PROVE  CallsInv'
<1>1. /\ IsRow(l1') /\ IsRow(calls') /\ Len(l1) \in Nat /\ Len(calls) \in Nat
      /\ Len(l1') = Len(l1) + 1 /\ Len(calls') = Len(calls) + 1
      /\ l1'[Len(l1) + 1] = e /\ calls'[Len(calls) + 1] = Apply(e)
      /\ \A i \in 1..Len(l1) : l1'[i] = l1[i]
      /\ \A i \in 1..Len(calls) : calls'[i] = calls[i]
  BY MineAppends
<1>2. UNCHANGED <<reorgs, batch>>
  BY DEF Mine
<1>3. \A i \in 1..Len(l1') : l1'[i].kind \in {"Exits", "Observed", "Claim"}
  BY <1>1 DEF CallsInv
<1>4. \A i \in 1..Len(calls') : calls'[i].hook \in {"apply", "revert"}
  <2> TAKE i \in 1..Len(calls')
  <2>1. CASE i \in 1..Len(calls)
    BY <1>1, <2>1 DEF CallsInv
  <2>2. CASE i = Len(calls) + 1
    BY <1>1, <2>2 DEF Apply
  <2> QED BY <1>1, <2>1, <2>2
<1>5. ASSUME NEW p \in 0..Len(calls'), AllApply(calls', p)
      PROVE  /\ Len(calls') - p <= Len(l1')
             /\ \A i \in (p + 1)..Len(calls') :
                  calls'[i] = Apply(l1'[Len(l1') - Len(calls') + i])
  <2>1. CASE p \in 0..Len(calls)
    <3>1. AllApply(calls, p)
      BY <1>1, <1>5, <2>1 DEF AllApply
    <3>2. /\ Len(calls) - p <= Len(l1)
          /\ \A i \in (p + 1)..Len(calls) : calls[i] = Apply(l1[Len(l1) - Len(calls) + i])
      BY <2>1, <3>1 DEF CallsInv
    <3>3. ASSUME NEW i \in (p + 1)..Len(calls')
          PROVE  calls'[i] = Apply(l1'[Len(l1') - Len(calls') + i])
      <4>1. CASE i = Len(calls) + 1
        <5>1. Len(l1') - Len(calls') + i = Len(l1) + 1
          BY <1>1, <4>1
        <5> QED BY <1>1, <4>1, <5>1
      <4>2. CASE i \in (p + 1)..Len(calls)
        <5>1. /\ Len(l1') - Len(calls') + i = Len(l1) - Len(calls) + i
              /\ Len(l1) - Len(calls) + i \in 1..Len(l1)
              /\ i \in 1..Len(calls)
          BY <1>1, <2>1, <3>2, <4>2
        <5>2. /\ calls'[i] = calls[i]
              /\ l1'[Len(l1) - Len(calls) + i] = l1[Len(l1) - Len(calls) + i]
          BY <1>1, <5>1
        <5> QED BY <3>2, <4>2, <5>1, <5>2
      <4> QED BY <1>1, <2>1, <4>1, <4>2
    <3> QED BY <1>1, <2>1, <3>2, <3>3
  <2>2. CASE p = Len(calls) + 1
    BY <1>1, <2>2
  <2> QED BY <1>1, <2>1, <2>2
<1>6. reorgs' = 0 => AllApply(calls', 0)
  <2> SUFFICES ASSUME reorgs = 0, NEW i \in 1..Len(calls') PROVE calls'[i].hook = "apply"
    BY <1>2 DEF AllApply
  <2>1. CASE i \in 1..Len(calls)
    BY <1>1, <2>1 DEF CallsInv, AllApply
  <2>2. CASE i = Len(calls) + 1
    BY <1>1, <2>2 DEF Apply
  <2> QED BY <1>1, <2>1, <2>2
<1>7. batch'.open => calls' # <<>>
  <2>1. calls' # <<>>
    BY <1>1
  <2> QED BY <2>1
<1>8. batch'.open \in BOOLEAN /\ reorgs' \in Nat
  BY <1>2 DEF CallsInv
<1> QED BY <1>1, <1>3, <1>4, <1>5, <1>6, <1>7, <1>8 DEF CallsInv

LEMMA ReorgRewinds ==
  ASSUME CallsInv, Reorg
  PROVE  \E n, back :
           /\ n \in Nat /\ Len(l1) \in Nat /\ Len(calls) \in Nat /\ n < Len(l1)
           /\ IsRow(l1') /\ Len(l1') = n
           /\ \A i \in 1..n : l1'[i] = l1[i]
           /\ IsRow(calls') /\ Len(back) \in Nat \ {0}
           /\ Len(calls') = Len(calls) + Len(back)
           /\ \A i \in 1..Len(calls) : calls'[i] = calls[i]
           /\ \A i \in 1..Len(back) : calls'[Len(calls) + i] = back[i]
           /\ RevertsOf(back, n)
<1>0. IsRow(l1) /\ IsRow(calls) /\ Len(l1) \in Nat /\ Len(calls) \in Nat
  BY RowOf DEF CallsInv, IsRow
<1>5. PICK n \in 0..(Len(l1) - 1) : \E back :
        l1' = SubSeq(l1, 1, n) /\ calls' = calls \o back /\ RevertsOf(back, n)
  BY ReorgReverts
<1>1. PICK back : l1' = SubSeq(l1, 1, n) /\ calls' = calls \o back /\ RevertsOf(back, n)
  BY <1>5
<1>2. n \in Nat /\ n < Len(l1)
  BY <1>0
<1>3. /\ IsRow(l1') /\ Len(l1') = n
      /\ \A i \in 1..n : l1'[i] = l1[i]
  <2> DEFINE cut == SubSeq(l1, 0 + 1, n)
  <2>1. IsRow(cut) /\ Len(cut) = n - 0 /\ \A i \in 1..(n - 0) : cut[i] = l1[0 + i]
    <3>1. 0 \in Nat /\ n \in Nat /\ 0 <= n /\ n <= Len(l1)
      BY <1>0, <1>2
    <3> QED BY <1>0, <3>1, RowIsCut
  <2>2. l1' = cut
    BY <1>1
  <2> HIDE DEF cut
  <2> QED BY <1>2, <2>1, <2>2
<1>4. /\ IsRow(calls') /\ Len(back) \in Nat \ {0}
      /\ Len(calls') = Len(calls) + Len(back)
      /\ \A i \in 1..Len(calls) : calls'[i] = calls[i]
      /\ \A i \in 1..Len(back) : calls'[Len(calls) + i] = back[i]
  <2>1. IsRow(back) /\ back # <<>>
    BY <1>1 DEF RevertsOf
  <2>2. /\ IsRow(calls \o back) /\ Len(calls) \in Nat /\ Len(back) \in Nat
        /\ Len(calls \o back) = Len(calls) + Len(back)
        /\ \A i \in 1..Len(calls) : (calls \o back)[i] = calls[i]
        /\ \A i \in 1..Len(back) : (calls \o back)[Len(calls) + i] = back[i]
    BY <1>0, <2>1, RowJoins
  <2>3. Len(back) # 0
    <3>1. back \in Seq(Elements(back))
      BY <2>1 DEF IsRow
    <3> QED BY <2>1, <3>1
  <2> QED BY <1>1, <2>2, <2>3
<1> QED BY <1>0, <1>1, <1>2, <1>3, <1>4

LEMMA CallsReorg ==
  ASSUME CallsInv, Reorg
  PROVE  CallsInv' /\ reorgs' # 0
<1>0. PICK n, back :
        /\ n \in Nat /\ Len(l1) \in Nat /\ Len(calls) \in Nat /\ n < Len(l1)
        /\ IsRow(l1') /\ Len(l1') = n
        /\ \A i \in 1..n : l1'[i] = l1[i]
        /\ IsRow(calls') /\ Len(back) \in Nat \ {0}
        /\ Len(calls') = Len(calls) + Len(back)
        /\ \A i \in 1..Len(calls) : calls'[i] = calls[i]
        /\ \A i \in 1..Len(back) : calls'[Len(calls) + i] = back[i]
        /\ RevertsOf(back, n)
  BY ReorgRewinds
<1>4. \A i \in 1..Len(back) : back[i].hook = "revert"
  <2> TAKE i \in 1..Len(back)
  <2>1. PICK k \in (n + 1)..Len(l1) : back[i] = Revert(l1[k])
    BY <1>0 DEF RevertsOf
  <2> QED BY <2>1 DEF Revert
<1>5. \A i \in 1..Len(calls') : calls'[i].hook \in {"apply", "revert"}
  <2> TAKE i \in 1..Len(calls')
  <2>1. CASE i \in 1..Len(calls)
    BY <1>0, <2>1 DEF CallsInv
  <2>2. CASE ~(i \in 1..Len(calls))
    <3>1. i - Len(calls) \in 1..Len(back) /\ Len(calls) + (i - Len(calls)) = i
      BY <1>0, <2>2
    <3>2. calls'[i] = back[i - Len(calls)]
      BY <1>0, <3>1
    <3> QED BY <1>4, <3>1, <3>2
  <2> QED BY <2>1, <2>2
<1>6. ASSUME NEW p \in 0..Len(calls'), AllApply(calls', p)
      PROVE  p = Len(calls')
  <2>1. calls'[Len(calls')].hook = "revert"
    <3>1. Len(back) \in 1..Len(back) /\ calls'[Len(calls')] = calls'[Len(calls) + Len(back)]
      BY <1>0
    <3>2. calls'[Len(calls) + Len(back)] = back[Len(back)]
      BY <1>0, <3>1
    <3> QED BY <1>4, <3>1, <3>2
  <2>2. p # Len(calls') => Len(calls') \in (p + 1)..Len(calls')
    <3>1. Len(calls') \in Nat
      BY <1>0
    <3> QED BY <3>1
  <2> QED BY <1>6, <2>1, <2>2 DEF AllApply
<1>7. ASSUME NEW p \in 0..Len(calls'), AllApply(calls', p)
      PROVE  /\ Len(calls') - p <= Len(l1')
             /\ \A i \in (p + 1)..Len(calls') :
                  calls'[i] = Apply(l1'[Len(l1') - Len(calls') + i])
  <2>1. p = Len(calls') /\ Len(calls') \in Nat /\ Len(l1') \in Nat
    BY <1>0, <1>6, <1>7
  <2> QED BY <2>1
<1>8. reorgs' # 0 /\ reorgs' \in Nat
  BY DEF Reorg, CallsInv
<1>9. calls' # <<>>
  BY <1>0
<1>10. batch'.open \in BOOLEAN
  BY DEF Reorg, CallsInv
<1>11. \A i \in 1..Len(l1') : l1'[i].kind \in {"Exits", "Observed", "Claim"}
  <2> TAKE i \in 1..Len(l1')
  <2>1. i \in 1..n /\ i \in 1..Len(l1)
    BY <1>0
  <2> QED BY <1>0, <2>1 DEF CallsInv
<1> QED BY <1>0, <1>5, <1>7, <1>8, <1>9, <1>10, <1>11 DEF CallsInv

LEMMA CallsCommit ==
  ASSUME CallsInv, Commit
  PROVE  CallsInv'
<1>1. /\ calls # <<>> /\ IsRow(calls') /\ Len(calls) \in Nat \ {0}
      /\ Len(calls') = Len(calls) - 1
      /\ \A i \in 1..Len(calls') : calls'[i] = calls[i + 1]
  BY CommitShifts
<1>2. l1' = l1 /\ reorgs' = reorgs /\ batch'.open = FALSE
  BY DEF Commit, l1Vars, NoBatch
<1>3. Len(l1) \in Nat
  BY RowOf DEF CallsInv, IsRow
<1>4. ASSUME NEW p \in 0..Len(calls'), AllApply(calls', p)
      PROVE  AllApply(calls, p + 1) /\ p + 1 \in 0..Len(calls)
  <2>1. ASSUME NEW i \in (p + 1 + 1)..Len(calls) PROVE calls[i].hook = "apply"
    <3>1. i - 1 \in (p + 1)..Len(calls') /\ i - 1 \in 1..Len(calls') /\ (i - 1) + 1 = i
      BY <1>1
    <3>2. calls'[i - 1] = calls[i]
      BY <1>1, <3>1
    <3> QED BY <1>4, <3>1, <3>2 DEF AllApply
  <2> QED BY <1>1, <2>1 DEF AllApply
<1>5. ASSUME NEW p \in 0..Len(calls'), AllApply(calls', p)
      PROVE  /\ Len(calls') - p <= Len(l1)
             /\ \A i \in (p + 1)..Len(calls') :
                  calls'[i] = Apply(l1[Len(l1) - Len(calls') + i])
  <2>1. /\ Len(calls) - (p + 1) <= Len(l1)
        /\ \A i \in (p + 1 + 1)..Len(calls) : calls[i] = Apply(l1[Len(l1) - Len(calls) + i])
    BY <1>4, <1>5 DEF CallsInv
  <2>2. ASSUME NEW i \in (p + 1)..Len(calls')
        PROVE  calls'[i] = Apply(l1[Len(l1) - Len(calls') + i])
    <3>1. /\ i + 1 \in (p + 1 + 1)..Len(calls) /\ i \in 1..Len(calls')
          /\ Len(l1) - Len(calls) + (i + 1) = Len(l1) - Len(calls') + i
      BY <1>1, <1>3
    <3> QED BY <1>1, <2>1, <3>1
  <2> QED BY <1>1, <1>3, <2>1, <2>2
<1>6. \A i \in 1..Len(calls') : calls'[i].hook \in {"apply", "revert"}
  <2> TAKE i \in 1..Len(calls')
  <2>1. i + 1 \in 1..Len(calls)
    BY <1>1
  <2> QED BY <1>1, <2>1 DEF CallsInv
<1>7. reorgs = 0 => AllApply(calls', 0)
  <2> SUFFICES ASSUME reorgs = 0, NEW i \in 1..Len(calls') PROVE calls'[i].hook = "apply"
    BY DEF AllApply
  <2>1. AllApply(calls, 0)
    BY DEF CallsInv
  <2>2. i + 1 \in (0 + 1)..Len(calls) /\ calls'[i] = calls[i + 1]
    BY <1>1
  <2> QED BY <2>1, <2>2 DEF AllApply
<1> QED BY <1>1, <1>2, <1>5, <1>6, <1>7 DEF CallsInv

LEMMA CallsRestart ==
  ASSUME CallsInv, Restart
  PROVE  CallsInv'
<1>1. UNCHANGED <<l1, reorgs>> /\ batch'.open = FALSE
  BY DEF Restart, NoBatch, l1Vars
<1>2. CASE calls' = calls
  BY <1>1, <1>2 DEF CallsInv
<1>3. CASE calls' # calls
  <2>1. PICK n \in 0..(Len(l1) - Len(calls)) :
           /\ AllApply(calls, 0) /\ Len(calls) <= Len(l1)
           /\ IsRow(calls') /\ Len(calls') = Len(l1) - n /\ Len(calls') \in Nat
           /\ Len(calls') >= Len(calls)
           /\ \A i \in 1..Len(calls') : calls'[i] = Apply(l1[n + i])
           /\ \A i \in 1..Len(calls) : calls[i] = calls'[Len(calls') - Len(calls) + i]
    BY <1>3, RestartReplays
  <2>2. Len(l1) \in Nat /\ n \in Nat
    <3>1. Len(l1) \in Nat /\ Len(calls) \in Nat
      BY RowOf DEF CallsInv, IsRow
    <3> QED BY <2>1, <3>1
  <2>3. \A i \in 1..Len(calls') : calls'[i].hook = "apply"
    <3> TAKE i \in 1..Len(calls')
    <3>1. calls'[i] = Apply(l1[n + i])
      BY <2>1
    <3> QED BY <3>1 DEF Apply
  <2>4. ASSUME NEW p \in 0..Len(calls')
        PROVE  /\ Len(calls') - p <= Len(l1)
               /\ \A i \in (p + 1)..Len(calls') :
                    calls'[i] = Apply(l1[Len(l1) - Len(calls') + i])
    <3>1. \A i \in (p + 1)..Len(calls') : i \in 1..Len(calls') /\ n + i = Len(l1) - Len(calls') + i
      BY <2>1, <2>2
    <3>2. Len(calls') - p <= Len(l1)
      BY <2>1, <2>2
    <3> QED BY <2>1, <3>1, <3>2
  <2>5. AllApply(calls', 0)
    BY <2>3 DEF AllApply
  <2> QED BY <1>1, <2>1, <2>3, <2>4, <2>5 DEF CallsInv
<1> QED BY <1>2, <1>3

LEMMA CallsNext ==
  ASSUME CallsInv, [Next]_vars
  PROVE  CallsInv'
<1>1. CASE UNCHANGED vars
  BY <1>1 DEF vars, CallsInv, AllApply
<1>2. CASE \E e : Mine(e) /\ e.kind \in {"Exits", "Observed", "Claim"}
  BY <1>2, CallsMine
<1>3. CASE Reorg
  BY <1>3, CallsReorg
<1>4. CASE Hook
  <2>1. UNCHANGED <<l1, calls, reorgs>> /\ calls # <<>> /\ batch'.open = TRUE
    <3>1. UNCHANGED <<l1, calls, reorgs>> /\ calls # <<>>
      BY <1>4 DEF Hook, l1Vars
    <3>2. \E r, m, l : Write(r, m, l)
      BY <1>4 DEF Hook, OnExitsCommitted, OnExitsRecommitted, OnSettlementObserved,
                  OnPermissionSpent, OnExitsReverted, OnPermissionSpendReverted
    <3> QED BY <3>1, <3>2 DEF Write
  <2> QED BY <2>1 DEF CallsInv, AllApply
<1>5. CASE Commit
  BY <1>5, CallsCommit
<1>6. CASE Reseed
  BY <1>6 DEF Reseed, l1Vars, CallsInv, AllApply
<1>7. CASE Restart
  BY <1>7, CallsRestart
<1>8. Next => \/ \E e : Mine(e) /\ e.kind \in {"Exits", "Observed", "Claim"}
              \/ Reorg \/ Hook \/ Commit \/ Reseed \/ Restart
  <2>1. ASSUME NEW f, SettleExits(f) PROVE \E e : Mine(e) /\ e.kind \in {"Exits", "Observed", "Claim"}
    BY <2>1 DEF SettleExits
  <2>2. ASSUME NEW root, SettleObserved(root)
        PROVE  \E e : Mine(e) /\ e.kind \in {"Exits", "Observed", "Claim"}
    BY <2>2 DEF SettleObserved
  <2>3. ASSUME NEW f, NEW leaf, Claim(f, leaf)
        PROVE  \E e : Mine(e) /\ e.kind \in {"Exits", "Observed", "Claim"}
    BY <2>3 DEF Claim
  <2> QED BY <2>1, <2>2, <2>3 DEF Next
<1> QED BY <1>1, <1>2, <1>3, <1>4, <1>5, <1>6, <1>7, <1>8

---------------------------------------------------------------------------
(* The carried root *)

LEMMA NewestExits ==
  ASSUME NEW s, Len(s) \in Nat, ExitsOf(s) # {}
  PROVE  \E i \in ExitsOf(s) : \A j \in ExitsOf(s) : j <= i
<1> DEFINE Behind == { Len(s) - i : i \in ExitsOf(s) }
<1>1. ExitsOf(s) \subseteq 1..Len(s)
  BY DEF ExitsOf
<1>2. Behind \subseteq Nat /\ Behind # {}
  BY <1>1
<1>3. PICK n \in Behind : \A m \in Behind : n <= m
  <2> HIDE DEF Behind
  <2> QED BY <1>2, LeastNat
<1>4. PICK i \in ExitsOf(s) : n = Len(s) - i
  BY <1>3
<1>5. ASSUME NEW j \in ExitsOf(s) PROVE j <= i
  <2>1. n <= Len(s) - j
    BY <1>3
  <2> QED BY <1>1, <1>4, <2>1
<1> QED BY <1>5

LEMMA LastRootIs ==
  ASSUME NEW s, Len(s) \in Nat, NEW i \in ExitsOf(s), \A j \in ExitsOf(s) : j <= i
  PROVE  LastRoot(s) = Commitment(s[i])
<1> DEFINE c == CHOOSE k \in ExitsOf(s) : \A j \in ExitsOf(s) : j <= k
<1>1. c \in ExitsOf(s) /\ \A j \in ExitsOf(s) : j <= c
  OBVIOUS
<1>2. i <= c /\ c <= i
  BY <1>1
<1>3. i \in Nat /\ c \in Nat
  BY <1>1 DEF ExitsOf
<1>4. c = i
  <2> HIDE DEF c
  <2> QED BY <1>2, <1>3
<1>5. LastRoot(s) = Commitment(s[c])
  BY DEF LastRoot
<1> QED BY <1>4, <1>5

LEMMA LastRootStays ==
  ASSUME NEW s, NEW t, Len(s) \in Nat, Len(t) = Len(s) + 1,
         \A i \in 1..Len(s) : t[i] = s[i], ~EmitsExits(t[Len(s) + 1])
  PROVE  LastRoot(t) = LastRoot(s)
<1>1. \A i \in 1..Len(t) : i \in 1..Len(s) \/ i = Len(s) + 1
  OBVIOUS
<1>2. \A i \in 1..Len(s) : i \in 1..Len(t)
  OBVIOUS
<1>3. ExitsOf(t) = ExitsOf(s)
  BY <1>1, <1>2 DEF ExitsOf
<1>4. CASE ExitsOf(s) = {}
  BY <1>3, <1>4 DEF LastRoot
<1>5. CASE ExitsOf(s) # {}
  <2>1. PICK i \in ExitsOf(s) : \A j \in ExitsOf(s) : j <= i
    BY <1>5, NewestExits
  <2>2. LastRoot(s) = Commitment(s[i])
    BY <2>1, LastRootIs
  <2>3. LastRoot(t) = Commitment(t[i])
    <3>1. Len(t) \in Nat
      OBVIOUS
    <3> QED BY <1>3, <2>1, <3>1, LastRootIs
  <2>4. t[i] = s[i]
    BY DEF ExitsOf
  <2> QED BY <2>2, <2>3, <2>4
<1> QED BY <1>4, <1>5

(* A new transaction and its report leave the row as current as it was.       *)
LEMMA RowOutlivesMine ==
  ASSUME CallsInv, NEW e, Mine(e), NEW row, NEW done \in 0..Len(l1), RowIsCurrent(l1, row, done)
  PROVE  RowIsCurrent(l1', row, done)
<1>1. /\ Len(l1) \in Nat /\ Len(l1') = Len(l1) + 1
      /\ l1'[Len(l1) + 1] = e
      /\ \A i \in 1..Len(l1) : l1'[i] = l1[i]
  BY MineAppends
<1>2. ASSUME \A i \in (done + 1)..Len(l1') : ~EmitsExits(l1'[i])
      PROVE  row.permission_root = LastRoot(l1')
  <2>1. Len(l1) + 1 \in (done + 1)..Len(l1')
    BY <1>1
  <2>2. LastRoot(l1') = LastRoot(l1)
    BY <1>1, <1>2, <2>1, LastRootStays
  <2>3. ASSUME NEW i \in (done + 1)..Len(l1) PROVE ~EmitsExits(l1[i])
    <3>1. i \in (done + 1)..Len(l1') /\ i \in 1..Len(l1)
      BY <1>1
    <3> QED BY <1>1, <1>2, <3>1
  <2> QED BY <2>2, <2>3 DEF RowIsCurrent
<1>3. done # Len(l1')
  BY <1>1
<1> QED BY <1>2, <1>3 DEF RowIsCurrent

(* A row that is current further along the chain is current from here.        *)
LEMMA RowIsCurrentEarlier ==
  ASSUME Len(l1) \in Nat, NEW row, NEW done \in 0..Len(l1), NEW less \in 0..done,
         RowIsCurrent(l1, row, done)
  PROVE  RowIsCurrent(l1, row, less)
<1>1. \A i \in (done + 1)..Len(l1) : i \in (less + 1)..Len(l1)
  OBVIOUS
<1>2. less = Len(l1) => done = Len(l1)
  OBVIOUS
<1> QED BY <1>1, <1>2 DEF RowIsCurrent

(* A hook makes the row current with the transaction it is about: an          *)
(* observed settlement brings its own commitment or, without exits, carries   *)
(* the last one forward (on_settlement_observed).                             *)
LEMMA HookKeepsRow ==
  ASSUME CallsInv, AheadInv, MirrorInv, SeedFirst, reorgs = 0, Hook
  PROVE  /\ Len(l1) - Len(calls) + 1 \in 1..Len(l1)
         /\ RowIsCurrent(l1, batch'.latest, Len(l1) - Len(calls) + 1)
<1> DEFINE done == Len(l1) - Len(calls)
           e == Head(calls).tx
           row == batch'.latest
<1>1. /\ Len(l1) \in Nat /\ Len(calls) \in Nat \ {0} /\ Head(calls) = calls[1]
  BY RowOf, RowShifts DEF CallsInv, IsRow, Hook
<1>2. AllApply(calls, 0) /\ 0 \in 0..Len(calls)
  BY <1>1 DEF CallsInv
<1>3. done + 1 \in 1..Len(l1) /\ calls[1] = Apply(l1[done + 1])
  <2>1. /\ Len(calls) - 0 <= Len(l1)
        /\ \A i \in (0 + 1)..Len(calls) : calls[i] = Apply(l1[Len(l1) - Len(calls) + i])
    BY <1>2 DEF CallsInv
  <2> QED BY <1>1, <2>1
<1>4. Head(calls).hook = "apply" /\ e = l1[done + 1]
  BY <1>1, <1>3 DEF Apply
<1>5. store.latest = latest
  BY DEF Hook, MirrorInv, MirrorIsStore
<1>6. RowIsCurrent(l1, latest, done)
  BY <1>5 DEF AheadInv
<1>7. \/ e.kind = "Exits" /\ OnExitsCommitted(e)
      \/ e.kind = "Observed" /\ OnSettlementObserved(e)
      \/ e.kind = "Claim" /\ OnPermissionSpent(e)
  BY <1>4 DEF Hook, OnExitsRecommitted
<1>8. ASSUME EmitsExits(e), \A i \in (done + 1 + 1)..Len(l1) : ~EmitsExits(l1[i])
       PROVE  LastRoot(l1) = Commitment(e)
  <2>1. done + 1 \in ExitsOf(l1)
    BY <1>3, <1>4, <1>8 DEF ExitsOf
  <2>2. ASSUME NEW j \in ExitsOf(l1) PROVE j <= done + 1
    <3>1. j \in 1..Len(l1) /\ EmitsExits(l1[j])
      BY DEF ExitsOf
    <3>2. ~(j \in (done + 1 + 1)..Len(l1))
      BY <1>8, <3>1
    <3> QED BY <1>1, <1>3, <3>1, <3>2
  <2> QED BY <1>1, <1>4, <2>1, <2>2, LastRootIs
<1>9. ASSUME ~EmitsExits(e), \A i \in (done + 1 + 1)..Len(l1) : ~EmitsExits(l1[i])
       PROVE  latest.permission_root = LastRoot(l1)
  <2>1. \A i \in (done + 1)..Len(l1) : i = done + 1 \/ i \in (done + 1 + 1)..Len(l1)
    BY <1>1, <1>3
  <2>2. \A i \in (done + 1)..Len(l1) : ~EmitsExits(l1[i])
    BY <1>4, <1>9, <2>1
  <2> QED BY <1>6, <2>2 DEF RowIsCurrent
<1>10. ASSUME e.kind = "Exits", OnExitsCommitted(e) PROVE RowIsCurrent(l1, row, done + 1)
  <2>1. row = [permission_root |-> e.family, txid |-> e.tx]
    BY <1>10 DEF OnExitsCommitted, Write
  <2>2. ASSUME \A i \in (done + 1 + 1)..Len(l1) : ~EmitsExits(l1[i])
        PROVE  LastRoot(l1) = e.family
    <3>1. EmitsExits(e) /\ Commitment(e) = e.family
      BY <1>10 DEF EmitsExits, Commitment
    <3> QED BY <2>2, <3>1, <1>8
  <2>3. done + 1 = Len(l1) => l1[Len(l1)].kind # "Observed"
    BY <1>4, <1>10
  <2> HIDE DEF row, e, done
  <2> QED BY <2>1, <2>2, <2>3 DEF RowIsCurrent
<1>11. ASSUME e.kind = "Observed", OnSettlementObserved(e) PROVE RowIsCurrent(l1, row, done + 1)
  <2>1. row = [permission_root |-> ObservedRoot(e), txid |-> e.tx]
    BY <1>11 DEF OnSettlementObserved, Write
  <2>2. ASSUME \A i \in (done + 1 + 1)..Len(l1) : ~EmitsExits(l1[i])
        PROVE  ObservedRoot(e) = LastRoot(l1)
    <3>1. CASE e.permission_spk_hash = NoRoot
      <4>1. ~EmitsExits(e) /\ ObservedRoot(e) = latest.permission_root
        BY <1>11, <3>1 DEF EmitsExits, ObservedRoot
      <4> QED BY <2>2, <4>1, <1>9
    <3>2. CASE e.permission_spk_hash # NoRoot
      <4>1. EmitsExits(e) /\ ObservedRoot(e) = Commitment(e)
        BY <1>11, <3>2 DEF EmitsExits, ObservedRoot, Commitment
      <4> QED BY <2>2, <4>1, <1>8
    <3> QED BY <3>1, <3>2
  <2>3. done + 1 = Len(l1) => row.txid = l1[Len(l1)].tx
    BY <1>4, <2>1
  <2> HIDE DEF row, e, done
  <2> QED BY <2>1, <2>2, <2>3 DEF RowIsCurrent
<1>12. ASSUME e.kind = "Claim", OnPermissionSpent(e) PROVE RowIsCurrent(l1, row, done + 1)
  <2>1. row = latest
    BY <1>5, <1>12 DEF OnPermissionSpent, Write
  <2>2. ASSUME \A i \in (done + 1 + 1)..Len(l1) : ~EmitsExits(l1[i])
        PROVE  latest.permission_root = LastRoot(l1)
    <3>1. ~EmitsExits(e)
      BY <1>12 DEF EmitsExits
    <3> QED BY <2>2, <3>1, <1>9
  <2>3. done + 1 = Len(l1) => l1[Len(l1)].kind # "Observed"
    BY <1>4, <1>12
  <2> HIDE DEF row, e, done
  <2> QED BY <1>6, <2>1, <2>2, <2>3 DEF RowIsCurrent
<1> QED BY <1>3, <1>7, <1>10, <1>11, <1>12

LEMMA AheadInit == Init => AheadInv
<1> SUFFICES ASSUME Init PROVE AheadInv
  OBVIOUS
<1>1. /\ l1 = <<>> /\ calls = <<>> /\ batch.open = FALSE
      /\ store.latest = [permission_root |-> NoRoot, txid |-> 0]
  BY DEF Init, NoBatch, NoRow
<1>2. ExitsOf(l1) = {} /\ Len(l1) = 0 /\ Len(calls) = 0
  BY <1>1 DEF ExitsOf
<1> QED BY <1>1, <1>2 DEF AheadInv, RowIsCurrent, LastRoot

LEMMA AheadNext ==
  ASSUME CallsInv, AheadInv, MirrorInv, SeedFirst, [Next]_vars
  PROVE  AheadInv'
<1> DEFINE done == Len(l1) - Len(calls)
<1>0. SUFFICES ASSUME reorgs' = 0 PROVE AheadInv'
  BY DEF AheadInv
<1>1. /\ IsRow(l1) /\ IsRow(calls) /\ Len(l1) \in Nat /\ Len(calls) \in Nat
  BY RowOf DEF CallsInv, IsRow
<1>2. ASSUME UNCHANGED <<l1, calls, reorgs, batch, store>> PROVE AheadInv'
  BY <1>2 DEF AheadInv, RowIsCurrent
<1>3. ASSUME reorgs = 0
      PROVE  /\ Len(calls) <= Len(l1)
             /\ RowIsCurrent(l1, store.latest, done)
             /\ batch.open => /\ Len(calls) > 0 /\ done + 1 \in 0..Len(l1)
                              /\ RowIsCurrent(l1, batch.latest, done + 1)
  <2>1. AllApply(calls, 0) /\ 0 \in 0..Len(calls)
    BY <1>1, <1>3 DEF CallsInv
  <2>2. Len(calls) - 0 <= Len(l1)
    BY <2>1 DEF CallsInv
  <2>3. batch.open => Len(calls) > 0
    <3>1. calls # <<>> => Len(calls) # 0
      BY <1>1 DEF IsRow
    <3> QED BY <1>1, <3>1 DEF CallsInv
  <2> QED BY <1>1, <1>3, <2>2, <2>3 DEF AheadInv
<1>4. ASSUME NEW e, Mine(e) PROVE AheadInv'
  <2>1. reorgs = 0 /\ UNCHANGED <<store, batch>>
    BY <1>0, <1>4 DEF Mine
  <2>2. Len(l1') = Len(l1) + 1 /\ Len(calls') = Len(calls) + 1
    BY <1>4, MineAppends
  <2>3. Len(l1') - Len(calls') = done
    BY <1>1, <2>2
  <2>4. done \in 0..Len(l1)
    BY <1>1, <1>3, <2>1
  <2> HIDE DEF done
  <2>5. RowIsCurrent(l1', store.latest, done)
    BY <1>3, <1>4, <2>1, <2>4, RowOutlivesMine
  <2>6. batch.open => RowIsCurrent(l1', batch.latest, done + 1)
    BY <1>3, <1>4, <2>1, RowOutlivesMine
  <2>7. store' = store /\ batch' = batch
    BY <2>1
  <2> QED BY <2>3, <2>5, <2>6, <2>7 DEF AheadInv
<1>5. CASE Reorg
  BY <1>0, <1>5, CallsReorg
<1>6. CASE Hook
  <2>1. reorgs = 0 /\ UNCHANGED <<l1, calls, store>>
    BY <1>0, <1>6 DEF Hook, l1Vars
  <2>2. RowIsCurrent(l1, batch'.latest, done + 1)
    BY <1>6, <2>1, HookKeepsRow
  <2>3. RowIsCurrent(l1, store.latest, done)
    BY <1>3, <2>1
  <2> QED BY <2>1, <2>2, <2>3 DEF AheadInv, RowIsCurrent
<1>7. CASE Commit
  <2>1. /\ reorgs = 0 /\ l1' = l1 /\ batch.open /\ batch'.open = FALSE
        /\ store'.latest = batch.latest
    BY <1>0, <1>7 DEF Commit, l1Vars, NoBatch
  <2>2. Len(calls') = Len(calls) - 1
    BY <1>7, CommitShifts
  <2>3. Len(l1') - Len(calls') = done + 1
    BY <1>1, <2>1, <2>2
  <2>4. RowIsCurrent(l1, batch.latest, done + 1)
    BY <1>3, <2>1
  <2> HIDE DEF done
  <2> QED BY <2>1, <2>3, <2>4 DEF AheadInv, RowIsCurrent
<1>8. CASE Reseed
  BY <1>2, <1>8 DEF Reseed, l1Vars
<1>9. CASE Restart
  <2>1. reorgs = 0 /\ UNCHANGED <<l1, store>> /\ batch'.open = FALSE
    BY <1>0, <1>9 DEF Restart, l1Vars, NoBatch
  <2>2. CASE calls' = calls
    BY <2>1, <2>2 DEF AheadInv, RowIsCurrent
  <2>3. CASE calls' # calls
    <3>1. PICK n \in 0..done : Len(calls') = Len(l1) - n
      BY <1>9, <2>3, RestartReplays
    <3>2. Len(l1') - Len(calls') = n /\ n \in 0..done /\ done \in 0..Len(l1)
      BY <1>1, <1>3, <2>1, <3>1
    <3>3. RowIsCurrent(l1, store.latest, n)
      BY <1>1, <1>3, <2>1, <3>2, RowIsCurrentEarlier
    <3> HIDE DEF done
    <3> QED BY <2>1, <3>2, <3>3 DEF AheadInv, RowIsCurrent
  <2> QED BY <2>2, <2>3
<1>10. CASE UNCHANGED vars
  BY <1>2, <1>10 DEF vars
<1> QED BY <1>4, <1>5, <1>6, <1>7, <1>8, <1>9, <1>10 DEF Next, SettleExits, SettleObserved, Claim

LEMMA CarriedRootFollows == CallsInv /\ AheadInv => CarriedRootIsHonestAhead
<1> SUFFICES ASSUME CallsInv, AheadInv, reorgs = 0, Quiet, l1 # <<>>, l1[Len(l1)].kind = "Observed"
             PROVE  store.latest = [txid |-> l1[Len(l1)].tx, permission_root |-> LastRoot(l1)]
  <2>1. LastRoot(l1) =
          LET exits == { i \in 1..Len(l1) : EmitsExits(l1[i]) }
          IN  IF exits = {} THEN NoRoot
              ELSE Commitment(l1[CHOOSE i \in exits : \A j \in exits : j <= i])
    BY DEF LastRoot, ExitsOf
  <2> QED BY <2>1 DEF CarriedRootIsHonestAhead, CarriedRootIsHonest
<1>1. Len(l1) \in Nat /\ Len(calls) = 0 /\ Len(l1) - Len(calls) = Len(l1)
  <2>1. Len(l1) \in Nat
    BY RowOf DEF CallsInv, IsRow
  <2> QED BY <2>1 DEF Quiet
<1>2. RowIsCurrent(l1, store.latest, Len(l1))
  BY <1>1 DEF AheadInv
<1>3. \A i \in (Len(l1) + 1)..Len(l1) : FALSE
  BY <1>1
<1>4. store.latest.permission_root = LastRoot(l1) /\ store.latest.txid = l1[Len(l1)].tx
  BY <1>2, <1>3 DEF RowIsCurrent
<1> QED BY <1>2, <1>4 DEF RowIsCurrent

(* The reports to come end in the newest transactions of the chain.           *)
THEOREM ReportsFollowChain == Spec => []CallsInv
<1>1. Init => CallsInv
  BY CallsInit
<1>2. CallsInv /\ [Next]_vars => CallsInv'
  BY CallsNext
<1> QED BY <1>1, <1>2, PTL DEF Spec

(* CarriedRootIsHonestAhead: without a reorg, an observed settlement serves   *)
(* the commitment of the newest settlement that emitted exits, its own or the *)
(* one it carries forward, after any restarts and repeated reports, provided  *)
(* that no hook runs before reseed (on_settlement_observed).                  *)
THEOREM CarriedRootsAreHonest == SeedFirst /\ Spec => []CarriedRootIsHonestAhead
<1> SUFFICES ASSUME SeedFirst PROVE Spec => []CarriedRootIsHonestAhead
  OBVIOUS
<1>1. Init => AheadInv
  BY AheadInit
<1>2. CallsInv /\ AheadInv /\ MirrorInv /\ [Next]_vars => AheadInv'
  BY AheadNext
<1>3. Spec => []MirrorInv
  BY MirrorInvariant
<1>4. CallsInv /\ AheadInv => CarriedRootIsHonestAhead
  BY CarriedRootFollows
<1> QED BY <1>1, <1>2, <1>3, <1>4, ReportsFollowChain, PTL DEF Spec

---------------------------------------------------------------------------
(* The spent marks *)

LEMMA CanonicalGrows ==
  ASSUME NEW s, IsRow(s), NEW e, NEW key
  PROVE  /\ ~Touches(e, key) => Canonical(Append(s, e), key) = Canonical(s, key)
         /\ Touches(e, key) => Len(s) + 1 \in Canonical(Append(s, e), key)
         /\ \A i \in 1..Len(s) : Append(s, e)[i] = s[i]
         /\ Append(s, e)[Len(s) + 1] = e
<1> DEFINE t == Append(s, e)
<1>1. /\ Len(s) \in Nat /\ Len(t) = Len(s) + 1 /\ t[Len(s) + 1] = e
      /\ \A i \in 1..Len(s) : t[i] = s[i]
  BY RowGrows
<1> HIDE DEF t
<1>2. \A i : i \in 1..Len(t) <=> i \in 1..Len(s) \/ i = Len(s) + 1
  BY <1>1
<1>3. ASSUME ~Touches(e, key) PROVE Canonical(t, key) = Canonical(s, key)
  <2>1. ASSUME NEW i \in Canonical(t, key) PROVE i \in Canonical(s, key)
    <3>1. i \in 1..Len(t) /\ Touches(t[i], key)
      BY DEF Canonical
    <3>2. i # Len(s) + 1
      BY <1>1, <1>3, <3>1
    <3>3. i \in 1..Len(s) /\ t[i] = s[i]
      BY <1>1, <1>2, <3>1, <3>2
    <3> QED BY <3>1, <3>3 DEF Canonical
  <2>2. ASSUME NEW i \in Canonical(s, key) PROVE i \in Canonical(t, key)
    <3>1. i \in 1..Len(s) /\ Touches(s[i], key)
      BY DEF Canonical
    <3>2. i \in 1..Len(t) /\ t[i] = s[i]
      BY <1>1, <1>2, <3>1
    <3> QED BY <3>1, <3>2 DEF Canonical
  <2> QED BY <2>1, <2>2
<1>4. ASSUME Touches(e, key) PROVE Len(s) + 1 \in Canonical(t, key)
  BY <1>1, <1>2, <1>4 DEF Canonical
<1> QED BY <1>1, <1>3, <1>4 DEF t

LEMMA MarkMined ==
  ASSUME NEW s, IsRow(s), NEW cs, IsRow(cs), NEW e, NEW marks, NEW key,
         MarkTold(s, marks, cs, key)
  PROVE  MarkTold(Append(s, e), marks, Append(cs, Apply(e)), key)
<1> DEFINE t == Append(s, e)
           ds == Append(cs, Apply(e))
<1>1. /\ ~Touches(e, key) => Canonical(t, key) = Canonical(s, key)
      /\ Touches(e, key) => Len(s) + 1 \in Canonical(t, key)
      /\ \A i \in 1..Len(s) : t[i] = s[i]
      /\ t[Len(s) + 1] = e
  BY CanonicalGrows
<1>2. /\ Len(cs) \in Nat /\ Len(ds) = Len(cs) + 1
      /\ ds[Len(cs) + 1] = Apply(e)
      /\ \A i \in 1..Len(cs) : ds[i] = cs[i]
  BY RowGrows
<1> HIDE DEF t, ds
<1>3. \A i \in 1..Len(ds) : i \in 1..Len(cs) \/ i = Len(cs) + 1
  BY <1>2
<1>4. Len(cs) + 1 \in 1..Len(ds) /\ \A i \in 1..Len(cs) : i \in 1..Len(ds)
  BY <1>2
<1>5. ds[Len(cs) + 1].tx = e /\ ds[Len(cs) + 1].hook = "apply"
  BY <1>2 DEF Apply
<1>6. ASSUME Touches(e, key), NEW i \in 1..Len(ds), LastTouch(ds, key, i)
      PROVE  ds[i].hook = "apply" /\ \E j \in Canonical(t, key) : ds[i].tx = t[j]
  <2>1. i = Len(cs) + 1
    <3>1. i \in 1..Len(cs) => Len(cs) + 1 \in (i + 1)..Len(ds)
      BY <1>2
    <3> QED BY <1>3, <1>5, <1>6, <3>1 DEF LastTouch
  <2> QED BY <1>1, <1>5, <1>6, <2>1
<1>7. ASSUME Touches(e, key) PROVE ~Untouched(ds, key)
  BY <1>4, <1>5, <1>7 DEF Untouched
<1>8. ASSUME ~Touches(e, key), NEW i \in 1..Len(ds), LastTouch(ds, key, i)
      PROVE  IF ds[i].hook = "apply" THEN \E j \in Canonical(t, key) : ds[i].tx = t[j]
             ELSE Canonical(t, key) = {}
  <2>1. i \in 1..Len(cs) /\ ds[i] = cs[i]
    BY <1>2, <1>3, <1>5, <1>8 DEF LastTouch
  <2>2. LastTouch(cs, key, i)
    <3>1. ASSUME NEW j \in (i + 1)..Len(cs) PROVE ~Touches(cs[j].tx, key)
      <4>1. j \in (i + 1)..Len(ds) /\ j \in 1..Len(cs)
        BY <1>2, <2>1
      <4>2. ds[j] = cs[j]
        BY <1>2, <4>1
      <4> QED BY <1>8, <4>1, <4>2 DEF LastTouch
    <3> QED BY <1>8, <2>1, <3>1 DEF LastTouch
  <2>3. IF cs[i].hook = "apply" THEN \E j \in Canonical(s, key) : cs[i].tx = s[j]
        ELSE Canonical(s, key) = {}
    BY <2>1, <2>2 DEF MarkTold
  <2>4. \A j \in Canonical(s, key) : t[j] = s[j]
    BY <1>1 DEF Canonical
  <2> QED BY <1>1, <1>8, <2>1, <2>3, <2>4
<1>9. ASSUME ~Touches(e, key), Untouched(ds, key)
      PROVE  /\ key \in DOMAIN marks <=> Canonical(t, key) # {}
             /\ \A i \in Canonical(t, key) : marks[key] = t[i].tx
  <2>1. Untouched(cs, key)
    BY <1>2, <1>4, <1>9 DEF Untouched
  <2>2. \A j \in Canonical(s, key) : t[j] = s[j]
    BY <1>1 DEF Canonical
  <2> QED BY <1>1, <1>9, <2>1, <2>2 DEF MarkTold
<1> QED BY <1>6, <1>7, <1>8, <1>9 DEF MarkTold, t, ds

(* What the report at the head did to a mark.                                 *)
MarkWorked(marks, new, c, key) ==
  /\ Touches(c.tx, key) =>
       IF c.hook = "apply" THEN key \in DOMAIN new /\ new[key] = c.tx.tx ELSE key \notin DOMAIN new
  /\ ~Touches(c.tx, key) =>
       /\ key \in DOMAIN new <=> key \in DOMAIN marks
       /\ key \in DOMAIN marks => new[key] = marks[key]

LEMMA MarkIsWorkedOff ==
  ASSUME NEW s, NEW cs, IsRow(cs), cs # <<>>, NEW marks, NEW new, NEW key,
         MarkTold(s, marks, cs, key), MarkWorked(marks, new, Head(cs), key),
         \A i, j \in Canonical(s, key) : i = j
  PROVE  MarkTold(s, new, Tail(cs), key)
<1> DEFINE ds == Tail(cs)
<1>1. /\ Len(cs) \in Nat \ {0} /\ Len(ds) = Len(cs) - 1
      /\ \A i \in 1..(Len(cs) - 1) : ds[i] = cs[i + 1]
      /\ Head(cs) = cs[1]
  BY RowShifts
<1> HIDE DEF ds
<1>2. \A i \in 2..Len(cs) : i - 1 \in 1..Len(ds) /\ ds[i - 1] = cs[i]
  <2> TAKE i \in 2..Len(cs)
  <2>1. i - 1 \in 1..(Len(cs) - 1) /\ (i - 1) + 1 = i
    BY <1>1
  <2> QED BY <1>1, <2>1
<1>3. \A i \in 1..Len(ds) : i + 1 \in 1..Len(cs) /\ ds[i] = cs[i + 1]
  BY <1>1
<1>4. ASSUME NEW i \in 1..Len(ds), LastTouch(ds, key, i)
      PROVE  IF ds[i].hook = "apply" THEN \E j \in Canonical(s, key) : ds[i].tx = s[j]
             ELSE Canonical(s, key) = {}
  <2>1. LastTouch(cs, key, i + 1)
    <3>1. ASSUME NEW j \in (i + 1 + 1)..Len(cs) PROVE ~Touches(cs[j].tx, key)
      <4>1. j - 1 \in (i + 1)..Len(ds) /\ j \in 2..Len(cs)
        BY <1>1
      <4>2. ds[j - 1] = cs[j]
        BY <1>2, <4>1
      <4> QED BY <1>4, <4>1, <4>2 DEF LastTouch
    <3> QED BY <1>3, <1>4, <3>1 DEF LastTouch
  <2> QED BY <1>3, <2>1 DEF MarkTold
<1>5. ASSUME Untouched(ds, key)
      PROVE  /\ key \in DOMAIN new <=> Canonical(s, key) # {}
             /\ \A i \in Canonical(s, key) : new[key] = s[i].tx
  <2>1. \A i \in 2..Len(cs) : ~Touches(cs[i].tx, key)
    BY <1>2, <1>5 DEF Untouched
  <2>2. CASE Touches(cs[1].tx, key)
    <3>1. LastTouch(cs, key, 1) /\ 1 \in 1..Len(cs)
      <4>1. 1 + 1 = 2
        OBVIOUS
      <4> QED BY <1>1, <2>1, <2>2, <4>1 DEF LastTouch
    <3>2. IF cs[1].hook = "apply" THEN \E j \in Canonical(s, key) : cs[1].tx = s[j]
          ELSE Canonical(s, key) = {}
      BY <3>1 DEF MarkTold
    <3>3. IF cs[1].hook = "apply" THEN key \in DOMAIN new /\ new[key] = cs[1].tx.tx
          ELSE key \notin DOMAIN new
      BY <1>1, <2>2 DEF MarkWorked
    <3> QED BY <3>2, <3>3
  <2>3. CASE ~Touches(cs[1].tx, key)
    <3>1. Untouched(cs, key)
      <4>1. \A i \in 1..Len(cs) : i = 1 \/ i \in 2..Len(cs)
        BY <1>1
      <4> QED BY <2>1, <2>3, <4>1 DEF Untouched
    <3>2. /\ key \in DOMAIN new <=> key \in DOMAIN marks
          /\ key \in DOMAIN marks => new[key] = marks[key]
      BY <1>1, <2>3 DEF MarkWorked
    <3>3. /\ key \in DOMAIN marks <=> Canonical(s, key) # {}
          /\ \A i \in Canonical(s, key) : marks[key] = s[i].tx
      BY <3>1 DEF MarkTold
    <3> QED BY <3>2, <3>3
  <2> QED BY <2>2, <2>3
<1> QED BY <1>4, <1>5 DEF MarkTold, ds

(* t is s without its newest elements, ds is cs with back added.              *)
Rewinds(s, t, cs, ds, back, n) ==
  /\ n \in Nat /\ Len(s) \in Nat /\ n < Len(s) /\ Len(t) = n
  /\ \A i \in 1..n : t[i] = s[i]
  /\ Len(cs) \in Nat /\ Len(back) \in Nat /\ Len(ds) = Len(cs) + Len(back)
  /\ \A i \in 1..Len(cs) : ds[i] = cs[i]
  /\ \A i \in 1..Len(back) : ds[Len(cs) + i] = back[i]

(* A reorg that takes a claim back reports its revert; one that does not      *)
(* leaves the chain's word about the key as it was.                           *)
LEMMA MarkIsRewound ==
  ASSUME NEW n, NEW t, NEW back, NEW cs, NEW ds, NEW marks, NEW key,
         Rewinds(l1, t, cs, ds, back, n), RevertsOf(back, n),
         MarkTold(l1, marks, cs, key), \A i, j \in Canonical(l1, key) : i = j
  PROVE  MarkTold(t, marks, ds, key)
<1>a. n \in Nat /\ Len(l1) \in Nat /\ n < Len(l1) /\ Len(t) = n /\ \A i \in 1..n : t[i] = l1[i]
  BY DEF Rewinds
<1>b. Len(cs) \in Nat /\ Len(back) \in Nat /\ Len(ds) = Len(cs) + Len(back)
  BY DEF Rewinds
<1>c. \A i \in 1..Len(cs) : ds[i] = cs[i]
  BY DEF Rewinds
<1>d. \A i \in 1..Len(back) : ds[Len(cs) + i] = back[i]
  BY DEF Rewinds
<1> USE <1>a, <1>b, <1>c, <1>d
<1>1. \A i \in 1..Len(ds) : i \in 1..Len(cs) \/ i - Len(cs) \in 1..Len(back)
  OBVIOUS
<1>0. \A e : Revert(e).hook = "revert" /\ Revert(e).tx = e
  BY DEF Revert
<1>2. \A i \in 1..Len(back) : \E k \in (n + 1)..Len(l1) : back[i].hook = "revert" /\ back[i].tx = l1[k]
  <2> TAKE i \in 1..Len(back)
  <2>1. PICK k \in (n + 1)..Len(l1) : back[i] = Revert(l1[k])
    BY DEF RevertsOf
  <2> QED BY <1>0, <2>1
<1>3. \A k \in (n + 1)..Len(l1) : \E i \in 1..Len(back) : back[i].tx = l1[k]
  <2> TAKE k \in (n + 1)..Len(l1)
  <2>1. PICK i \in 1..Len(back) : back[i] = Revert(l1[k])
    BY DEF RevertsOf
  <2> QED BY <1>0, <2>1
<1>4. \A i \in Canonical(t, key) : i \in Canonical(l1, key) /\ i <= n /\ t[i] = l1[i]
  BY DEF Canonical
<1>5. CASE \E k \in (n + 1)..Len(l1) : Touches(l1[k], key)
  <2>1. PICK k \in (n + 1)..Len(l1) : Touches(l1[k], key)
    BY <1>5
  <2>2. k \in Canonical(l1, key) /\ ~(k <= n)
    BY <2>1 DEF Canonical
  <2>3. Canonical(t, key) = {}
    BY <1>4, <2>2
  <2>4. PICK m \in 1..Len(back) : back[m].tx = l1[k]
    BY <1>3
  <2>5. Len(cs) + m \in 1..Len(ds) /\ Touches(ds[Len(cs) + m].tx, key)
    BY <2>1, <2>4
  <2>6. ASSUME NEW i \in 1..Len(ds), LastTouch(ds, key, i)
        PROVE  ds[i].hook # "apply"
    <3>1. ~(i < Len(cs) + m)
      <4>1. i < Len(cs) + m => Len(cs) + m \in (i + 1)..Len(ds)
        OBVIOUS
      <4> QED BY <2>5, <2>6, <4>1 DEF LastTouch
    <3>2. i - Len(cs) \in 1..Len(back) /\ Len(cs) + (i - Len(cs)) = i
      BY <3>1
    <3>3. ds[i] = back[i - Len(cs)]
      BY <3>2
    <3> QED BY <1>2, <3>2, <3>3
  <2>7. ~Untouched(ds, key)
    BY <2>5 DEF Untouched
  <2> QED BY <2>3, <2>6, <2>7 DEF MarkTold
<1>6. CASE \A k \in (n + 1)..Len(l1) : ~Touches(l1[k], key)
  <2>1. Canonical(t, key) = Canonical(l1, key)
    <3>1. ASSUME NEW i \in Canonical(l1, key) PROVE i \in Canonical(t, key)
      <4>1. i \in 1..Len(l1) /\ Touches(l1[i], key)
        BY DEF Canonical
      <4>2. i \in 1..n
        BY <1>6, <4>1
      <4> QED BY <4>1, <4>2 DEF Canonical
    <3> QED BY <1>4, <3>1
  <2>2. \A i \in 1..Len(back) : ~Touches(back[i].tx, key)
    BY <1>2, <1>6
  <2>3. \A i \in 1..Len(ds) : Touches(ds[i].tx, key) => i \in 1..Len(cs)
    <3> TAKE i \in 1..Len(ds)
    <3>1. ASSUME ~(i \in 1..Len(cs)) PROVE ~Touches(ds[i].tx, key)
      <4>1. i - Len(cs) \in 1..Len(back) /\ Len(cs) + (i - Len(cs)) = i
        BY <3>1
      <4>2. ds[i] = back[i - Len(cs)]
        BY <4>1
      <4> QED BY <2>2, <4>1, <4>2
    <3> QED BY <3>1
  <2>4. \A j \in Canonical(l1, key) : t[j] = l1[j]
    BY <1>4, <2>1
  <2>5. \A i \in 1..Len(cs) : i \in 1..Len(ds)
    OBVIOUS
  <2>6. Untouched(ds, key) => Untouched(cs, key)
    BY <2>5 DEF Untouched
  <2>7. ASSUME NEW i \in 1..Len(ds), LastTouch(ds, key, i)
        PROVE  i \in 1..Len(cs) /\ ds[i] = cs[i] /\ LastTouch(cs, key, i)
    <3>1. i \in 1..Len(cs) /\ ds[i] = cs[i]
      BY <2>3, <2>7 DEF LastTouch
    <3>2. \A j \in (i + 1)..Len(cs) : j \in (i + 1)..Len(ds) /\ ds[j] = cs[j]
      BY <3>1
    <3> QED BY <2>7, <3>1, <3>2 DEF LastTouch
  <2>8. ASSUME Untouched(ds, key)
        PROVE  /\ key \in DOMAIN marks <=> Canonical(t, key) # {}
               /\ \A i \in Canonical(t, key) : marks[key] = t[i].tx
    BY <2>1, <2>4, <2>6, <2>8 DEF MarkTold
  <2>9. ASSUME NEW i \in 1..Len(ds), LastTouch(ds, key, i)
        PROVE  IF ds[i].hook = "apply" THEN \E j \in Canonical(t, key) : ds[i].tx = t[j]
               ELSE Canonical(t, key) = {}
    <3>1. i \in 1..Len(cs) /\ ds[i] = cs[i] /\ LastTouch(cs, key, i)
      BY <2>7, <2>9
    <3>2. IF cs[i].hook = "apply" THEN \E j \in Canonical(l1, key) : cs[i].tx = l1[j]
          ELSE Canonical(l1, key) = {}
      BY <3>1 DEF MarkTold
    <3> QED BY <2>1, <2>4, <3>1, <3>2
  <2> QED BY <2>8, <2>9 DEF MarkTold
<1> QED BY <1>5, <1>6

(* Reports made again are of canonical transactions and end in those still    *)
(* to come.                                                                   *)
LEMMA MarkIsReplayed ==
  ASSUME NEW n \in Nat, Len(l1) \in Nat, n <= Len(l1),
         NEW cs, Len(cs) \in Nat, NEW ds, Len(ds) = Len(l1) - n, Len(cs) <= Len(ds),
         \A i \in 1..Len(ds) : ds[i] = Apply(l1[n + i]),
         \A i \in 1..Len(cs) : cs[i] = ds[Len(ds) - Len(cs) + i],
         NEW marks, NEW key, MarkTold(l1, marks, cs, key)
  PROVE  MarkTold(l1, marks, ds, key)
<1>1. ASSUME NEW i \in 1..Len(ds), LastTouch(ds, key, i)
      PROVE  ds[i].hook = "apply" /\ \E j \in Canonical(l1, key) : ds[i].tx = l1[j]
  <2>1. ds[i].hook = "apply" /\ ds[i].tx = l1[n + i]
    <3>1. ds[i] = Apply(l1[n + i])
      OBVIOUS
    <3> QED BY <3>1 DEF Apply
  <2>2. n + i \in 1..Len(l1)
    OBVIOUS
  <2>3. n + i \in Canonical(l1, key)
    BY <1>1, <2>1, <2>2 DEF LastTouch, Canonical
  <2> QED BY <2>1, <2>3
<1>2. ASSUME Untouched(ds, key) PROVE Untouched(cs, key)
  <2> SUFFICES ASSUME NEW i \in 1..Len(cs) PROVE ~Touches(cs[i].tx, key)
    BY DEF Untouched
  <2>1. Len(ds) - Len(cs) + i \in 1..Len(ds)
    OBVIOUS
  <2> QED BY <1>2, <2>1 DEF Untouched
<1> QED BY <1>1, <1>2 DEF MarkTold

(* The claims of the chain: each of a leaf of a known family that was not     *)
(* emptied yet, no two under the same mark.                                   *)
LEMMA ClaimsNext ==
  ASSUME RootsDiffer, CallsInv, ClaimsInv, [Next]_vars
  PROVE  ClaimsInv'
<1>0. Len(l1) \in Nat
  BY RowOf DEF CallsInv, IsRow
<1>1. ASSUME UNCHANGED l1 PROVE ClaimsInv'
  BY <1>1 DEF ClaimsInv
<1>2. ASSUME NEW e, Mine(e), e.kind # "Claim" PROVE ClaimsInv'
  <2>1. /\ Len(l1') = Len(l1) + 1 /\ l1'[Len(l1) + 1] = e
        /\ \A i \in 1..Len(l1) : l1'[i] = l1[i]
    BY <1>2, MineAppends
  <2>2. \A i \in 1..Len(l1') : l1'[i].kind = "Claim" => i \in 1..Len(l1) /\ l1'[i] = l1[i]
    BY <1>0, <1>2, <2>1
  <2> QED BY <2>2 DEF ClaimsInv
<1>3. ASSUME NEW f \in Families, NEW leaf \in 1..Len(Leaves[f]), Claim(f, leaf) PROVE ClaimsInv'
  <2>1. PICK e : /\ Mine(e) /\ e.kind = "Claim" /\ e.family = f /\ e.leaf = leaf
                 /\ e.old_root = Root(Leaves[f], Emptied(f))
    BY <1>3 DEF Claim
  <2>2. /\ Len(l1') = Len(l1) + 1 /\ l1'[Len(l1) + 1] = e
        /\ \A i \in 1..Len(l1) : l1'[i] = l1[i]
    BY <2>1, MineAppends
  <2>3. leaf \notin Emptied(f) /\ Emptied(f) \in SUBSET (1..Len(Leaves[f]))
    BY <1>3 DEF Claim, Emptied
  <2>4. SoundClaim(e)
    BY <2>1, <2>3 DEF SoundClaim
  <2>5. ASSUME NEW i \in 1..Len(l1), l1[i].kind = "Claim", Mark(l1[i]) = Mark(e) PROVE FALSE
    <3>1. SoundClaim(l1[i])
      BY <2>5 DEF ClaimsInv
    <3> DEFINE g == l1[i].family
    <3>2. l1[i].old_root = e.old_root /\ l1[i].leaf = leaf
      BY <2>1, <2>5 DEF Mark
    <3>3. PICK E \in SUBSET (1..Len(Leaves[g]) \ {leaf}) : l1[i].old_root = Root(Leaves[g], E)
      BY <3>1, <3>2 DEF SoundClaim
    <3>4. g \in Families /\ leaf \in 1..Len(Leaves[g])
      BY <3>1, <3>2 DEF SoundClaim
    <3>5. E # 1..Len(Leaves[g]) /\ E \in SUBSET (1..Len(Leaves[g]))
      BY <3>4
    <3>6. Emptied(f) # 1..Len(Leaves[f])
      BY <2>3
    <3>7. Root(Leaves[g], E) = Root(Leaves[f], Emptied(f))
      BY <2>1, <3>2, <3>3
    <3> HIDE DEF g
    <3>8. g = f
      BY <2>3, <3>4, <3>5, <3>6, <3>7 DEF RootsDiffer
    <3>9. leaf \in Emptied(f)
      BY <2>5, <3>2, <3>8 DEF Emptied, IsClaimed, IsClaim, g
    <3> QED BY <2>3, <3>9
  <2>6. \A i \in 1..Len(l1') : i = Len(l1) + 1 \/ i \in 1..Len(l1)
    BY <1>0, <2>2
  <2>7. \A i \in 1..Len(l1') : l1'[i].kind = "Claim" => SoundClaim(l1'[i])
    BY <2>2, <2>4, <2>6 DEF ClaimsInv
  <2>8. ASSUME NEW i \in 1..Len(l1'), NEW j \in 1..Len(l1'), l1'[i].kind = "Claim",
               l1'[j].kind = "Claim", Mark(l1'[i]) = Mark(l1'[j])
        PROVE  i = j
    <3>1. CASE i = Len(l1) + 1 /\ j \in 1..Len(l1)
      BY <2>2, <2>5, <2>8, <3>1
    <3>2. CASE j = Len(l1) + 1 /\ i \in 1..Len(l1)
      BY <2>2, <2>5, <2>8, <3>2
    <3>3. CASE i \in 1..Len(l1) /\ j \in 1..Len(l1)
      BY <2>2, <2>8, <3>3 DEF ClaimsInv
    <3> QED BY <2>6, <3>1, <3>2, <3>3
  <2> QED BY <2>7, <2>8 DEF ClaimsInv
<1>4. CASE Reorg
  <2>1. PICK n \in 0..(Len(l1) - 1) :
          n < Len(l1) /\ n \in Nat /\ Len(l1') = n /\ \A i \in 1..n : l1'[i] = l1[i]
    BY <1>4, ReorgRewinds
  <2>2. \A i \in 1..Len(l1') : i \in 1..Len(l1) /\ l1'[i] = l1[i]
    BY <1>0, <2>1
  <2> QED BY <2>2 DEF ClaimsInv
<1>5. CASE UNCHANGED vars
  BY <1>1, <1>5 DEF vars
<1>6. CASE Hook \/ Commit \/ Reseed \/ Restart
  BY <1>1, <1>6 DEF Hook, Commit, Reseed, Restart, l1Vars
<1>7. CASE \/ \E root \in Unpaired \cup {NoRoot} : SettleObserved(root)
           \/ \E f \in Families : SettleExits(f)
  BY <1>2, <1>7 DEF SettleObserved, SettleExits
<1> QED BY <1>3, <1>4, <1>5, <1>6, <1>7 DEF Next

(* What a hook does to the marks (mark_leaf_spent, unmark_leaf_spent).        *)
LEMMA HookMarks ==
  ASSUME CallsInv, Hook, NEW key
  PROVE  MarkWorked(store.marks, batch'.marks, Head(calls), key)
<1> DEFINE c == Head(calls)
           e == c.tx
<1>1. c.hook \in {"apply", "revert"}
  <2>1. IsRow(calls) /\ calls # <<>>
    BY DEF CallsInv, Hook
  <2>2. Len(calls) \in Nat \ {0} /\ c = calls[1]
    BY <2>1, RowShifts
  <2> QED BY <2>2 DEF CallsInv
<1> SUFFICES MarkWorked(store.marks, batch'.marks, c, key)
  OBVIOUS
<1> HIDE DEF c
<1>2. \/ e.kind # "Claim" /\ batch'.marks = store.marks
      \/ e.kind = "Claim" /\ c.hook = "apply" /\ OnPermissionSpent(e)
      \/ e.kind = "Claim" /\ c.hook # "apply" /\ OnPermissionSpendReverted(e)
  BY DEF Hook, c, OnExitsCommitted, OnExitsRecommitted, OnSettlementObserved, OnExitsReverted, Write
<1>3. CASE e.kind # "Claim" /\ batch'.marks = store.marks
  BY <1>3 DEF MarkWorked, Touches
<1>4. CASE e.kind = "Claim" /\ c.hook = "apply" /\ OnPermissionSpent(e)
  <2>1. batch'.marks = Put(store.marks, Mark(e), e.tx)
    BY <1>4 DEF OnPermissionSpent, Write
  <2>2. CASE key = Mark(e)
    <3>1. key \in DOMAIN batch'.marks /\ batch'.marks[key] = e.tx
      BY <2>1, <2>2 DEF Put
    <3> QED BY <1>4, <2>2, <3>1 DEF MarkWorked, Touches
  <2>3. CASE key # Mark(e)
    <3>1. /\ key \in DOMAIN batch'.marks <=> key \in DOMAIN store.marks
          /\ key \in DOMAIN store.marks => batch'.marks[key] = store.marks[key]
      BY <2>1, <2>3 DEF Put
    <3> QED BY <2>3, <3>1 DEF MarkWorked, Touches
  <2> QED BY <2>2, <2>3
<1>5. CASE e.kind = "Claim" /\ c.hook # "apply" /\ OnPermissionSpendReverted(e)
  <2>1. batch'.marks = Drop(store.marks, Mark(e))
    BY <1>5 DEF OnPermissionSpendReverted, Write, Unmarked
  <2>2. CASE key = Mark(e)
    <3>1. key \notin DOMAIN batch'.marks
      BY <2>1, <2>2 DEF Drop
    <3> QED BY <1>5, <2>2, <3>1 DEF MarkWorked, Touches
  <2>3. CASE key # Mark(e)
    <3>1. /\ key \in DOMAIN batch'.marks <=> key \in DOMAIN store.marks
          /\ key \in DOMAIN store.marks => batch'.marks[key] = store.marks[key]
      BY <2>1, <2>3 DEF Drop
    <3> QED BY <2>3, <3>1 DEF MarkWorked, Touches
  <2> QED BY <2>2, <2>3
<1> QED BY <1>2, <1>3, <1>4, <1>5

LEMMA MarksInit == Init => MarksInv /\ ClaimsInv
<1> SUFFICES ASSUME Init PROVE MarksInv /\ ClaimsInv
  OBVIOUS
<1>1. /\ l1 = <<>> /\ calls = <<>> /\ batch.open = FALSE
      /\ store.marks = [k \in {} |-> 0]
  BY DEF Init, NoBatch, Nothing
<1>2. Len(l1) = 0 /\ Len(calls) = 0
  BY <1>1
<1>3. \A i \in 1..Len(l1) : FALSE
  BY <1>2
<1>4. \A i \in 1..Len(calls) : FALSE
  BY <1>2
<1>5. ASSUME NEW key PROVE MarkTold(l1, store.marks, calls, key)
  <2>1. Canonical(l1, key) = {}
    BY <1>3 DEF Canonical
  <2>2. key \notin DOMAIN store.marks
    BY <1>1
  <2> QED BY <1>4, <2>1, <2>2 DEF MarkTold
<1> QED BY <1>1, <1>3, <1>5 DEF MarksInv, ClaimsInv

LEMMA MarksNext ==
  ASSUME CallsInv, ClaimsInv, MarksInv, [Next]_vars
  PROVE  MarksInv'
<1>1. /\ IsRow(l1) /\ IsRow(calls) /\ Len(l1) \in Nat /\ Len(calls) \in Nat
  BY RowOf DEF CallsInv, IsRow
<1>2. ASSUME NEW key PROVE \A i, j \in Canonical(l1, key) : i = j
  BY DEF ClaimsInv, Canonical, Touches
<1>3. ASSUME batch.open
      PROVE  /\ IsRow(Tail(calls)) /\ calls # <<>> /\ Len(calls) \in Nat \ {0}
             /\ Len(Tail(calls)) = Len(calls) - 1
             /\ \A i \in 1..(Len(calls) - 1) : Tail(calls)[i] = calls[i + 1]
  <2>1. calls # <<>>
    BY <1>3 DEF CallsInv
  <2> QED BY <1>1, <2>1, RowShifts
<1>4. ASSUME UNCHANGED <<l1, calls, store, batch>> PROVE MarksInv'
  BY <1>4 DEF MarksInv
<1>5. ASSUME NEW e, Mine(e) PROVE MarksInv'
  <2>1. /\ l1' = Append(l1, e) /\ calls' = Append(calls, Apply(e))
        /\ store' = store /\ batch' = batch
    BY <1>5 DEF Mine
  <2>2. ASSUME NEW key PROVE MarkTold(l1', store.marks, calls', key)
    <3>1. MarkTold(l1, store.marks, calls, key)
      BY DEF MarksInv
    <3> QED BY <1>1, <2>1, <3>1, MarkMined
  <2>3. ASSUME batch.open, NEW key PROVE MarkTold(l1', batch.marks, Tail(calls'), key)
    <3>1. MarkTold(l1, batch.marks, Tail(calls), key)
      BY <2>3 DEF MarksInv
    <3>2. Tail(calls') = Append(Tail(calls), Apply(e))
      <4> DEFINE S == Elements(calls)
      <4>1. calls \in Seq(S) /\ calls # <<>>
        BY <1>1, <1>3, <2>3 DEF IsRow
      <4> HIDE DEF S
      <4> QED BY <2>1, <4>1, HeadTailAppend
    <3> QED BY <1>1, <1>3, <2>1, <2>3, <3>1, <3>2, MarkMined
  <2> QED BY <2>1, <2>2, <2>3 DEF MarksInv
<1>6. CASE Reorg
  <2>1. PICK n, back :
           /\ n \in Nat /\ Len(l1) \in Nat /\ Len(calls) \in Nat /\ n < Len(l1)
           /\ IsRow(l1') /\ Len(l1') = n
           /\ \A i \in 1..n : l1'[i] = l1[i]
           /\ IsRow(calls') /\ Len(back) \in Nat \ {0}
           /\ Len(calls') = Len(calls) + Len(back)
           /\ \A i \in 1..Len(calls) : calls'[i] = calls[i]
           /\ \A i \in 1..Len(back) : calls'[Len(calls) + i] = back[i]
           /\ RevertsOf(back, n)
    BY <1>6, ReorgRewinds
  <2>2. store' = store /\ batch' = batch
    BY <1>6 DEF Reorg
  <2>3. ASSUME NEW key PROVE MarkTold(l1', store.marks, calls', key)
    <3>1. MarkTold(l1, store.marks, calls, key)
      BY DEF MarksInv
    <3>2. \A i, j \in Canonical(l1, key) : i = j
      BY <1>2
    <3> DEFINE t == l1'
               ds == calls'
    <3>3. n \in Nat /\ Len(l1) \in Nat /\ n < Len(l1) /\ Len(t) = n
      BY <2>1
    <3>4. \A i \in 1..n : t[i] = l1[i]
      BY <2>1
    <3>5. /\ Len(back) \in Nat /\ Len(calls) \in Nat /\ Len(ds) = Len(calls) + Len(back)
          /\ RevertsOf(back, n)
      BY <2>1
    <3>6. \A i \in 1..Len(calls) : ds[i] = calls[i]
      BY <2>1
    <3>7. \A i \in 1..Len(back) : ds[Len(calls) + i] = back[i]
      BY <2>1
    <3> HIDE DEF t, ds
    <3>8. Rewinds(l1, t, calls, ds, back, n)
      BY <3>3, <3>4, <3>5, <3>6, <3>7 DEF Rewinds
    <3>9. MarkTold(t, store.marks, ds, key)
      BY <3>1, <3>2, <3>5, <3>8, MarkIsRewound
    <3> QED BY <3>9 DEF t, ds
  <2>4. ASSUME batch.open, NEW key PROVE MarkTold(l1', batch.marks, Tail(calls'), key)
    <3> DEFINE cs == Tail(calls)
               ds == Tail(calls')
    <3>1. MarkTold(l1, batch.marks, cs, key)
      BY <2>4 DEF MarksInv
    <3>2. \A i, j \in Canonical(l1, key) : i = j
      BY <1>2
    <3>3. /\ Len(calls) \in Nat \ {0} /\ Len(cs) = Len(calls) - 1
          /\ \A i \in 1..(Len(calls) - 1) : cs[i] = calls[i + 1]
      BY <1>3, <2>4
    <3>4. Len(ds) = Len(calls') - 1 /\ \A i \in 1..(Len(calls') - 1) : ds[i] = calls'[i + 1]
      <4>1. calls' # <<>>
        BY <2>1
      <4> QED BY <2>1, <4>1, RowShifts
    <3> HIDE DEF cs, ds
    <3>5. Len(ds) = Len(cs) + Len(back) /\ Len(cs) \in Nat
      BY <2>1, <3>3, <3>4
    <3>6. ASSUME NEW i \in 1..Len(cs) PROVE ds[i] = cs[i]
      <4>1. i \in 1..(Len(calls) - 1) /\ i \in 1..(Len(calls') - 1) /\ i + 1 \in 1..Len(calls)
        BY <2>1, <3>3
      <4> QED BY <2>1, <3>3, <3>4, <4>1
    <3>7. ASSUME NEW i \in 1..Len(back) PROVE ds[Len(cs) + i] = back[i]
      <4>1. Len(cs) + i \in 1..(Len(calls') - 1) /\ Len(cs) + i + 1 = Len(calls) + i
        BY <2>1, <3>3
      <4>2. ds[Len(cs) + i] = calls'[Len(cs) + i + 1]
        BY <3>4, <4>1
      <4> QED BY <2>1, <4>1, <4>2
    <3> DEFINE t == l1'
    <3>8. /\ n \in Nat /\ Len(l1) \in Nat /\ n < Len(l1) /\ Len(t) = n
          /\ \A i \in 1..n : t[i] = l1[i]
      BY <2>1
    <3>9. Len(back) \in Nat /\ RevertsOf(back, n)
      BY <2>1
    <3> HIDE DEF t
    <3>10. Rewinds(l1, t, cs, ds, back, n)
      BY <3>5, <3>6, <3>7, <3>8, <3>9 DEF Rewinds
    <3>11. MarkTold(t, batch.marks, ds, key)
      BY <3>1, <3>2, <3>9, <3>10, MarkIsRewound
    <3> QED BY <3>11 DEF t, ds
  <2> QED BY <2>2, <2>3, <2>4 DEF MarksInv
<1>7. CASE Hook
  <2>1. UNCHANGED <<l1, calls, store>> /\ calls # <<>>
    BY <1>7 DEF Hook, l1Vars
  <2>2. ASSUME NEW key PROVE MarkTold(l1, batch'.marks, Tail(calls), key)
    <3>1. MarkTold(l1, store.marks, calls, key)
      BY DEF MarksInv
    <3>2. MarkWorked(store.marks, batch'.marks, Head(calls), key)
      BY <1>7, HookMarks
    <3>3. \A i, j \in Canonical(l1, key) : i = j
      BY <1>2
    <3> QED BY <1>1, <2>1, <3>1, <3>2, <3>3, MarkIsWorkedOff
  <2>3. \A key : MarkTold(l1, store.marks, calls, key)
    BY DEF MarksInv
  <2>4. /\ \A key : MarkTold(l1', store'.marks, calls', key)
        /\ \A key : MarkTold(l1', batch'.marks, Tail(calls'), key)
    BY <2>1, <2>2, <2>3
  <2> QED BY <2>4 DEF MarksInv
<1>8. CASE Commit
  <2>1. /\ l1' = l1 /\ batch.open /\ batch'.open = FALSE /\ calls' = Tail(calls)
        /\ store'.marks = batch.marks
    BY <1>8 DEF Commit, l1Vars, NoBatch
  <2>2. \A key : MarkTold(l1, batch.marks, Tail(calls), key)
    BY <2>1 DEF MarksInv
  <2> QED BY <2>1, <2>2 DEF MarksInv
<1>9. CASE Reseed
  BY <1>4, <1>9 DEF Reseed, l1Vars
<1>10. CASE Restart
  <2>1. UNCHANGED <<l1, store>> /\ batch'.open = FALSE
    BY <1>10 DEF Restart, l1Vars, NoBatch
  <2>2. CASE calls' = calls
    BY <2>1, <2>2 DEF MarksInv
  <2>3. CASE calls' # calls
    <3>1. PICK n \in 0..(Len(l1) - Len(calls)) :
           /\ AllApply(calls, 0) /\ Len(calls) <= Len(l1)
           /\ IsRow(calls') /\ Len(calls') = Len(l1) - n /\ Len(calls') \in Nat
           /\ Len(calls') >= Len(calls)
           /\ \A i \in 1..Len(calls') : calls'[i] = Apply(l1[n + i])
           /\ \A i \in 1..Len(calls) : calls[i] = calls'[Len(calls') - Len(calls) + i]
      BY <1>10, <2>3, RestartReplays
    <3>2. n \in Nat /\ n <= Len(l1) /\ Len(calls) <= Len(calls')
      BY <1>1, <3>1
    <3>3. ASSUME NEW key PROVE MarkTold(l1, store.marks, calls', key)
      <4>1. MarkTold(l1, store.marks, calls, key)
        BY DEF MarksInv
      <4> QED BY <1>1, <3>1, <3>2, <4>1, MarkIsReplayed
    <3> QED BY <2>1, <3>3 DEF MarksInv
  <2> QED BY <2>2, <2>3
<1>11. CASE UNCHANGED vars
  BY <1>4, <1>11 DEF vars
<1> QED BY <1>5, <1>6, <1>7, <1>8, <1>9, <1>10, <1>11 DEF Next, SettleExits, SettleObserved, Claim

LEMMA MarksFollow == CallsInv /\ MarksInv => MarksAreCanonical
<1> SUFFICES ASSUME CallsInv, MarksInv, Quiet PROVE MarksAreCanonical
  BY DEF MarksAreCanonical
<1> DEFINE claims == { l1[i] : i \in { i \in 1..Len(l1) : l1[i].kind = "Claim" } }
<1>1. \A i \in 1..Len(calls) : FALSE
  BY DEF Quiet
<1>2. ASSUME NEW key
      PROVE  /\ key \in DOMAIN store.marks <=> Canonical(l1, key) # {}
             /\ \A i \in Canonical(l1, key) : store.marks[key] = l1[i].tx
  <2>1. MarkTold(l1, store.marks, calls, key)
    BY DEF MarksInv
  <2>2. Untouched(calls, key)
    BY <1>1 DEF Untouched
  <2> QED BY <2>1, <2>2 DEF MarkTold
<1>3. ASSUME NEW e \in claims
      PROVE  Mark(e) \in DOMAIN store.marks /\ store.marks[Mark(e)] = e.tx
  <2>1. PICK i \in 1..Len(l1) : l1[i] = e /\ e.kind = "Claim"
    OBVIOUS
  <2>2. i \in Canonical(l1, Mark(e))
    BY <2>1 DEF Canonical, Touches
  <2> QED BY <1>2, <2>1, <2>2
<1>4. ASSUME NEW key \in DOMAIN store.marks PROVE \E e \in claims : key = Mark(e)
  <2>1. PICK i \in Canonical(l1, key) : TRUE
    BY <1>2
  <2>2. i \in 1..Len(l1) /\ l1[i].kind = "Claim" /\ Mark(l1[i]) = key
    BY DEF Canonical, Touches
  <2> QED BY <2>2
<1> HIDE DEF claims
<1>5. DOMAIN store.marks = { Mark(e) : e \in claims }
  BY <1>3, <1>4
<1> QED BY <1>3, <1>5 DEF MarksAreCanonical, claims

(* MarksAreCanonical: when the reports are worked off, the spent marks are    *)
(* those of the canonical claims, whatever reorgs and restarts there were and *)
(* in either order of the reverts, provided that no two families ever have    *)
(* the same root.  The marks do not depend on the mirror, hence not on when   *)
(* reseed runs.                                                               *)
THEOREM MarksFollowClaims == RootsDiffer /\ Spec => []MarksAreCanonical
<1> SUFFICES ASSUME RootsDiffer PROVE Spec => []MarksAreCanonical
  OBVIOUS
<1>1. Init => MarksInv /\ ClaimsInv
  BY MarksInit
<1>2. CallsInv /\ ClaimsInv /\ MarksInv /\ [Next]_vars => MarksInv' /\ ClaimsInv'
  BY MarksNext, ClaimsNext
<1>3. CallsInv /\ MarksInv => MarksAreCanonical
  BY MarksFollow
<1> QED BY <1>1, <1>2, <1>3, ReportsFollowChain, PTL DEF Spec

---------------------------------------------------------------------------
(* The records served *)

(* AtPlaces is the only sequence that takes the elements one by one.          *)
LEMMA AtPlacesIs ==
  ASSUME NEW s, IsRow(s), NEW places, NEW g, Takes(g, s, places)
  PROVE  AtPlaces(s, places) = g[Len(s)]
<1>0. Len(s) \in Nat
  BY RowOf DEF IsRow
<1>1. PICK upTo : Takes(upTo, s, places) /\ AtPlaces(s, places) = upTo[Len(s)]
  BY AtPlacesTakes
<1> DEFINE Good == {n \in Nat : n <= Len(s) => upTo[n] = g[n]}
<1>2. 0 \in Good
  BY <1>1 DEF Takes
<1>3. ASSUME NEW n \in Nat, n \in Good PROVE n + 1 \in Good
  <2> SUFFICES ASSUME n + 1 <= Len(s) PROVE upTo[n + 1] = g[n + 1]
    OBVIOUS
  <2>1. n + 1 \in 1..Len(s) /\ (n + 1) - 1 = n /\ upTo[n] = g[n]
    BY <1>0, <1>3
  <2> QED BY <1>1, <2>1 DEF Takes
<1>4. Len(s) \in Good
  <2> HIDE DEF Good
  <2> QED BY <1>0, <1>2, <1>3, NatSetInduction
<1> QED BY <1>1, <1>4

(* How many elements Only has after the first ones of the sequence, and where *)
(* the next one goes.                                                         *)
Counts(count, row, s, kinds) ==
  /\ count[0] = 0 /\ count[Len(s)] = Len(row)
  /\ \A n \in 0..Len(s) : count[n] \in Nat
  /\ \A n \in 1..Len(s) :
       IF s[n].kind \in kinds
       THEN /\ count[n] = count[n - 1] + 1 /\ count[n] \in 1..Len(row)
            /\ row[count[n]] = s[n]
       ELSE count[n] = count[n - 1]

(* What Only has taken is counted along the sequence.                         *)
LEMMA OnlyCounts ==
  ASSUME NEW s, IsRow(s), NEW kinds
  PROVE  \E count : Counts(count, Only(s, kinds), s, kinds)
<1> DEFINE N == Len(s)
           places == { i \in 1..N : s[i].kind \in kinds }
<1>0. N \in Nat
  BY RowOf DEF IsRow
<1>1. \A n \in 1..N : n \in places <=> s[n].kind \in kinds
  OBVIOUS
<1>2. Only(s, kinds) = AtPlaces(s, places)
  BY DEF Only
<1> HIDE DEF places
<1>3. PICK upTo : Takes(upTo, s, places) /\ AtPlaces(s, places) = upTo[N]
  BY AtPlacesTakes
<1>4. /\ upTo[0] = <<>>
      /\ \A n \in 1..N :
           upTo[n] = IF s[n].kind \in kinds THEN Append(upTo[n - 1], s[n]) ELSE upTo[n - 1]
  BY <1>1, <1>3 DEF Takes
<1> DEFINE Into(m) ==
             /\ IsRow(upTo[m]) /\ Len(upTo[m]) \in Nat
             /\ \A n \in 0..m : Len(upTo[n]) \in Nat /\ Len(upTo[n]) <= Len(upTo[m])
             /\ \A n \in 1..m :
                  IF s[n].kind \in kinds
                  THEN /\ Len(upTo[n]) = Len(upTo[n - 1]) + 1
                       /\ upTo[m][Len(upTo[n])] = s[n]
                  ELSE Len(upTo[n]) = Len(upTo[n - 1])
           Good == {m \in Nat : m <= N => Into(m)}
<1>5. 0 \in Good
  <2>1. IsRow(<<>>) /\ Len(<<>>) = 0
    <3>1. <<>> \in Seq({})
      OBVIOUS
    <3> QED BY <3>1, RowOf
  <2>2. IsRow(upTo[0]) /\ Len(upTo[0]) = 0
    BY <1>4, <2>1
  <2>3. ASSUME NEW n \in 0..0 PROVE Len(upTo[n]) \in Nat /\ Len(upTo[n]) <= Len(upTo[0])
    <3>1. n = 0
      OBVIOUS
    <3> QED BY <2>2, <3>1
  <2>4. 1..0 = {}
    OBVIOUS
  <2>5. Into(0)
    BY <2>2, <2>3, <2>4
  <2> HIDE DEF Into
  <2> QED BY <2>5
<1>6. ASSUME NEW m \in Nat, m \in Good PROVE m + 1 \in Good
  <2> SUFFICES ASSUME m + 1 <= N PROVE Into(m + 1)
    OBVIOUS
  <2>1. Into(m)
    BY <1>0, <1>6
  <2>2. upTo[m + 1] = IF s[m + 1].kind \in kinds THEN Append(upTo[m], s[m + 1]) ELSE upTo[m]
    <3>1. m + 1 \in 1..N /\ (m + 1) - 1 = m
      BY <1>0
    <3> QED BY <1>4, <3>1
  <2>3. \A n \in 1..m : n \in 0..m /\ n - 1 \in 0..m
    OBVIOUS
  <2>4. (\A n \in 0..(m + 1) : n = m + 1 \/ n \in 0..m)
        /\ (\A n \in 1..(m + 1) : n = m + 1 \/ n \in 1..m)
    OBVIOUS
  <2>5. CASE s[m + 1].kind \in kinds
    <3> DEFINE u == upTo[m]
               v == upTo[m + 1]
    <3>1. v = Append(u, s[m + 1])
      BY <2>2, <2>5
    <3>2. IsRow(u)
      BY <2>1
    <3> HIDE DEF u, v
    <3>3. /\ IsRow(v) /\ Len(u) \in Nat /\ Len(v) = Len(u) + 1
          /\ v[Len(u) + 1] = s[m + 1]
          /\ \A i \in 1..Len(u) : v[i] = u[i]
      BY <3>1, <3>2, RowGrows
    <3>4. \A n \in 0..m : Len(upTo[n]) \in Nat /\ Len(upTo[n]) <= Len(u)
      BY <2>1 DEF u
    <3>5. ASSUME NEW n \in 1..m
          PROVE  IF s[n].kind \in kinds
                 THEN Len(upTo[n]) = Len(upTo[n - 1]) + 1 /\ v[Len(upTo[n])] = s[n]
                 ELSE Len(upTo[n]) = Len(upTo[n - 1])
      <4>1. IF s[n].kind \in kinds
            THEN Len(upTo[n]) = Len(upTo[n - 1]) + 1 /\ u[Len(upTo[n])] = s[n]
            ELSE Len(upTo[n]) = Len(upTo[n - 1])
        BY <2>1 DEF u
      <4>2. /\ Len(upTo[n]) \in Nat /\ Len(upTo[n]) <= Len(u)
            /\ Len(upTo[n - 1]) \in Nat
        BY <2>3, <3>4
      <4>3. CASE s[n].kind \in kinds
        <5>1. Len(upTo[n]) \in 1..Len(u)
          BY <3>3, <4>1, <4>2, <4>3
        <5> QED BY <3>3, <4>1, <4>3, <5>1
      <4> QED BY <4>1, <4>3
    <3>6. Len(v) \in Nat /\ \A n \in 0..(m + 1) : Len(upTo[n]) \in Nat /\ Len(upTo[n]) <= Len(v)
      <4>1. Len(v) \in Nat
        BY <3>3
      <4>2. \A n \in 0..m : Len(upTo[n]) \in Nat /\ Len(upTo[n]) <= Len(v)
        BY <3>3, <3>4
      <4>3. Len(upTo[m + 1]) \in Nat /\ Len(upTo[m + 1]) <= Len(v)
        BY <4>1 DEF v
      <4> QED BY <2>4, <4>1, <4>2, <4>3
    <3>7. Len(v) = Len(upTo[m]) + 1 /\ v[Len(v)] = s[m + 1] /\ v = upTo[m + 1] /\ (m + 1) - 1 = m
      BY <3>3 DEF u, v
    <3>8. \A n \in 1..(m + 1) :
            IF s[n].kind \in kinds
            THEN Len(upTo[n]) = Len(upTo[n - 1]) + 1 /\ v[Len(upTo[n])] = s[n]
            ELSE Len(upTo[n]) = Len(upTo[n - 1])
      BY <2>4, <2>5, <3>5, <3>7
    <3> QED BY <3>3, <3>6, <3>7, <3>8
  <2>6. CASE s[m + 1].kind \notin kinds
    <3>1. upTo[m + 1] = upTo[m] /\ (m + 1) - 1 = m
      BY <2>2, <2>6
    <3>2. IsRow(upTo[m + 1]) /\ Len(upTo[m + 1]) \in Nat
      BY <2>1, <3>1
    <3>3. \A n \in 0..(m + 1) : Len(upTo[n]) \in Nat /\ Len(upTo[n]) <= Len(upTo[m + 1])
      <4>1. \A n \in 0..m : Len(upTo[n]) \in Nat /\ Len(upTo[n]) <= Len(upTo[m])
        BY <2>1
      <4> HIDE DEF Into, Good
      <4> QED BY <2>4, <3>1, <3>2, <4>1
    <3>4. ASSUME NEW n \in 1..(m + 1)
          PROVE  IF s[n].kind \in kinds
                 THEN Len(upTo[n]) = Len(upTo[n - 1]) + 1 /\ upTo[m + 1][Len(upTo[n])] = s[n]
                 ELSE Len(upTo[n]) = Len(upTo[n - 1])
      <4>1. CASE n = m + 1
        BY <2>6, <3>1, <4>1
      <4>2. CASE n \in 1..m
        <5>1. IF s[n].kind \in kinds
              THEN Len(upTo[n]) = Len(upTo[n - 1]) + 1 /\ upTo[m][Len(upTo[n])] = s[n]
              ELSE Len(upTo[n]) = Len(upTo[n - 1])
          BY <2>1, <4>2
        <5> QED BY <3>1, <5>1
      <4> QED BY <2>4, <4>1, <4>2
    <3> QED BY <3>2, <3>3, <3>4
  <2> QED BY <2>5, <2>6
<1>7. N \in Good
  <2> HIDE DEF Good
  <2> QED BY <1>0, <1>5, <1>6, NatSetInduction
<1>8. Into(N)
  BY <1>7
<1> DEFINE count == [n \in 0..N |-> Len(upTo[n])]
<1>9. \A n \in 1..N : n \in 0..N /\ n - 1 \in 0..N
  BY <1>0
<1>10. \A n \in 0..N : count[n] = Len(upTo[n])
  OBVIOUS
<1>11. 0 \in 0..N /\ N \in 0..N /\ Len(upTo[0]) = 0
  BY <1>0, <1>4
<1> HIDE DEF count
<1>12. ASSUME NEW n \in 1..N
       PROVE  IF s[n].kind \in kinds
              THEN /\ count[n] = count[n - 1] + 1 /\ count[n] \in 1..Len(upTo[N])
                   /\ upTo[N][count[n]] = s[n]
              ELSE count[n] = count[n - 1]
  <2>1. /\ count[n] = Len(upTo[n]) /\ count[n - 1] = Len(upTo[n - 1])
        /\ count[n] \in Nat /\ count[n - 1] \in Nat /\ count[n] <= Len(upTo[N])
    BY <1>8, <1>9, <1>10
  <2>2. IF s[n].kind \in kinds
        THEN /\ Len(upTo[n]) = Len(upTo[n - 1]) + 1
             /\ upTo[N][Len(upTo[n])] = s[n]
        ELSE Len(upTo[n]) = Len(upTo[n - 1])
    BY <1>8
  <2>3. Len(upTo[N]) \in Nat
    BY <1>8
  <2> QED BY <2>1, <2>2, <2>3
<1>13. Counts(count, upTo[N], s, kinds)
  BY <1>8, <1>10, <1>11, <1>12 DEF Counts
<1> QED BY <1>2, <1>3, <1>13

(* What the chain says of a family after some of its claims: c[1], c[2], ...  *)
TreeSize(f) == Len(Leaves[f])
LeafSet(c, j) == { c[i].leaf : i \in 1..j }
Moves(f, j) == IF j < TreeSize(f) THEN j ELSE TreeSize(f) - 1
RootAt(f, c, j) == Root(Leaves[f], LeafSet(c, Moves(f, j)))
AnchorAt(paid, c, j) == IF j = 0 THEN paid ELSE c[j].tx
SpendOf(e) == [leaf_index |-> e.leaf, spend_txid |-> e.tx]
RecordAt(f, paid, c, j) ==
  [settlement_txid |-> AnchorAt(paid, c, Moves(f, j)), daa_score |-> paid,
   unclaimed |-> TreeSize(f) - j, leaves |-> Leaves[f],
   emptied |-> [i \in 1..j |-> SpendOf(c[i])]]

(* A claim of the next leaf after the ones before it.                         *)
ClaimFits(f, paid, c, i) ==
  /\ c[i].leaf \in 1..TreeSize(f)
  /\ \A k \in 1..(i - 1) : c[k].leaf # c[i].leaf
  /\ c[i].old_root = Root(Leaves[f], LeafSet(c, i - 1))
  /\ c[i].new_root = Root(Leaves[f], LeafSet(c, i))
  /\ c[i].spent_outpoint = AnchorAt(paid, c, i - 1)

ClaimsFit(f, paid, c) == IsRow(c) /\ \A i \in 1..Len(c) : ClaimFits(f, paid, c, i)

(* A tree has leaves.                                                         *)
LEMMA TreeIsNumber ==
  ASSUME NEW f \in Families
  PROVE  TreeSize(f) \in Nat \ {0}
BY ExitAssumption DEF TreeSize

(* Different claims empty different leaves, so the emptied leaves are as many *)
(* as the claims.                                                             *)
LEMMA LeavesOfClaims ==
  ASSUME NEW f \in Families, NEW paid, NEW c, ClaimsFit(f, paid, c), NEW j \in 0..Len(c)
  PROVE  /\ Len(c) \in Nat /\ j <= TreeSize(f)
         /\ LeafSet(c, j) \in SUBSET (1..TreeSize(f))
         /\ j < TreeSize(f) <=> LeafSet(c, j) # 1..TreeSize(f)
<1>0. Len(c) \in Nat
  BY RowOf DEF ClaimsFit, IsRow
<1> DEFINE size == TreeSize(f)
           leaf == [i \in 1..j |-> c[i].leaf]
<1>1. size \in Nat
  BY TreeIsNumber
<1>2. \A i \in 1..j : /\ i \in 1..Len(c) /\ c[i].leaf \in 1..size
                      /\ \A k \in 1..(i - 1) : c[k].leaf # c[i].leaf
  BY <1>0 DEF ClaimsFit, ClaimFits
<1>3. LeafSet(c, j) \in SUBSET (1..size)
  BY <1>2 DEF LeafSet
<1> HIDE DEF size
<1>4. leaf \in Injection(1..j, 1..size)
  <2>1. leaf \in [1..j -> 1..size]
    BY <1>2
  <2>2. ASSUME NEW a \in 1..j, NEW b \in 1..j, leaf[a] = leaf[b] PROVE a = b
    <3>1. a < b => a \in 1..(b - 1)
      OBVIOUS
    <3>2. b < a => b \in 1..(a - 1)
      OBVIOUS
    <3> QED BY <1>2, <2>2, <3>1, <3>2
  <2> HIDE DEF leaf
  <2> QED BY <2>1, <2>2 DEF Injection, IsInjective
<1>5. /\ IsFiniteSet(1..size) /\ Cardinality(1..size) = size
      /\ IsFiniteSet(1..j) /\ Cardinality(1..j) = j
  <2>1. \A n \in Nat : IsFiniteSet(1..n) /\ Cardinality(1..n) = n
    BY FS_Interval
  <2>2. j \in Nat
    OBVIOUS
  <2> QED BY <1>1, <2>1, <2>2
<1>6. j <= size /\ (j = size <=> leaf \in Surjection(1..j, 1..size))
  <2> HIDE DEF leaf
  <2> QED BY <1>4, <1>5, FS_Injection
<1>7. leaf \in Surjection(1..j, 1..size) <=> LeafSet(c, j) = 1..size
  <2>1. \A i \in 1..j : leaf[i] = c[i].leaf
    OBVIOUS
  <2>2. leaf \in [1..j -> 1..size]
    BY <1>2
  <2> HIDE DEF leaf
  <2> QED BY <1>3, <2>1, <2>2 DEF Surjection, LeafSet
<1> QED BY <1>0, <1>1, <1>3, <1>6, <1>7 DEF size

(* The leaves emptied tell how many claims there were.                        *)
LEMMA LeafSetTells ==
  ASSUME NEW f \in Families, NEW paid, NEW c, ClaimsFit(f, paid, c),
         NEW i \in 0..Len(c), NEW j \in 0..Len(c), LeafSet(c, i) = LeafSet(c, j)
  PROVE  i = j
<1>0. Len(c) \in Nat
  BY RowOf DEF ClaimsFit, IsRow
<1>1. ASSUME NEW a \in 0..Len(c), NEW b \in 0..Len(c), a < b PROVE LeafSet(c, a) # LeafSet(c, b)
  <2>1. b \in 1..b /\ b \in 1..Len(c) /\ \A k \in 1..a : k \in 1..(b - 1)
    BY <1>0, <1>1
  <2>2. c[b].leaf \in LeafSet(c, b)
    BY <2>1 DEF LeafSet
  <2>3. c[b].leaf \notin LeafSet(c, a)
    BY <2>1 DEF LeafSet, ClaimsFit, ClaimFits
  <2> QED BY <2>2, <2>3
<1> QED BY <1>0, <1>1

(* The place of a record is told by its root, except that the last claim      *)
(* leaves the root as it was.                                                 *)
LEMMA MovesFit ==
  ASSUME NEW f \in Families, NEW paid, NEW c, ClaimsFit(f, paid, c), NEW j \in 0..Len(c)
  PROVE  /\ Moves(f, j) \in 0..j /\ Moves(f, j) < TreeSize(f)
         /\ LeafSet(c, Moves(f, j)) \in SUBSET (1..TreeSize(f))
         /\ LeafSet(c, Moves(f, j)) # 1..TreeSize(f)
         /\ Moves(f, j) = j <=> j < TreeSize(f)
<1>1. /\ TreeSize(f) \in Nat \ {0} /\ j <= TreeSize(f) /\ Len(c) \in Nat
  BY TreeIsNumber, LeavesOfClaims
<1>2. Moves(f, j) \in 0..j /\ Moves(f, j) < TreeSize(f) /\ (Moves(f, j) = j <=> j < TreeSize(f))
  BY <1>1 DEF Moves
<1>3. Moves(f, j) \in 0..Len(c)
  BY <1>1, <1>2
<1> QED BY <1>2, <1>3, LeavesOfClaims

(* RootsTell, of the sizes of the trees.                                      *)
LEMMA RootTells ==
  ASSUME RootsTell, NEW f \in Families, NEW g \in Families
  PROVE  \A E \in SUBSET (1..TreeSize(f)), F \in SUBSET (1..TreeSize(g)) :
           (E # 1..TreeSize(f) /\ Root(Leaves[f], E) = Root(Leaves[g], F)) => f = g /\ E = F
BY DEF RootsTell, TreeSize

(* Families are told apart by their leaves.                                   *)
LEMMA LeavesTell ==
  ASSUME RootsTell, NEW f \in Families, NEW g \in Families, Leaves[f] = Leaves[g]
  PROVE  f = g
<1>1. 1 \in 1..Len(Leaves[f])
  BY ExitAssumption
<1>2. {} # 1..Len(Leaves[f]) /\ {} \in SUBSET (1..Len(Leaves[f]))
      /\ {} \in SUBSET (1..Len(Leaves[g]))
  BY <1>1
<1> QED BY <1>2 DEF RootsTell

(* The story of each family along the chain: whether it is settled, by which  *)
(* transaction, its claims, and the place of its newest transaction.          *)
NoStory == [settled |-> FALSE, paid |-> 0, claims |-> <<>>, at |-> 0]
Untold == [f \in Families |-> NoStory]

Told(v, e, n) ==
  [f \in Families |->
     IF e.kind = "Observed" \/ e.family # f THEN v[f]
     ELSE IF e.kind = "Exits"
     THEN [settled |-> TRUE, paid |-> e.tx, claims |-> <<>>, at |-> n]
     ELSE [settled |-> TRUE, paid |-> v[f].paid, claims |-> Append(v[f].claims, e), at |-> n]]

(* What L1 accepts after a story: a settlement of a family that is not        *)
(* settled, a claim that spends the permission output and empties a leaf.     *)
ClaimFollows(f, t, e) ==
  /\ t.settled
  /\ e.leaf \in 1..TreeSize(f) \ LeafSet(t.claims, Len(t.claims))
  /\ e.old_root = Root(Leaves[f], LeafSet(t.claims, Len(t.claims)))
  /\ e.new_root = Root(Leaves[f], LeafSet(t.claims, Len(t.claims)) \cup {e.leaf})
  /\ e.spent_outpoint = AnchorAt(t.paid, t.claims, Len(t.claims))

Follows(v, e) ==
  /\ e.kind \in {"Exits", "Observed", "Claim"}
  /\ e.kind # "Observed" => e.family \in Families
  /\ e.kind = "Exits" => ~v[e.family].settled
  /\ e.kind = "Claim" => ClaimFollows(e.family, v[e.family], e)

Stories(h, s) ==
  /\ h[0] = Untold
  /\ \A n \in 1..Len(s) : Follows(h[n - 1], s[n]) /\ h[n] = Told(h[n - 1], s[n], n)

StoryFits(f, t) ==
  /\ t.settled \in BOOLEAN
  /\ ~t.settled => t = NoStory
  /\ ClaimsFit(f, t.paid, t.claims)

Fits(v) == v = [f \in Families |-> v[f]] /\ \A f \in Families : StoryFits(f, v[f])

(* The empty sequence.                                                        *)
LEMMA NoClaims == IsRow(<<>>) /\ Len(<<>>) = 0
<1>1. <<>> \in Seq({})
  OBVIOUS
<1> QED BY <1>1, RowOf

(* Nothing is told of any family at first.                                    *)
LEMMA UntoldFits == Fits(Untold)
<1>1. \A f \in Families : Untold[f] = NoStory
  BY DEF Untold
<1>2. \A f \in Families : StoryFits(f, NoStory)
  BY NoClaims DEF StoryFits, NoStory, ClaimsFit
<1>3. Untold = [f \in Families |-> Untold[f]]
  BY DEF Untold
<1> QED BY <1>1, <1>2, <1>3 DEF Fits

(* A claim that follows the ones before it fits.                              *)
LEMMA ClaimsGrow ==
  ASSUME NEW f \in Families, NEW t, StoryFits(f, t), NEW e, ClaimFollows(f, t, e)
  PROVE  LET c == Append(t.claims, e)
         IN  /\ ClaimsFit(f, t.paid, c)
             /\ Len(t.claims) \in Nat /\ Len(c) = Len(t.claims) + 1
             /\ c[Len(t.claims) + 1] = e
             /\ \A i \in 1..Len(t.claims) : c[i] = t.claims[i]
             /\ LeafSet(c, Len(t.claims)) = LeafSet(t.claims, Len(t.claims))
             /\ LeafSet(c, Len(c)) = LeafSet(t.claims, Len(t.claims)) \cup {e.leaf}
<1> DEFINE d == t.claims
           c == Append(d, e)
           n == Len(d)
<1>1. IsRow(d) /\ \A i \in 1..n : ClaimFits(f, t.paid, d, i)
  BY DEF StoryFits, ClaimsFit
<1> HIDE DEF d
<1>2. /\ IsRow(c) /\ n \in Nat /\ Len(c) = n + 1 /\ c[n + 1] = e
      /\ \A i \in 1..n : c[i] = d[i]
  BY <1>1, RowGrows
<1> HIDE DEF c
<1>3. \A j \in 0..n : LeafSet(c, j) = LeafSet(d, j)
  <2> TAKE j \in 0..n
  <2>1. \A i \in 1..j : c[i] = d[i]
    BY <1>2
  <2> QED BY <2>1 DEF LeafSet
<1>4. LeafSet(c, n + 1) = LeafSet(d, n) \cup {e.leaf}
  <2>1. \A i : i \in 1..(n + 1) <=> i \in 1..n \/ i = n + 1
    BY <1>2
  <2>2. LeafSet(c, n + 1) = LeafSet(c, n) \cup {c[n + 1].leaf}
    BY <2>1 DEF LeafSet
  <2> QED BY <1>2, <1>3, <2>2
<1>5. ASSUME NEW j \in 0..n PROVE AnchorAt(t.paid, c, j) = AnchorAt(t.paid, d, j)
  <2>1. j # 0 => j \in 1..n
    BY <1>2
  <2> QED BY <1>2, <2>1 DEF AnchorAt
<1>6. ASSUME NEW i \in 1..n PROVE ClaimFits(f, t.paid, c, i)
  <2>1. ClaimFits(f, t.paid, d, i)
    BY <1>1
  <2>2. i - 1 \in 0..n /\ i \in 0..n /\ \A k \in 1..(i - 1) : k \in 1..n
    BY <1>2
  <2>3. c[i] = d[i] /\ \A k \in 1..(i - 1) : c[k] = d[k]
    BY <1>2, <2>2
  <2>4. /\ LeafSet(c, i - 1) = LeafSet(d, i - 1) /\ LeafSet(c, i) = LeafSet(d, i)
        /\ AnchorAt(t.paid, c, i - 1) = AnchorAt(t.paid, d, i - 1)
    BY <1>3, <1>5, <2>2
  <2> QED BY <2>1, <2>3, <2>4 DEF ClaimFits
<1>7. ClaimFits(f, t.paid, c, n + 1)
  <2>1. (n + 1) - 1 = n /\ n \in 0..n
    BY <1>2
  <2>2. /\ e.leaf \in 1..TreeSize(f) /\ e.leaf \notin LeafSet(d, n)
        /\ e.old_root = Root(Leaves[f], LeafSet(d, n))
        /\ e.new_root = Root(Leaves[f], LeafSet(d, n) \cup {e.leaf})
        /\ e.spent_outpoint = AnchorAt(t.paid, d, n)
    BY DEF ClaimFollows, d
  <2>3. \A k \in 1..n : c[k].leaf # e.leaf
    BY <1>3, <2>1, <2>2 DEF LeafSet
  <2>4. LeafSet(c, n) = LeafSet(d, n) /\ AnchorAt(t.paid, c, n) = AnchorAt(t.paid, d, n)
    BY <1>3, <1>5, <2>1
  <2> HIDE DEF n
  <2> QED BY <1>2, <1>4, <2>1, <2>2, <2>3, <2>4 DEF ClaimFits
<1>8. \A i \in 1..Len(c) : i \in 1..n \/ i = n + 1
  BY <1>2
<1>9. ClaimsFit(f, t.paid, c)
  BY <1>2, <1>6, <1>7, <1>8 DEF ClaimsFit
<1>10. LeafSet(c, n) = LeafSet(d, n)
  BY <1>2, <1>3
<1> QED BY <1>2, <1>4, <1>9, <1>10 DEF c, d

(* Stories keep their form.                                                   *)
LEMMA ToldFits ==
  ASSUME NEW v, Fits(v), NEW e, Follows(v, e), NEW n
  PROVE  Fits(Told(v, e, n))
<1> DEFINE w == Told(v, e, n)
<1>1. w = [f \in Families |-> w[f]]
  BY DEF Told
<1>2. ASSUME NEW f \in Families PROVE StoryFits(f, w[f])
  <2>0. StoryFits(f, v[f])
    BY DEF Fits
  <2>1. CASE e.kind = "Observed" \/ e.family # f
    BY <2>0, <2>1 DEF Told
  <2>2. CASE e.kind = "Exits" /\ e.family = f
    <3>1. w[f] = [settled |-> TRUE, paid |-> e.tx, claims |-> <<>>, at |-> n]
      BY <2>2 DEF Told
    <3> HIDE DEF w
    <3> QED BY <3>1, NoClaims DEF StoryFits, ClaimsFit
  <2>3. CASE e.kind = "Claim" /\ e.family = f
    <3>1. w[f] = [settled |-> TRUE, paid |-> v[f].paid, claims |-> Append(v[f].claims, e), at |-> n]
      BY <2>3 DEF Told
    <3>2. ClaimFollows(f, v[f], e)
      BY <2>3 DEF Follows
    <3>3. ClaimsFit(f, v[f].paid, Append(v[f].claims, e))
      BY <2>0, <3>2, ClaimsGrow
    <3> HIDE DEF w
    <3> QED BY <3>1, <3>3 DEF StoryFits
  <2> QED BY <2>1, <2>2, <2>3 DEF Follows
<1> HIDE DEF w
<1>3. Fits(w)
  BY <1>1, <1>2 DEF Fits
<1> QED BY <1>3 DEF w

(* A story only goes on.                                                      *)
GoesOn(t, x) ==
  /\ x.settled /\ x.paid = t.paid
  /\ Len(t.claims) <= Len(x.claims)
  /\ \A i \in 1..Len(t.claims) : x.claims[i] = t.claims[i]

Before(u, w) == \A f \in Families : u[f].settled => GoesOn(u[f], w[f])

(* What is told comes after what was told.                                    *)
LEMMA ToldIsAfter ==
  ASSUME NEW v, Fits(v), NEW e, Follows(v, e), NEW n
  PROVE  Before(v, Told(v, e, n))
<1> SUFFICES ASSUME NEW f \in Families, v[f].settled PROVE GoesOn(v[f], Told(v, e, n)[f])
  BY DEF Before
<1>0. StoryFits(f, v[f]) /\ Len(v[f].claims) \in Nat
  BY RowOf DEF Fits, StoryFits, ClaimsFit, IsRow
<1>1. CASE e.kind = "Observed" \/ e.family # f
  <2>1. Told(v, e, n)[f] = v[f]
    BY <1>1 DEF Told
  <2> QED BY <1>0, <2>1 DEF GoesOn
<1>2. CASE e.kind = "Claim" /\ e.family = f
  <2>1. Told(v, e, n)[f] =
          [settled |-> TRUE, paid |-> v[f].paid, claims |-> Append(v[f].claims, e), at |-> n]
    BY <1>2 DEF Told
  <2>2. ClaimFollows(f, v[f], e)
    BY <1>2 DEF Follows
  <2>3. /\ Len(Append(v[f].claims, e)) = Len(v[f].claims) + 1
        /\ \A i \in 1..Len(v[f].claims) : Append(v[f].claims, e)[i] = v[f].claims[i]
    BY <1>0, <2>2, ClaimsGrow
  <2> QED BY <1>0, <2>1, <2>3 DEF GoesOn
<1> QED BY <1>1, <1>2 DEF Follows

(* Before is reflexive and transitive.                                        *)
LEMMA BeforeIsOrder ==
  ASSUME NEW u, Fits(u), NEW v, Fits(v), NEW w, Fits(w)
  PROVE  Before(u, u) /\ (Before(u, v) /\ Before(v, w) => Before(u, w))
<1>1. ASSUME NEW f \in Families
      PROVE  /\ Len(u[f].claims) \in Nat /\ Len(v[f].claims) \in Nat /\ Len(w[f].claims) \in Nat
             /\ u[f].settled \in BOOLEAN
  BY RowOf DEF Fits, StoryFits, ClaimsFit, IsRow
<1>2. Before(u, u)
  BY <1>1 DEF Before, GoesOn
<1>3. ASSUME Before(u, v), Before(v, w), NEW f \in Families, u[f].settled
      PROVE  GoesOn(u[f], w[f])
  <2>1. GoesOn(u[f], v[f]) /\ GoesOn(v[f], w[f])
    BY <1>3 DEF Before, GoesOn
  <2>2. /\ w[f].settled /\ w[f].paid = u[f].paid
        /\ Len(u[f].claims) <= Len(w[f].claims)
        /\ \A i \in 1..Len(u[f].claims) : i \in 1..Len(v[f].claims)
    BY <1>1, <2>1 DEF GoesOn
  <2>3. \A i \in 1..Len(u[f].claims) : w[f].claims[i] = u[f].claims[i]
    BY <2>1, <2>2 DEF GoesOn
  <2> QED BY <2>2, <2>3 DEF GoesOn
<1> QED BY <1>2, <1>3 DEF Before

(* Each moment of the stories fits, and comes before the later ones.          *)
LEMMA StoriesFit ==
  ASSUME NEW s, Len(s) \in Nat, NEW h, Stories(h, s), NEW n \in 0..Len(s)
  PROVE  Fits(h[n])
<1> DEFINE Good == {k \in Nat : k <= Len(s) => Fits(h[k])}
<1>1. 0 \in Good
  BY UntoldFits DEF Stories
<1>2. ASSUME NEW k \in Nat, k \in Good PROVE k + 1 \in Good
  <2> SUFFICES ASSUME k + 1 <= Len(s) PROVE Fits(h[k + 1])
    OBVIOUS
  <2>1. Fits(h[k]) /\ k + 1 \in 1..Len(s) /\ (k + 1) - 1 = k
    BY <1>2
  <2>2. Follows(h[k], s[k + 1]) /\ h[k + 1] = Told(h[k], s[k + 1], k + 1)
    BY <2>1 DEF Stories
  <2> QED BY <2>1, <2>2, ToldFits
<1>3. n \in Good
  <2> HIDE DEF Good
  <2> QED BY <1>1, <1>2, NatSetInduction
<1> QED BY <1>3

LEMMA StoriesGoOn ==
  ASSUME NEW s, Len(s) \in Nat, NEW h, Stories(h, s), NEW a \in 0..Len(s), NEW b \in a..Len(s)
  PROVE  Before(h[a], h[b])
<1> DEFINE Good == {k \in Nat : a + k <= Len(s) => Before(h[a], h[a + k])}
<1>0. a \in Nat /\ Fits(h[a])
  BY StoriesFit
<1>1. 0 \in Good
  <2>1. a + 0 = a
    BY <1>0
  <2> QED BY <1>0, <2>1, BeforeIsOrder
<1>2. ASSUME NEW k \in Nat, k \in Good PROVE k + 1 \in Good
  <2> SUFFICES ASSUME a + (k + 1) <= Len(s) PROVE Before(h[a], h[a + (k + 1)])
    OBVIOUS
  <2> DEFINE m == a + (k + 1)
  <2>1. m \in 1..Len(s) /\ m - 1 = a + k /\ m - 1 \in 0..Len(s) /\ a + k <= Len(s)
        /\ m \in 0..Len(s)
    BY <1>0
  <2> HIDE DEF m
  <2>2. Before(h[a], h[m - 1])
    BY <1>2, <2>1
  <2>3. Follows(h[m - 1], s[m]) /\ h[m] = Told(h[m - 1], s[m], m)
    BY <2>1 DEF Stories
  <2>4. Fits(h[m - 1]) /\ Fits(h[m])
    BY <2>1, StoriesFit
  <2>5. Before(h[m - 1], h[m])
    BY <2>3, <2>4, ToldIsAfter
  <2>6. Before(h[a], h[m])
    BY <1>0, <2>2, <2>4, <2>5, BeforeIsOrder
  <2> QED BY <2>6 DEF m
<1>3. b - a \in Good
  <2>1. b - a \in Nat
    BY <1>0
  <2> HIDE DEF Good
  <2> QED BY <1>1, <1>2, <2>1, NatSetInduction
<1>4. a + (b - a) = b
  BY <1>0
<1> QED BY <1>3, <1>4

(* What the chain's first transactions say of a family and its story.         *)
Of(e, f) == e.kind # "Observed" /\ e.family = f
SettledBy(e, f) == e.kind = "Exits" /\ e.family = f

TellsOf(f, t, s, n) ==
  /\ t.settled <=> \E i \in 1..n : SettledBy(s[i], f)
  /\ \A i \in 1..n : SettledBy(s[i], f) => s[i].tx = t.paid
  /\ \A leaf : leaf \in LeafSet(t.claims, Len(t.claims)) <=>
                 \E i \in 1..n : IsClaim(s[i], f) /\ s[i].leaf = leaf
  /\ t.settled => /\ t.at \in 1..n /\ Of(s[t.at], f)
                  /\ \A i \in 1..n : Of(s[i], f) => i <= t.at
                  /\ s[t.at].tx = AnchorAt(t.paid, t.claims, Len(t.claims))

Tells(v, s, n) == \A f \in Families : TellsOf(f, v[f], s, n)

(* The stories say what the transactions say.                                 *)
LEMMA TellsOn ==
  ASSUME NEW v, Fits(v), NEW s, NEW n \in Nat, Tells(v, s, n), NEW e, s[n + 1] = e, Follows(v, e)
  PROVE  Tells(Told(v, e, n + 1), s, n + 1)
<1> DEFINE w == Told(v, e, n + 1)
<1> SUFFICES Tells(w, s, n + 1)
  OBVIOUS
<1> HIDE DEF w
<1> SUFFICES ASSUME NEW f \in Families PROVE TellsOf(f, w[f], s, n + 1)
  BY Zenon DEF Tells
<1> DEFINE t == v[f]
           x == w[f]
<1> SUFFICES TellsOf(f, x, s, n + 1)
  OBVIOUS
<1>1. /\ StoryFits(f, t) /\ TellsOf(f, t, s, n)
      /\ IsRow(t.claims) /\ Len(t.claims) \in Nat /\ t.settled \in BOOLEAN
  BY RowOf DEF Fits, Tells, StoryFits, ClaimsFit, IsRow
<1>2. /\ \A i \in 1..(n + 1) : i \in 1..n \/ i = n + 1
      /\ \A i \in 1..n : i \in 1..(n + 1) /\ i <= n + 1
      /\ n + 1 \in 1..(n + 1) /\ n + 1 <= n + 1
  OBVIOUS
<1>3. CASE e.kind = "Observed" \/ e.family # f
  <2>1. x = t
    BY <1>3 DEF Told, w
  <2>2. ~Of(e, f) /\ ~SettledBy(e, f) /\ ~IsClaim(e, f)
    BY <1>3 DEF Of, SettledBy, IsClaim
  <2> HIDE DEF x, t
  <2>3. (\E i \in 1..(n + 1) : SettledBy(s[i], f)) <=> \E i \in 1..n : SettledBy(s[i], f)
    BY <1>2, <2>2
  <2>4. \A leaf : (\E i \in 1..(n + 1) : IsClaim(s[i], f) /\ s[i].leaf = leaf) <=>
                    \E i \in 1..n : IsClaim(s[i], f) /\ s[i].leaf = leaf
    BY <1>2, <2>2
  <2>5. t.settled => /\ t.at \in 1..(n + 1) /\ Of(s[t.at], f)
                     /\ \A i \in 1..(n + 1) : Of(s[i], f) => i <= t.at
                     /\ s[t.at].tx = AnchorAt(t.paid, t.claims, Len(t.claims))
    BY <1>1, <1>2, <2>2 DEF TellsOf
  <2>6. \A i \in 1..(n + 1) : SettledBy(s[i], f) => s[i].tx = t.paid
    BY <1>1, <1>2, <2>2 DEF TellsOf
  <2>7. t.settled <=> \E i \in 1..(n + 1) : SettledBy(s[i], f)
    BY <1>1, <2>3 DEF TellsOf
  <2>8. \A leaf : leaf \in LeafSet(t.claims, Len(t.claims)) <=>
                    \E i \in 1..(n + 1) : IsClaim(s[i], f) /\ s[i].leaf = leaf
    BY <1>1, <2>4 DEF TellsOf
  <2>9. TellsOf(f, t, s, n + 1)
    BY <2>5, <2>6, <2>7, <2>8 DEF TellsOf
  <2> QED BY <2>1, <2>9
<1>4. CASE e.kind = "Exits" /\ e.family = f
  <2>1. x = [settled |-> TRUE, paid |-> e.tx, claims |-> <<>>, at |-> n + 1]
    BY <1>4 DEF Told, w
  <2>2. ~t.settled /\ t = NoStory
    BY <1>1, <1>4 DEF Follows, StoryFits
  <2>3. Of(e, f) /\ SettledBy(e, f) /\ ~IsClaim(e, f)
    BY <1>4 DEF Of, SettledBy, IsClaim
  <2> HIDE DEF x
  <2>4. LeafSet(t.claims, Len(t.claims)) = {} /\ LeafSet(x.claims, Len(x.claims)) = {}
    BY <2>1, <2>2, NoClaims DEF LeafSet, NoStory
  <2>5. AnchorAt(x.paid, x.claims, Len(x.claims)) = e.tx
    BY <2>1, NoClaims DEF AnchorAt
  <2> HIDE DEF t
  <2>6. x.settled = TRUE /\ x.paid = e.tx /\ x.at = n + 1
    BY <2>1
  <2>7. \A i \in 1..n : ~SettledBy(s[i], f)
    BY <1>1, <2>2 DEF TellsOf
  <2>8. \A leaf : \A i \in 1..(n + 1) : ~(IsClaim(s[i], f) /\ s[i].leaf = leaf)
    BY <1>1, <1>2, <2>3, <2>4 DEF TellsOf
  <2>9. \E i \in 1..(n + 1) : SettledBy(s[i], f)
    BY <1>2, <2>3
  <2>10. \A i \in 1..(n + 1) : SettledBy(s[i], f) => s[i].tx = e.tx
    BY <1>2, <2>7
  <2>11. \A i \in 1..(n + 1) : i <= n + 1
    BY <1>2
  <2>12. \A leaf : leaf \in LeafSet(x.claims, Len(x.claims)) <=>
                     \E i \in 1..(n + 1) : IsClaim(s[i], f) /\ s[i].leaf = leaf
    BY <2>4, <2>8
  <2> QED BY <1>2, <2>3, <2>5, <2>6, <2>9, <2>10, <2>11, <2>12 DEF TellsOf
<1>5. CASE e.kind = "Claim" /\ e.family = f
  <2> DEFINE c == Append(t.claims, e)
  <2>1. x = [settled |-> TRUE, paid |-> t.paid, claims |-> c, at |-> n + 1]
    BY <1>5 DEF Told, w
  <2>2. ClaimFollows(f, t, e) /\ t.settled
    BY <1>5 DEF Follows, ClaimFollows
  <2>3. Of(e, f) /\ ~SettledBy(e, f) /\ IsClaim(e, f)
    BY <1>5 DEF Of, SettledBy, IsClaim
  <2> HIDE DEF t, x
  <2>4. /\ Len(c) = Len(t.claims) + 1 /\ c[Len(t.claims) + 1] = e
        /\ LeafSet(c, Len(c)) = LeafSet(t.claims, Len(t.claims)) \cup {e.leaf}
    BY <1>1, <2>2, ClaimsGrow
  <2> HIDE DEF c
  <2>5. AnchorAt(t.paid, c, Len(c)) = e.tx
    BY <1>1, <2>4 DEF AnchorAt
  <2>6. x.settled = TRUE /\ x.paid = t.paid /\ x.at = n + 1 /\ x.claims = c
    BY <2>1
  <2>7. \A leaf : leaf \in LeafSet(c, Len(c)) <=>
                    \E i \in 1..(n + 1) : IsClaim(s[i], f) /\ s[i].leaf = leaf
    <3> TAKE leaf
    <3>1. leaf \in LeafSet(t.claims, Len(t.claims)) <=>
            \E i \in 1..n : IsClaim(s[i], f) /\ s[i].leaf = leaf
      BY <1>1 DEF TellsOf
    <3>2. (\E i \in 1..(n + 1) : IsClaim(s[i], f) /\ s[i].leaf = leaf) <=>
            (e.leaf = leaf \/ \E i \in 1..n : IsClaim(s[i], f) /\ s[i].leaf = leaf)
      BY <1>2, <2>3
    <3> QED BY <2>4, <3>1, <3>2
  <2>8. \E i \in 1..(n + 1) : SettledBy(s[i], f)
    BY <1>1, <1>2, <2>2 DEF TellsOf
  <2>9. \A i \in 1..(n + 1) : SettledBy(s[i], f) => s[i].tx = t.paid
    BY <1>1, <1>2, <2>3 DEF TellsOf
  <2>10. \A i \in 1..(n + 1) : i <= n + 1
    BY <1>2
  <2> QED BY <1>2, <2>3, <2>5, <2>6, <2>7, <2>8, <2>9, <2>10 DEF TellsOf
<1> QED BY <1>3, <1>4, <1>5 DEF Follows

LEMMA StoriesTell ==
  ASSUME NEW s, Len(s) \in Nat, NEW h, Stories(h, s), NEW n \in 0..Len(s)
  PROVE  Tells(h[n], s, n)
<1> DEFINE Good == {k \in Nat : k <= Len(s) => Tells(h[k], s, k)}
<1>1. 0 \in Good
  <2> SUFFICES ASSUME NEW f \in Families PROVE TellsOf(f, h[0][f], s, 0)
    BY DEF Tells
  <2>1. h[0][f] = NoStory
    BY DEF Stories, Untold
  <2>2. NoStory.settled = FALSE /\ LeafSet(NoStory.claims, Len(NoStory.claims)) = {}
    BY NoClaims DEF NoStory, LeafSet
  <2> QED BY <2>1, <2>2 DEF TellsOf
<1>2. ASSUME NEW k \in Nat, k \in Good PROVE k + 1 \in Good
  <2> SUFFICES ASSUME k + 1 <= Len(s) PROVE Tells(h[k + 1], s, k + 1)
    OBVIOUS
  <2>1. Tells(h[k], s, k) /\ k + 1 \in 1..Len(s) /\ (k + 1) - 1 = k /\ k \in 0..Len(s)
    BY <1>2
  <2>2. Follows(h[k], s[k + 1]) /\ h[k + 1] = Told(h[k], s[k + 1], k + 1)
    BY <2>1 DEF Stories
  <2>3. Fits(h[k])
    BY <2>1, StoriesFit
  <2> QED BY <2>1, <2>2, <2>3, TellsOn
<1>3. n \in Good
  <2> HIDE DEF Good
  <2> QED BY <1>1, <1>2, NatSetInduction
<1> QED BY <1>3

(* A record of the family at its place in the story.                          *)
Stands(r, rec, f, t, j) ==
  /\ t.settled
  /\ r = RootAt(f, t.claims, j) /\ rec = RecordAt(f, t.paid, t.claims, j)

(* The records between two moments of the stories: each stands somewhere      *)
(* between them, and none of the families settled by the first is missing.    *)
(* After a report made again a family may have several.                       *)
Between(map, u, w) ==
  /\ \A r \in DOMAIN map :
       \E f \in Families : \E j \in Len(u[f].claims)..Len(w[f].claims) :
         Stands(r, map[r], f, w[f], j)
  /\ \A f \in Families : u[f].settled => \E r \in DOMAIN map : map[r].leaves = Leaves[f]

(* The claims of a story are a sequence that fits.                            *)
LEMMA StoryNumbers ==
  ASSUME NEW v, Fits(v), NEW f \in Families
  PROVE  /\ ClaimsFit(f, v[f].paid, v[f].claims) /\ Len(v[f].claims) \in Nat
         /\ v[f].settled \in BOOLEAN
         /\ ~v[f].settled => v[f] = NoStory /\ Len(v[f].claims) = 0
<1>1. StoryFits(f, v[f])
  BY DEF Fits
<1>2. NoStory.claims = <<>>
  BY DEF NoStory
<1> QED BY <1>1, <1>2, RowOf, NoClaims DEF StoryFits, ClaimsFit, IsRow

(* A place of a story is the same in what the story goes on to be.            *)
LEMMA SamePlace ==
  ASSUME NEW u, Fits(u), NEW w, Fits(w), NEW f \in Families, GoesOn(u[f], w[f]),
         NEW j \in 0..Len(u[f].claims)
  PROVE  /\ RootAt(f, w[f].claims, j) = RootAt(f, u[f].claims, j)
         /\ RecordAt(f, w[f].paid, w[f].claims, j) = RecordAt(f, u[f].paid, u[f].claims, j)
         /\ LeafSet(w[f].claims, j) = LeafSet(u[f].claims, j)
<1> DEFINE c == u[f].claims
           d == w[f].claims
           m == Moves(f, j)
<1>1. ClaimsFit(f, u[f].paid, c) /\ Len(c) \in Nat
  BY StoryNumbers
<1>2. /\ w[f].paid = u[f].paid
      /\ \A i \in 1..Len(c) : d[i] = c[i]
  BY DEF GoesOn
<1> HIDE DEF c, d
<1>3. m \in 0..j
  BY <1>1, MovesFit DEF c
<1> HIDE DEF m
<1>4. \A k \in 0..j : LeafSet(d, k) = LeafSet(c, k)
  <2> TAKE k \in 0..j
  <2>1. \A i \in 1..k : i \in 1..Len(c)
    BY <1>1 DEF c
  <2> QED BY <1>2, <2>1 DEF LeafSet
<1>5. AnchorAt(w[f].paid, d, m) = AnchorAt(u[f].paid, c, m)
  <2>1. m # 0 => m \in 1..Len(c)
    BY <1>1, <1>3 DEF c
  <2> QED BY <1>2, <2>1 DEF AnchorAt
<1>6. [i \in 1..j |-> SpendOf(d[i])] = [i \in 1..j |-> SpendOf(c[i])]
  <2>1. \A i \in 1..j : i \in 1..Len(c)
    BY <1>1 DEF c
  <2> QED BY <1>2, <2>1
<1>7. j \in 0..j
  BY <1>1 DEF c
<1> QED BY <1>2, <1>3, <1>4, <1>5, <1>6, <1>7 DEF RootAt, RecordAt, m, c, d

(* Records between two moments are between an earlier and a later one.        *)
LEMMA BetweenWidens ==
  ASSUME NEW u, Fits(u), NEW w, Fits(w), NEW x, Fits(x), NEW y, Fits(y),
         NEW map, Between(map, u, w), Before(x, u), Before(w, y)
  PROVE  Between(map, x, y)
<1>1. ASSUME NEW r \in DOMAIN map
      PROVE  \E f \in Families : \E j \in Len(x[f].claims)..Len(y[f].claims) :
               Stands(r, map[r], f, y[f], j)
  <2>1. PICK f \in Families : \E j \in Len(u[f].claims)..Len(w[f].claims) :
               Stands(r, map[r], f, w[f], j)
    BY DEF Between
  <2>2. PICK j \in Len(u[f].claims)..Len(w[f].claims) : Stands(r, map[r], f, w[f], j)
    BY <2>1
  <2>3. /\ Len(u[f].claims) \in Nat /\ Len(w[f].claims) \in Nat
        /\ Len(x[f].claims) \in Nat /\ Len(y[f].claims) \in Nat
    BY StoryNumbers
  <2>4. GoesOn(w[f], y[f])
    BY <2>2 DEF Before, Stands
  <2>5. Len(x[f].claims) <= Len(u[f].claims)
    <3>1. CASE x[f].settled
      BY <3>1 DEF Before, GoesOn
    <3>2. CASE ~x[f].settled
      BY <2>3, <3>2, StoryNumbers
    <3> QED BY <3>1, <3>2
  <2>6. j \in 0..Len(w[f].claims)
    BY <2>3
  <2>7. Stands(r, map[r], f, y[f], j)
    BY <2>2, <2>4, <2>6, SamePlace DEF Stands, GoesOn
  <2>8. j \in Len(x[f].claims)..Len(y[f].claims)
    <3>1. Len(w[f].claims) <= Len(y[f].claims)
      BY <2>4 DEF GoesOn
    <3> DEFINE a == Len(u[f].claims)
               b == Len(w[f].claims)
               c == Len(x[f].claims)
               d == Len(y[f].claims)
    <3>2. a \in Nat /\ b \in Nat /\ c \in Nat /\ d \in Nat /\ j \in a..b /\ c <= a /\ b <= d
      BY <2>3, <2>5, <3>1
    <3> HIDE DEF a, b, c, d
    <3>3. j \in c..d
      BY <3>2
    <3> QED BY <3>3 DEF c, d
  <2> QED BY <2>7, <2>8
<1>2. ASSUME NEW f \in Families, x[f].settled
      PROVE  \E r \in DOMAIN map : map[r].leaves = Leaves[f]
  BY <1>2 DEF Between, Before, GoesOn
<1> QED BY <1>1, <1>2 DEF Between

(* What a hook does to the records.                                           *)
Bears(map, root, e) == root \in DOMAIN map /\ WasSpent(map[root], e)
Lives(map, f) == { r \in DOMAIN map : map[r].leaves = Leaves[f] }

SpentEffect(map, e, out) ==
  \/ e.old_root \notin DOMAIN map /\ out = Drop(map, e.old_root)
  \/ /\ e.old_root \in DOMAIN map
     /\ LET rec == map[e.old_root]
        IN  \/ (rec.unclaimed = 0 \/ Holds(rec, e.leaf)) /\ out = map
            \/ rec.unclaimed > 1 /\ ~Holds(rec, e.leaf) /\ out = Moved(map, e, Advanced(rec, e))
            \/ /\ rec.unclaimed = 1 /\ ~Holds(rec, e.leaf)
               /\ out = Put(map, e.old_root, EmptiedBy(rec, e))

UnspentEffect(map, e, out) ==
  \/ ~Bears(map, e.old_root, e) /\ ~Bears(map, e.new_root, e) /\ out = map
  \/ Bears(map, e.old_root, e) /\ out = Put(map, e.old_root, Restored(map[e.old_root], e))
  \/ /\ ~Bears(map, e.old_root, e) /\ Bears(map, e.new_root, e)
     /\ out = Put(Drop(map, e.new_root), e.old_root, Rewound(map[e.new_root], e))

UnsettledEffect(map, e, out) ==
  \E key \in IF Lives(map, e.family) = {} THEN { FreshRoot(e.family) } ELSE Lives(map, e.family) :
    out = Drop(map, key)

ApplyEffect(map, e, out) ==
  \/ e.kind = "Exits" /\ out = Put(map, FreshRoot(e.family), RecordFor(e))
  \/ e.kind = "Observed" /\ out = map
  \/ e.kind = "Claim" /\ SpentEffect(map, e, out)

RevertEffect(map, e, out) ==
  \/ e.kind = "Exits" /\ UnsettledEffect(map, e, out)
  \/ e.kind = "Observed" /\ out = map
  \/ e.kind = "Claim" /\ UnspentEffect(map, e, out)

Effect(map, call, out) ==
  IF call.hook = "apply" THEN ApplyEffect(map, call.tx, out) ELSE RevertEffect(map, call.tx, out)

(* The write batch of a hook holds the records after its effect.              *)
LEMMA HookHasEffect ==
  ASSUME MirrorInv, SeedFirst, Hook
  PROVE  Effect(store.records, Head(calls), batch'.records)
<1> DEFINE e == Head(calls).tx
           out == batch'.records
<1>1. store.records = records
  BY DEF Hook, MirrorInv, MirrorIsStore
<1>2. ASSUME OnExitsCommitted(e) \/ OnExitsRecommitted(e)
      PROVE  out = Put(records, FreshRoot(e.family), RecordFor(e))
  BY <1>1, <1>2 DEF OnExitsCommitted, OnExitsRecommitted, Write
<1>3. ASSUME OnSettlementObserved(e) PROVE out = records
  BY <1>1, <1>3 DEF OnSettlementObserved, Write
<1>4. ASSUME OnPermissionSpent(e) PROVE SpentEffect(records, e, out)
  BY <1>1, <1>4 DEF OnPermissionSpent, Write, SpentEffect
<1>5. ASSUME OnExitsReverted(e) PROVE UnsettledEffect(records, e, out)
  BY <1>1, <1>5 DEF OnExitsReverted, Write, UnsettledEffect, Lives, LiveRoots
<1>6. ASSUME Write(store.records, store.marks, store.latest) PROVE out = records
  BY <1>1, <1>6 DEF Write
<1>7. ASSUME OnPermissionSpendReverted(e) PROVE UnspentEffect(records, e, out)
  BY <1>1, <1>7 DEF OnPermissionSpendReverted, Write, UnspentEffect, Bears, Carries
<1> HIDE DEF out
<1>8. CASE Head(calls).hook = "apply"
  <2>1. \/ e.kind = "Exits" /\ (OnExitsCommitted(e) \/ OnExitsRecommitted(e))
        \/ e.kind = "Observed" /\ OnSettlementObserved(e)
        \/ e.kind = "Claim" /\ OnPermissionSpent(e)
    BY <1>8 DEF Hook
  <2> HIDE DEF e
  <2>2. ApplyEffect(records, e, out)
    BY <1>2, <1>3, <1>4, <2>1 DEF ApplyEffect
  <2> QED BY <1>1, <1>8, <2>2 DEF Effect, e, out
<1>9. CASE Head(calls).hook # "apply"
  <2>1. \/ e.kind = "Exits" /\ OnExitsReverted(e)
        \/ e.kind = "Observed" /\ Write(store.records, store.marks, store.latest)
        \/ e.kind = "Claim" /\ OnPermissionSpendReverted(e)
    BY <1>9 DEF Hook
  <2> HIDE DEF e
  <2>2. RevertEffect(records, e, out)
    BY <1>5, <1>6, <1>7, <2>1 DEF RevertEffect
  <2> QED BY <1>1, <1>9, <2>2 DEF Effect, e, out
<1> QED BY <1>8, <1>9

LEMMA RowsAgree ==
  ASSUME NEW s, IsRow(s), NEW t, IsRow(t), Len(s) = Len(t), \A i \in 1..Len(s) : s[i] = t[i]
  PROVE  s = t
<1>1. s = [i \in 1..Len(s) |-> s[i]]
  BY DEF IsRow
<1>2. t = [i \in 1..Len(t) |-> t[i]]
  BY DEF IsRow
<1> QED BY <1>1, <1>2

(* The spends of a record are a row.                                          *)
LEMMA SpendsRow ==
  ASSUME NEW c, NEW j \in Nat
  PROVE  LET s == [i \in 1..j |-> SpendOf(c[i])]
         IN  IsRow(s) /\ Len(s) = j /\ \A i \in 1..j : s[i] = SpendOf(c[i])
<1> DEFINE s == [i \in 1..j |-> SpendOf(c[i])]
<1>1. s = [i \in 1..j |-> s[i]]
  OBVIOUS
<1>2. \A i \in 1..j : s[i] = SpendOf(c[i])
  OBVIOUS
<1> HIDE DEF s
<1>3. IsRow(s) /\ Len(s) = j
  BY <1>1, RowIsMade
<1> QED BY <1>2, <1>3 DEF s

(* on_permission_spent advances the record by one claim.                      *)
LEMMA RecordAdvances ==
  ASSUME NEW f \in Families, NEW paid, NEW c, ClaimsFit(f, paid, c), NEW j \in 1..Len(c)
  PROVE  LET rec == RecordAt(f, paid, c, j - 1)
             e   == c[j]
         IN  /\ rec.unclaimed = TreeSize(f) - (j - 1) /\ ~Holds(rec, e.leaf)
             /\ j < TreeSize(f) => Advanced(rec, e) = RecordAt(f, paid, c, j)
             /\ j = TreeSize(f) => EmptiedBy(rec, e) = RecordAt(f, paid, c, j)
<1> DEFINE size == TreeSize(f)
           rec == RecordAt(f, paid, c, j - 1)
           e == c[j]
           s == [i \in 1..(j - 1) |-> SpendOf(c[i])]
           t == [i \in 1..j |-> SpendOf(c[i])]
           at == AnchorAt(paid, c, Moves(f, j - 1))
           moved == RecordAt(f, paid, c, j)
<1>1. /\ size \in Nat \ {0} /\ Len(c) \in Nat /\ j \in Nat /\ j - 1 \in Nat
      /\ j - 1 \in 0..Len(c) /\ j \in 0..Len(c) /\ j <= size /\ (j - 1) + 1 = j
  <2>1. Len(c) \in Nat
    BY RowOf DEF ClaimsFit, IsRow
  <2>2. j - 1 \in 0..Len(c) /\ j \in 0..Len(c)
    BY <2>1
  <2>3. j <= size
    BY <2>2, LeavesOfClaims
  <2> QED BY <2>1, <2>2, <2>3, TreeIsNumber
<1>2. /\ IsRow(s) /\ Len(s) = j - 1 /\ \A i \in 1..(j - 1) : s[i] = SpendOf(c[i])
  BY <1>1, SpendsRow
<1>3. /\ IsRow(t) /\ Len(t) = j /\ \A i \in 1..j : t[i] = SpendOf(c[i])
  BY <1>1, SpendsRow
<1>4. rec = [settlement_txid |-> at, daa_score |-> paid, unclaimed |-> size - (j - 1),
             leaves |-> Leaves[f], emptied |-> s]
  BY DEF RecordAt
<1>5. moved = [settlement_txid |-> AnchorAt(paid, c, Moves(f, j)), daa_score |-> paid,
               unclaimed |-> size - j, leaves |-> Leaves[f], emptied |-> t]
  BY DEF RecordAt
<1> HIDE DEF s, t, rec, moved, at
<1>6. Append(s, SpendOf(e)) = t
  <2> DEFINE a == Append(s, SpendOf(e))
  <2>1. /\ IsRow(a) /\ Len(a) = j /\ a[j] = SpendOf(e)
        /\ \A i \in 1..(j - 1) : a[i] = s[i]
    BY <1>1, <1>2, RowGrows
  <2> HIDE DEF a
  <2>2. \A i \in 1..j : i \in 1..(j - 1) \/ i = j
    BY <1>1
  <2>3. \A i \in 1..j : a[i] = t[i]
    BY <1>2, <1>3, <2>1, <2>2
  <2>4. a = t
    BY <1>3, <2>1, <2>3, RowsAgree
  <2> QED BY <2>4 DEF a
<1>7. ~Holds(rec, e.leaf)
  <2>1. rec.emptied = s
    BY <1>4
  <2>2. ClaimFits(f, paid, c, j)
    BY DEF ClaimsFit
  <2>3. ASSUME NEW i \in 1..(j - 1) PROVE s[i].leaf_index = c[i].leaf
    <3>1. s[i] = SpendOf(c[i])
      BY <1>2
    <3> QED BY <3>1 DEF SpendOf
  <2> QED BY <1>2, <2>1, <2>2, <2>3 DEF Holds, ClaimFits
<1>8. (size - (j - 1)) - 1 = size - j
  BY <1>1
<1>14. rec.emptied = s
  BY <1>4
<1>15. EmptiedBy(rec, e) = [rec EXCEPT !.emptied = t, !.unclaimed = @ - 1]
  BY <1>6, <1>14 DEF EmptiedBy, SpendOf
<1>9. EmptiedBy(rec, e) =
        [settlement_txid |-> at, daa_score |-> paid, unclaimed |-> size - j,
         leaves |-> Leaves[f], emptied |-> t]
  BY <1>4, <1>8, <1>15
<1>10. ASSUME j < size PROVE Advanced(rec, e) = moved
  <2>1. Moves(f, j) = j /\ AnchorAt(paid, c, j) = e.tx
    BY <1>1, <1>10 DEF Moves, AnchorAt
  <2> QED BY <1>5, <1>9, <2>1 DEF Advanced
<1>11. ASSUME j = size PROVE EmptiedBy(rec, e) = moved
  <2>1. Moves(f, j) = Moves(f, j - 1)
    BY <1>1, <1>11 DEF Moves
  <2> QED BY <1>5, <1>9, <2>1 DEF at
<1>12. rec.unclaimed = size - (j - 1)
  BY <1>4
<1> QED BY <1>7, <1>10, <1>11, <1>12 DEF rec, moved, size

(* on_permission_spend_reverted takes it back by one claim.                   *)
LEMMA RecordRewinds ==
  ASSUME NEW f \in Families, NEW paid, NEW c, ClaimsFit(f, paid, c), NEW j \in 1..Len(c)
  PROVE  LET rec == RecordAt(f, paid, c, j)
             e   == c[j]
         IN  /\ WasSpent(rec, e)
             /\ j < TreeSize(f) => Rewound(rec, e) = RecordAt(f, paid, c, j - 1)
             /\ j = TreeSize(f) => Restored(rec, e) = RecordAt(f, paid, c, j - 1)
<1> DEFINE size == TreeSize(f)
           rec == RecordAt(f, paid, c, j)
           e == c[j]
           s == [i \in 1..(j - 1) |-> SpendOf(c[i])]
           t == [i \in 1..j |-> SpendOf(c[i])]
           at == AnchorAt(paid, c, Moves(f, j))
           back == RecordAt(f, paid, c, j - 1)
           others == { i \in 1..Len(t) : t[i].leaf_index # e.leaf \/ t[i].spend_txid # e.tx }
<1>1. /\ size \in Nat \ {0} /\ Len(c) \in Nat /\ j \in Nat /\ j - 1 \in Nat
      /\ j - 1 \in 0..Len(c) /\ j \in 0..Len(c) /\ j <= size /\ (j - 1) + 1 = j
  <2>1. Len(c) \in Nat
    BY RowOf DEF ClaimsFit, IsRow
  <2>2. j - 1 \in 0..Len(c) /\ j \in 0..Len(c)
    BY <2>1
  <2>3. j <= size
    BY <2>2, LeavesOfClaims
  <2> QED BY <2>1, <2>2, <2>3, TreeIsNumber
<1>2. /\ IsRow(s) /\ Len(s) = j - 1 /\ \A i \in 1..(j - 1) : s[i] = SpendOf(c[i])
  BY <1>1, SpendsRow
<1>3. /\ IsRow(t) /\ Len(t) = j /\ \A i \in 1..j : t[i] = SpendOf(c[i])
  BY <1>1, SpendsRow
<1>4. rec = [settlement_txid |-> at, daa_score |-> paid, unclaimed |-> size - j,
             leaves |-> Leaves[f], emptied |-> t]
  BY DEF RecordAt
<1>5. back = [settlement_txid |-> AnchorAt(paid, c, Moves(f, j - 1)), daa_score |-> paid,
              unclaimed |-> size - (j - 1), leaves |-> Leaves[f], emptied |-> s]
  BY DEF RecordAt
<1> HIDE DEF s, t, rec, back, at
<1>6. \A i \in 1..j : i \in others <=> i # j
  <2> TAKE i \in 1..j
  <2>1. t[i].leaf_index = c[i].leaf /\ t[j].leaf_index = e.leaf /\ t[j].spend_txid = e.tx
    BY <1>1, <1>3 DEF SpendOf
  <2>2. i # j => i \in 1..(j - 1)
    BY <1>1
  <2>3. i # j => c[i].leaf # e.leaf
    BY <2>2 DEF ClaimsFit, ClaimFits
  <2> QED BY <1>3, <2>1, <2>3
<1> HIDE DEF others
<1>7. AtPlaces(t, others) = s
  <2> DEFINE g == [n \in 0..j |-> IF n = j THEN s ELSE [i \in 1..n |-> SpendOf(c[i])]]
             cut(n) == [i \in 1..n |-> SpendOf(c[i])]
  <2>1. \A n \in 0..(j - 1) : g[n] = cut(n)
    BY <1>1
  <2>2. g[j] = s /\ s = cut(j - 1)
    BY <1>1 DEF s
  <2>3. ASSUME NEW n \in 1..(j - 1) PROVE cut(n) = Append(cut(n - 1), t[n])
    <3>1. n \in Nat /\ n - 1 \in Nat /\ n \in 1..j /\ (n - 1) + 1 = n
      BY <1>1
    <3> DEFINE a == Append(cut(n - 1), t[n])
               p == cut(n - 1)
               q == cut(n)
    <3>2. IsRow(p) /\ Len(p) = n - 1 /\ \A i \in 1..(n - 1) : p[i] = SpendOf(c[i])
      BY <3>1, SpendsRow
    <3>3. IsRow(q) /\ Len(q) = n /\ \A i \in 1..n : q[i] = SpendOf(c[i])
      BY <3>1, SpendsRow
    <3> HIDE DEF cut, p, q
    <3>4. /\ IsRow(Append(p, t[n])) /\ Len(Append(p, t[n])) = n
          /\ Append(p, t[n])[n] = t[n]
          /\ \A i \in 1..(n - 1) : Append(p, t[n])[i] = p[i]
      BY <3>1, <3>2, RowGrows
    <3>5. \A i \in 1..n : Append(p, t[n])[i] = q[i]
      <4>1. \A i \in 1..n : i \in 1..(n - 1) \/ i = n
        BY <3>1
      <4> QED BY <1>3, <3>1, <3>2, <3>3, <3>4, <4>1
    <3>6. Append(p, t[n]) = q
      BY <3>3, <3>4, <3>5, RowsAgree
    <3> QED BY <3>6 DEF p, q
  <2>4. cut(0) = <<>>
    <3> DEFINE o == cut(0)
    <3>1. IsRow(o) /\ Len(o) = 0
      BY SpendsRow
    <3> HIDE DEF o, cut
    <3>2. o = <<>>
      BY <3>1, NoClaims, RowsAgree
    <3> QED BY <3>2 DEF o
  <2> HIDE DEF g, cut
  <2>5. g[0] = <<>>
    BY <1>1, <2>1, <2>4
  <2>6. ASSUME NEW n \in 1..Len(t)
        PROVE  g[n] = IF n \in others THEN Append(g[n - 1], t[n]) ELSE g[n - 1]
    <3>1. n \in 1..j /\ n - 1 \in 0..(j - 1) /\ (n # j => n \in 1..(j - 1) /\ n \in 0..(j - 1))
      BY <1>1, <1>3
    <3>2. CASE n = j
      <4>1. n \notin others
        BY <1>6, <3>1, <3>2
      <4>2. g[n - 1] = s
        BY <2>1, <2>2, <3>1, <3>2
      <4> QED BY <2>2, <3>2, <4>1, <4>2
    <3>3. CASE n # j
      <4>1. n \in others
        BY <1>6, <3>1, <3>3
      <4>2. g[n] = cut(n) /\ g[n - 1] = cut(n - 1)
        BY <2>1, <3>1, <3>3
      <4> QED BY <2>3, <3>1, <3>3, <4>1, <4>2
    <3> QED BY <3>2, <3>3
  <2>7. Takes(g, t, others)
    BY <2>5, <2>6 DEF Takes
  <2>8. AtPlaces(t, others) = g[Len(t)]
    BY <1>3, <2>7, AtPlacesIs
  <2> QED BY <1>3, <2>2, <2>8
<1>8. (size - j) + 1 = size - (j - 1)
  BY <1>1
<1>9. rec.emptied = t
  BY <1>4
<1>10. Restored(rec, e) = [rec EXCEPT !.emptied = s, !.unclaimed = @ + 1]
  BY <1>7, <1>9 DEF Restored, others
<1>11. Restored(rec, e) =
        [settlement_txid |-> at, daa_score |-> paid, unclaimed |-> size - (j - 1),
         leaves |-> Leaves[f], emptied |-> s]
  BY <1>4, <1>8, <1>10
<1>12. ASSUME j < size PROVE Rewound(rec, e) = back
  <2>1. Moves(f, j - 1) = j - 1
    BY <1>1, <1>12 DEF Moves
  <2>2. e.spent_outpoint = AnchorAt(paid, c, j - 1)
    BY DEF ClaimsFit, ClaimFits
  <2> QED BY <1>5, <1>11, <2>1, <2>2 DEF Rewound
<1>13. ASSUME j = size PROVE Restored(rec, e) = back
  <2>1. Moves(f, j) = Moves(f, j - 1)
    BY <1>1, <1>13 DEF Moves
  <2> QED BY <1>5, <1>11, <2>1 DEF at
<1>14. WasSpent(rec, e)
  <2>1. j \in 1..Len(t) /\ t[j].leaf_index = e.leaf /\ t[j].spend_txid = e.tx
    BY <1>1, <1>3 DEF SpendOf
  <2> QED BY <1>9, <2>1 DEF WasSpent
<1> QED BY <1>12, <1>13, <1>14 DEF rec, back, size

(* Where a record of the family stands, told by its leaves or by its root.    *)
LEMMA LeavesStand ==
  ASSUME RootsTell, NEW u, NEW w, NEW map, Between(map, u, w),
         NEW r \in DOMAIN map, NEW g \in Families, map[r].leaves = Leaves[g]
  PROVE  \E j \in Len(u[g].claims)..Len(w[g].claims) : Stands(r, map[r], g, w[g], j)
<1>1. PICK f \in Families : \E j \in Len(u[f].claims)..Len(w[f].claims) :
        Stands(r, map[r], f, w[f], j)
  BY DEF Between
<1>2. map[r].leaves = Leaves[f]
  BY <1>1 DEF Stands, RecordAt
<1>3. f = g
  BY <1>2, LeavesTell
<1> QED BY <1>1, <1>3

RootStandsAt(map, g, t, x, F) ==
  \E j \in Len(t.claims)..Len(x.claims) :
    /\ Stands(Root(Leaves[g], F), map[Root(Leaves[g], F)], g, x, j)
    /\ F = LeafSet(x.claims, Moves(g, j))

(* A record under a root of a tree stands where its emptied leaves say.       *)
LEMMA RootStands ==
  ASSUME RootsTell, NEW u, Fits(u), NEW w, Fits(w), NEW map, Between(map, u, w),
         NEW g \in Families
  PROVE  \A F \in SUBSET (1..TreeSize(g)) :
           Root(Leaves[g], F) \in DOMAIN map => RootStandsAt(map, g, u[g], w[g], F)
<1> SUFFICES ASSUME NEW F \in SUBSET (1..TreeSize(g)), Root(Leaves[g], F) \in DOMAIN map
             PROVE  RootStandsAt(map, g, u[g], w[g], F)
  OBVIOUS
<1> DEFINE r == Root(Leaves[g], F)
<1>1. PICK f \in Families : \E j \in Len(u[f].claims)..Len(w[f].claims) :
        Stands(r, map[r], f, w[f], j)
  BY DEF Between
<1>2. PICK j \in Len(u[f].claims)..Len(w[f].claims) : Stands(r, map[r], f, w[f], j)
  BY <1>1
<1>3. Len(u[f].claims) \in Nat /\ Len(w[f].claims) \in Nat
  BY StoryNumbers
<1>7. ClaimsFit(f, w[f].paid, w[f].claims)
  BY StoryNumbers
<1>4. j \in 0..Len(w[f].claims)
  BY <1>3
<1>5. RootAt(f, w[f].claims, j) = Root(Leaves[g], F)
  BY <1>2 DEF Stands
<1> DEFINE E == LeafSet(w[f].claims, Moves(f, j))
           A == SUBSET (1..TreeSize(f))
           B == SUBSET (1..TreeSize(g))
<1>6. E \in A /\ E # 1..TreeSize(f) /\ F \in B
  BY <1>4, <1>7, MovesFit
<1>8. Root(Leaves[f], E) = Root(Leaves[g], F)
  BY <1>5 DEF RootAt
<1>9. g = f /\ F = E
  <2>1. \A X \in A, Y \in B :
          (X # 1..TreeSize(f) /\ Root(Leaves[f], X) = Root(Leaves[g], Y)) => f = g /\ X = Y
    BY RootTells
  <2> HIDE DEF E, A, B
  <2> QED BY <1>6, <1>8, <2>1
<1> QED BY <1>2, <1>9 DEF RootStandsAt

(* Only the records of one family change, and they stand from the place a of  *)
(* its story on.                                                              *)
OnlyOf(g, map, out, a, t) ==
  /\ \A r \in DOMAIN out :
       \/ \E j \in a..Len(t.claims) : Stands(r, out[r], g, t, j)
       \/ r \in DOMAIN map /\ out[r] = map[r] /\ map[r].leaves # Leaves[g]
  /\ \A r \in DOMAIN map : map[r].leaves # Leaves[g] => r \in DOMAIN out /\ out[r] = map[r]

HasRecord(out, g) == \E r \in DOMAIN out : out[r].leaves = Leaves[g]

AllBut(g, x, u) == \A f \in Families : f # g => x[f] = u[f]

(* When one family's records move with its story, the others stay.            *)
LEMMA OthersStay ==
  ASSUME RootsTell, NEW u, NEW w, NEW x, NEW y, NEW map, Between(map, u, w),
         NEW g \in Families, AllBut(g, x, u), AllBut(g, y, w),
         NEW out, OnlyOf(g, map, out, Len(x[g].claims), y[g]),
         x[g].settled => HasRecord(out, g)
  PROVE  Between(out, x, y)
<1>1. ASSUME NEW r \in DOMAIN out
      PROVE  \E f \in Families : \E j \in Len(x[f].claims)..Len(y[f].claims) :
               Stands(r, out[r], f, y[f], j)
  <2>1. CASE \E j \in Len(x[g].claims)..Len(y[g].claims) : Stands(r, out[r], g, y[g], j)
    BY <2>1
  <2>2. CASE r \in DOMAIN map /\ out[r] = map[r] /\ map[r].leaves # Leaves[g]
    <3>1. PICK f \in Families : \E j \in Len(u[f].claims)..Len(w[f].claims) :
            Stands(r, map[r], f, w[f], j)
      BY <2>2 DEF Between
    <3>2. f # g
      BY <2>2, <3>1 DEF Stands, RecordAt
    <3> QED BY <2>2, <3>1, <3>2 DEF AllBut
  <2> QED BY <2>1, <2>2 DEF OnlyOf
<1>2. ASSUME NEW f \in Families, x[f].settled
      PROVE  \E r \in DOMAIN out : out[r].leaves = Leaves[f]
  <2>1. CASE f = g
    BY <1>2, <2>1 DEF HasRecord
  <2>2. CASE f # g
    <3>1. PICK r \in DOMAIN map : map[r].leaves = Leaves[f]
      BY <1>2, <2>2 DEF Between, AllBut
    <3>2. Leaves[f] # Leaves[g]
      BY <2>2, LeavesTell
    <3> QED BY <3>1, <3>2 DEF OnlyOf
  <2> QED BY <2>1, <2>2
<1> QED BY <1>1, <1>2 DEF Between

(* on_exits_committed: the family's record stands at its first place.         *)
LEMMA FirstPlace ==
  ASSUME NEW g \in Families, NEW paid, NEW c
  PROVE  /\ FreshRoot(g) = RootAt(g, c, 0)
         /\ \A e : e.family = g /\ e.tx = paid => RecordFor(e) = RecordAt(g, paid, c, 0)
<1>1. TreeSize(g) \in Nat \ {0}
  BY TreeIsNumber
<1>2. Moves(g, 0) = 0
  BY <1>1 DEF Moves
<1>3. LeafSet(c, 0) = {}
  BY DEF LeafSet
<1>4. FreshRoot(g) = RootAt(g, c, 0)
  BY <1>2, <1>3 DEF FreshRoot, RootAt
<1> DEFINE o == [i \in 1..0 |-> SpendOf(c[i])]
<1>5. IsRow(o) /\ Len(o) = 0
  BY SpendsRow
<1>6. RecordAt(g, paid, c, 0) =
        [settlement_txid |-> paid, daa_score |-> paid, unclaimed |-> TreeSize(g) - 0,
         leaves |-> Leaves[g], emptied |-> o]
  BY <1>2 DEF RecordAt, AnchorAt
<1> HIDE DEF o
<1>7. o = <<>>
  BY <1>5, NoClaims, RowsAgree
<1>8. TreeSize(g) - 0 = Len(Leaves[g])
  BY <1>1 DEF TreeSize
<1> QED BY <1>4, <1>6, <1>7, <1>8 DEF RecordFor

(* A settlement puts the family's record at its first place.                  *)
LEMMA ExitsKeep ==
  ASSUME RootsTell, NEW u, Fits(u), NEW w, Fits(w), NEW x, NEW map, Between(map, u, w),
         NEW e, NEW g \in Families, e.family = g, ~u[g].settled,
         AllBut(g, x, u), Len(x[g].claims) = 0, w[g].settled, w[g].paid = e.tx
  PROVE  Between(Put(map, FreshRoot(g), RecordFor(e)), x, w)
<1> DEFINE k == FreshRoot(g)
           rec == RecordFor(e)
           out == Put(map, k, rec)
           d == w[g].claims
<1>1. Len(d) \in Nat /\ Len(u[g].claims) = 0 /\ 0 \in 0..Len(d)
  BY StoryNumbers
<1>2. k = RootAt(g, d, 0) /\ rec = RecordAt(g, w[g].paid, d, 0)
  BY FirstPlace
<1>3. Stands(k, rec, g, w[g], 0)
  BY <1>2 DEF Stands
<1>4. /\ DOMAIN out = DOMAIN map \cup {k} /\ out[k] = rec
      /\ \A r \in DOMAIN map : r # k => out[r] = map[r]
  BY DEF Put
<1>5. rec.leaves = Leaves[g]
  BY DEF RecordFor
<1> SUFFICES Between(out, x, w)
  OBVIOUS
<1>6. k \in DOMAIN map => map[k].leaves = Leaves[g]
  <2> SUFFICES ASSUME k \in DOMAIN map PROVE map[k].leaves = Leaves[g]
    OBVIOUS
  <2>1. {} \in SUBSET (1..TreeSize(g))
    OBVIOUS
  <2>2. \E j \in Len(u[g].claims)..Len(w[g].claims) : Stands(k, map[k], g, w[g], j)
    <3>1. RootStandsAt(map, g, u[g], w[g], {})
      BY <2>1, RootStands DEF FreshRoot
    <3> QED BY <3>1 DEF RootStandsAt, FreshRoot
  <2> QED BY <2>2 DEF Stands, RecordAt
<1> HIDE DEF out, k, rec, d
<1>7. ASSUME NEW r \in DOMAIN out
      PROVE  \/ \E j \in Len(x[g].claims)..Len(w[g].claims) : Stands(r, out[r], g, w[g], j)
             \/ r \in DOMAIN map /\ out[r] = map[r] /\ map[r].leaves # Leaves[g]
  <2>1. CASE r = k
    BY <1>1, <1>3, <1>4, <2>1 DEF d
  <2>2. CASE r # k /\ map[r].leaves # Leaves[g]
    BY <1>4, <2>2
  <2>3. CASE r # k /\ map[r].leaves = Leaves[g]
    <3>1. r \in DOMAIN map /\ out[r] = map[r]
      BY <1>4, <2>3
    <3>2. \E j \in Len(u[g].claims)..Len(w[g].claims) : Stands(r, map[r], g, w[g], j)
      BY <2>3, <3>1, LeavesStand
    <3> QED BY <1>1, <3>1, <3>2
  <2> QED BY <2>1, <2>2, <2>3
<1>8. \A r \in DOMAIN map : map[r].leaves # Leaves[g] => r \in DOMAIN out /\ out[r] = map[r]
  BY <1>4, <1>6
<1>9. HasRecord(out, g)
  BY <1>4, <1>5 DEF HasRecord
<1>10. OnlyOf(g, map, out, Len(x[g].claims), w[g])
  BY <1>7, <1>8 DEF OnlyOf
<1>11. AllBut(g, w, w)
  BY DEF AllBut
<1> QED BY <1>9, <1>10, <1>11, OthersStay

(* The roots a claim names are those of the places before and after it.       *)
LEMMA ClaimPlaces ==
  ASSUME NEW g \in Families, NEW paid, NEW c, ClaimsFit(g, paid, c), NEW j \in 1..Len(c)
  PROVE  /\ Len(c) \in Nat /\ j \in 0..Len(c) /\ j - 1 \in 0..Len(c) /\ j <= TreeSize(g)
         /\ LeafSet(c, j - 1) \in SUBSET (1..TreeSize(g))
         /\ LeafSet(c, j) \in SUBSET (1..TreeSize(g))
         /\ c[j].old_root = RootAt(g, c, j - 1)
         /\ c[j].old_root = Root(Leaves[g], LeafSet(c, j - 1))
         /\ c[j].new_root = Root(Leaves[g], LeafSet(c, j))
         /\ j < TreeSize(g) => c[j].new_root = RootAt(g, c, j)
         /\ j = TreeSize(g) => RootAt(g, c, j) = RootAt(g, c, j - 1)
<1>1. Len(c) \in Nat
  BY RowOf DEF ClaimsFit, IsRow
<1>2. j \in 0..Len(c) /\ j - 1 \in 0..Len(c)
  BY <1>1
<1>3. j <= TreeSize(g) /\ LeafSet(c, j) \in SUBSET (1..TreeSize(g))
  BY <1>2, LeavesOfClaims
<1>4. LeafSet(c, j - 1) \in SUBSET (1..TreeSize(g))
  BY <1>2, LeavesOfClaims
<1>5. TreeSize(g) \in Nat
  BY TreeIsNumber
<1>6. Moves(g, j - 1) = j - 1 /\ (j < TreeSize(g) => Moves(g, j) = j)
      /\ (j = TreeSize(g) => Moves(g, j) = Moves(g, j - 1))
  BY <1>1, <1>3, <1>5 DEF Moves
<1>7. /\ c[j].old_root = Root(Leaves[g], LeafSet(c, j - 1))
      /\ c[j].new_root = Root(Leaves[g], LeafSet(c, j))
  BY DEF ClaimsFit, ClaimFits
<1>8. RootAt(g, c, j - 1) = Root(Leaves[g], LeafSet(c, j - 1))
  BY <1>6 DEF RootAt
<1>9. j < TreeSize(g) => RootAt(g, c, j) = Root(Leaves[g], LeafSet(c, j))
  BY <1>6 DEF RootAt
<1>10. j = TreeSize(g) => RootAt(g, c, j) = RootAt(g, c, j - 1)
  BY <1>6 DEF RootAt
<1> QED BY <1>1, <1>2, <1>3, <1>4, <1>7, <1>8, <1>9, <1>10

(* on_permission_spent: the record, if it is there, goes from its place to    *)
(* the next.                                                                  *)
LEMMA ClaimKeeps ==
  ASSUME RootsTell, NEW u, Fits(u), NEW w, Fits(w), NEW x, NEW map, Between(map, u, w),
         NEW e, NEW g \in Families, u[g].settled, w[g].settled, AllBut(g, x, u),
         NEW j \in 1..Len(w[g].claims), w[g].claims[j] = e,
         Len(u[g].claims) = j - 1, Len(x[g].claims) = j,
         NEW out, SpentEffect(map, e, out)
  PROVE  Between(out, x, w)
<1> DEFINE d == w[g].claims
           paid == w[g].paid
           size == TreeSize(g)
           k == e.old_root
           m == RootAt(g, d, j)
           next == RecordAt(g, paid, d, j)
<1>1. ClaimsFit(g, paid, d) /\ Len(d) \in Nat
  BY StoryNumbers
<1>2. /\ j \in 0..Len(d) /\ j - 1 \in 0..Len(d) /\ j <= size
      /\ LeafSet(d, j - 1) \in SUBSET (1..size) /\ LeafSet(d, j) \in SUBSET (1..size)
      /\ k = RootAt(g, d, j - 1) /\ k = Root(Leaves[g], LeafSet(d, j - 1))
      /\ j < size => e.new_root = m
      /\ j = size => m = k
  <2> HIDE DEF d, paid
  <2>1. j \in 1..Len(d) /\ d[j] = e
    BY DEF d
  <2> QED BY <1>1, <2>1, ClaimPlaces
<1>3. size \in Nat \ {0} /\ j \in Nat
  BY <1>2, TreeIsNumber
<1>4. next.leaves = Leaves[g] /\ Stands(m, next, g, w[g], j)
  BY DEF RecordAt, Stands
<1>5. ASSUME NEW r \in DOMAIN map, map[r].leaves = Leaves[g]
      PROVE  \/ r = k /\ Stands(r, map[r], g, w[g], j - 1)
             \/ \E i \in j..Len(d) : Stands(r, map[r], g, w[g], i)
  <2>1. PICK i \in (j - 1)..Len(d) : Stands(r, map[r], g, w[g], i)
    BY <1>5, LeavesStand
  <2>2. CASE i = j - 1
    BY <1>2, <2>1, <2>2 DEF Stands
  <2>3. CASE i # j - 1
    <3>1. i \in j..Len(d)
      <4> HIDE DEF d
      <4> QED BY <1>1, <1>3, <2>3
    <3> QED BY <2>1, <3>1
  <2> QED BY <2>2, <2>3
<1>6. \A F \in SUBSET (1..size) :
        Root(Leaves[g], F) \in DOMAIN map => RootStandsAt(map, g, u[g], w[g], F)
  BY RootStands
<1>11. m \in DOMAIN map => map[m].leaves = Leaves[g] \/ m = k
  <2> SUFFICES ASSUME m \in DOMAIN map, m # k PROVE map[m].leaves = Leaves[g]
    OBVIOUS
  <2> DEFINE F == LeafSet(d, j)
  <2>1. j < size /\ m = Root(Leaves[g], F)
    <3>1. j < size
      <4> HIDE DEF size, m, k
      <4> QED BY <1>2, <1>3
    <3>2. e.new_root = Root(Leaves[g], F)
      BY <1>1, ClaimPlaces
    <3> QED BY <1>2, <3>1, <3>2
  <2>2. RootStandsAt(map, g, u[g], w[g], F)
    <3> HIDE DEF F, size, m
    <3>1. F \in SUBSET (1..size)
      BY <1>2 DEF F
    <3> QED BY <1>6, <2>1, <3>1
  <2>3. \E i : Stands(m, map[m], g, w[g], i)
    <3> HIDE DEF F, m
    <3> QED BY <2>1, <2>2 DEF RootStandsAt
  <2> QED BY <2>3 DEF Stands, RecordAt
<1>7. HasRecord(map, g)
  BY DEF Between, HasRecord
<1>8. AllBut(g, w, w)
  BY DEF AllBut
<1>12. ASSUME DOMAIN out = (DOMAIN map \ {k}) \cup {m}, out[m] = next,
              \A r \in DOMAIN map : r # k /\ r # m => out[r] = map[r],
              k \in DOMAIN map => map[k].leaves = Leaves[g]
       PROVE  Between(out, x, w)
  <2> HIDE DEF d, k, m, next
  <2>1. ASSUME NEW r \in DOMAIN out
        PROVE  \/ \E i \in j..Len(d) : Stands(r, out[r], g, w[g], i)
               \/ r \in DOMAIN map /\ out[r] = map[r] /\ map[r].leaves # Leaves[g]
    <3>1. CASE r = m
      <4>1. j \in j..Len(d)
        BY <1>1, <1>2, <1>3
      <4> QED BY <1>4, <1>12, <3>1, <4>1
    <3>2. CASE r # m
      BY <1>5, <1>12, <3>2
    <3> QED BY <3>1, <3>2
  <2>2. \A r \in DOMAIN map : map[r].leaves # Leaves[g] => r \in DOMAIN out /\ out[r] = map[r]
    BY <1>11, <1>12
  <2>3. OnlyOf(g, map, out, j, w[g])
    BY <2>1, <2>2 DEF OnlyOf, d
  <2>4. HasRecord(out, g)
    BY <1>4, <1>12 DEF HasRecord
  <2> QED BY <1>8, <2>3, <2>4, OthersStay
<1>9. CASE k \notin DOMAIN map
  <2>1. out = Drop(map, k)
    BY <1>9 DEF SpentEffect
  <2>2. DOMAIN out = DOMAIN map /\ \A r \in DOMAIN map : out[r] = map[r]
    BY <1>9, <2>1 DEF Drop
  <2> HIDE DEF d, k
  <2>3. ASSUME NEW r \in DOMAIN out
        PROVE  \/ \E i \in j..Len(d) : Stands(r, out[r], g, w[g], i)
               \/ r \in DOMAIN map /\ out[r] = map[r] /\ map[r].leaves # Leaves[g]
    BY <1>5, <1>9, <2>2
  <2>4. OnlyOf(g, map, out, j, w[g])
    BY <2>2, <2>3 DEF OnlyOf, d
  <2>5. HasRecord(out, g)
    BY <1>7, <2>2 DEF HasRecord
  <2> QED BY <1>8, <2>4, <2>5, OthersStay
<1>10. CASE k \in DOMAIN map
  <2>1. PICK i \in (j - 1)..Len(d) :
          Stands(k, map[k], g, w[g], i) /\ LeafSet(d, j - 1) = LeafSet(d, Moves(g, i))
    <3> DEFINE F == LeafSet(d, j - 1)
    <3>1. F \in SUBSET (1..size) /\ k = Root(Leaves[g], F)
      BY <1>2
    <3> HIDE DEF F, k, size
    <3>2. RootStandsAt(map, g, u[g], w[g], F)
      BY <1>6, <1>10, <3>1
    <3> QED BY <3>1, <3>2 DEF RootStandsAt, F
  <2>2. i \in 0..Len(d) /\ i \in Nat
    <3> HIDE DEF d
    <3> QED BY <1>1, <1>3
  <2>3. Moves(g, i) \in 0..i /\ (Moves(g, i) = i <=> i < size) /\ i <= size
    BY <1>1, <2>2, MovesFit, LeavesOfClaims
  <2>4. Moves(g, i) = j - 1
    <3> DEFINE n == Moves(g, i)
    <3>1. n \in 0..Len(d) /\ LeafSet(d, j - 1) = LeafSet(d, n)
      <4> HIDE DEF d
      <4> QED BY <1>1, <2>1, <2>2, <2>3
    <3> HIDE DEF n, d, paid
    <3>2. j - 1 = n
      BY <1>1, <1>2, <3>1, LeafSetTells
    <3> QED BY <3>2 DEF n
  <2>5. i = j - 1 \/ (i = j /\ j = size)
    <3> HIDE DEF size
    <3>1. i < size => i = j - 1
      BY <2>3, <2>4
    <3>2. i >= size => i = size
      BY <1>3, <2>2, <2>3
    <3>3. i = size => Moves(g, i) = size - 1
      BY <1>3 DEF Moves, size
    <3> QED BY <1>3, <2>2, <2>4, <3>1, <3>2, <3>3
  <2>6. map[k].leaves = Leaves[g]
    BY <2>1 DEF Stands, RecordAt
  <2>7. CASE i = j - 1
    <3> DEFINE rec == map[k]
    <3>1. rec = RecordAt(g, paid, d, j - 1)
      BY <2>1, <2>7 DEF Stands
    <3>2. /\ rec.unclaimed = size - (j - 1) /\ ~Holds(rec, e.leaf)
          /\ j < size => Advanced(rec, e) = next
          /\ j = size => EmptiedBy(rec, e) = next
      <4> HIDE DEF d, paid, rec
      <4>1. j \in 1..Len(d) /\ d[j] = e
        BY DEF d
      <4> QED BY <1>1, <3>1, <4>1, RecordAdvances
    <3> HIDE DEF rec
    <3>3. rec.unclaimed # 0 /\ (rec.unclaimed > 1 <=> j < size) /\ (rec.unclaimed = 1 <=> j = size)
      BY <1>2, <1>3, <3>2
    <3>4. \/ j < size /\ out = Moved(map, e, next)
          \/ j = size /\ out = Put(map, k, next)
      <4> HIDE DEF next, size
      <4> QED BY <1>2, <1>3, <1>10, <3>2, <3>3 DEF SpentEffect, rec
    <3> HIDE DEF m, next, size
    <3>5. CASE j < size /\ out = Moved(map, e, next)
      <4>1. out = Put(Drop(map, k), m, next)
        BY <1>2, <3>5 DEF Moved
      <4> HIDE DEF k
      <4>2. /\ DOMAIN out = (DOMAIN map \ {k}) \cup {m} /\ out[m] = next
            /\ \A r \in DOMAIN map : r # k /\ r # m => out[r] = map[r]
        BY <4>1 DEF Put, Drop
      <4> QED BY <1>12, <2>6, <4>2
    <3>6. CASE j = size /\ out = Put(map, k, next)
      <4>1. m = k
        BY <1>2, <3>6
      <4> HIDE DEF k
      <4>2. /\ DOMAIN out = (DOMAIN map \ {k}) \cup {m} /\ out[m] = next
            /\ \A r \in DOMAIN map : r # k /\ r # m => out[r] = map[r]
        BY <1>10, <3>6, <4>1 DEF Put
      <4> QED BY <1>12, <2>6, <4>2
    <3> QED BY <3>4, <3>5, <3>6
  <2>8. CASE i = j /\ j = size
    <3>1. Stands(k, map[k], g, w[g], j)
      BY <2>1, <2>8
    <3>2. map[k] = next /\ m = k
      BY <1>2, <2>8, <3>1 DEF Stands
    <3>3. map[k].unclaimed = 0
      <4>1. next.unclaimed = size - j
        BY DEF RecordAt
      <4> HIDE DEF next, size
      <4> QED BY <1>3, <2>8, <3>2, <4>1
    <3>4. out = map
      <4> HIDE DEF k
      <4> QED BY <1>10, <3>3 DEF SpentEffect, k
    <3> HIDE DEF k, m, next
    <3>5. /\ DOMAIN out = (DOMAIN map \ {k}) \cup {m} /\ out[m] = next
          /\ \A r \in DOMAIN map : r # k /\ r # m => out[r] = map[r]
      BY <1>10, <3>2, <3>4
    <3> QED BY <1>12, <2>6, <3>5
  <2> QED BY <2>5, <2>7, <2>8
<1> QED BY <1>9, <1>10

(* A report of a transaction that follows the story moves the records with    *)
(* it.                                                                        *)
LEMMA ApplyKeeps ==
  ASSUME RootsTell, NEW u, Fits(u), NEW w, Fits(w), NEW e, Follows(u, e), NEW n,
         Before(Told(u, e, n), w), NEW map, Between(map, u, w),
         NEW out, ApplyEffect(map, e, out)
  PROVE  Between(out, Told(u, e, n), w)
<1> DEFINE x == Told(u, e, n)
           g == e.family
<1> SUFFICES Between(out, x, w)
  OBVIOUS
<1>1. CASE e.kind = "Observed"
  <2>1. ASSUME NEW f \in Families PROVE x[f] = u[f]
    BY <1>1 DEF Told
  <2>2. out = map
    BY <1>1 DEF ApplyEffect
  <2> HIDE DEF x
  <2> QED BY <2>1, <2>2 DEF Between
<1>2. CASE e.kind = "Exits"
  <2>1. g \in Families /\ ~u[g].settled
    BY <1>2 DEF Follows
  <2>2. x[g] = [settled |-> TRUE, paid |-> e.tx, claims |-> <<>>, at |-> n]
    BY <1>2, <2>1 DEF Told
  <2>3. AllBut(g, x, u)
    BY <1>2 DEF AllBut, Told
  <2>4. out = Put(map, FreshRoot(g), RecordFor(e))
    BY <1>2 DEF ApplyEffect
  <2> HIDE DEF x
  <2>5. x[g].settled /\ x[g].paid = e.tx /\ x[g].claims = <<>>
    BY <2>2
  <2>6. w[g].settled /\ w[g].paid = e.tx
    BY <2>1, <2>5 DEF Before, GoesOn, x
  <2>7. Len(x[g].claims) = 0
    BY <2>5, NoClaims
  <2>8. e.family = g
    OBVIOUS
  <2> HIDE DEF g
  <2>9. Between(Put(map, FreshRoot(g), RecordFor(e)), x, w)
    BY <2>1, <2>3, <2>6, <2>7, <2>8, ExitsKeep
  <2> QED BY <2>4, <2>9
<1>3. CASE e.kind = "Claim"
  <2> DEFINE c == u[g].claims
             d == w[g].claims
             j == Len(c) + 1
  <2>1. g \in Families /\ ClaimFollows(g, u[g], e) /\ u[g].settled
    BY <1>3 DEF Follows, ClaimFollows
  <2>2. x[g] = [settled |-> TRUE, paid |-> u[g].paid, claims |-> Append(c, e), at |-> n]
    BY <1>3, <2>1 DEF Told
  <2>3. AllBut(g, x, u)
    BY <1>3 DEF AllBut, Told
  <2>4. SpentEffect(map, e, out)
    BY <1>3 DEF ApplyEffect
  <2> HIDE DEF x
  <2>5. x[g].settled /\ x[g].claims = Append(c, e)
    BY <2>2
  <2>6. StoryFits(g, u[g])
    BY <2>1 DEF Fits
  <2>7. Len(c) \in Nat /\ Len(Append(c, e)) = j /\ Append(c, e)[j] = e
    BY <2>1, <2>6, ClaimsGrow
  <2>8. GoesOn(x[g], w[g])
    BY <2>1, <2>5 DEF Before, x
  <2>9. Len(d) \in Nat
    BY <2>1, StoryNumbers
  <2>10. w[g].settled /\ j <= Len(d) /\ \A i \in 1..j : d[i] = Append(c, e)[i]
    BY <2>5, <2>7, <2>8 DEF GoesOn
  <2>11. j \in 1..j /\ j \in 1..Len(d) /\ Len(c) = j - 1
    <3> HIDE DEF c, d
    <3> QED BY <2>7, <2>9, <2>10
  <2>12. d[j] = e /\ Len(x[g].claims) = j
    BY <2>5, <2>7, <2>10, <2>11
  <2> HIDE DEF j, g
  <2> QED BY <2>1, <2>3, <2>4, <2>10, <2>11, <2>12, ClaimKeeps DEF c, d
<1> QED BY <1>1, <1>2, <1>3 DEF Follows

(* A transaction taken back: what a reorg says of the stories.                *)
NamesRoots(e, g) ==
  \E F \in SUBSET (1..TreeSize(g)), G \in SUBSET (1..TreeSize(g)) :
    e.old_root = Root(Leaves[g], F) /\ e.new_root = Root(Leaves[g], G)

LastClaim(t, e, x) ==
  /\ t.settled /\ GoesOn(x, t) /\ x.settled
  /\ Len(t.claims) = Len(x.claims) + 1 /\ t.claims[Len(t.claims)] = e

Undone(v, e, y) ==
  \/ e.kind = "Observed" /\ \A f \in Families : y[f] = v[f]
  \/ /\ e.kind = "Exits" /\ e.family \in Families
     /\ v[e.family].settled /\ y[e.family] = NoStory /\ AllBut(e.family, y, v)
  \/ /\ e.kind = "Claim" /\ e.family \in Families
     /\ \/ LastClaim(v[e.family], e, y[e.family]) /\ AllBut(e.family, y, v)
        \/ /\ ~v[e.family].settled /\ NamesRoots(e, e.family)
           /\ \A f \in Families : y[f] = v[f]

(* on_exits_reverted: the one live record of the family goes.                 *)
LEMMA ExitsGo ==
  ASSUME RootsTell, NEW v, Fits(v), NEW y, NEW map, Between(map, v, v),
         NEW e, NEW g \in Families, e.family = g, v[g].settled,
         y[g] = NoStory, AllBut(g, y, v), NEW out, UnsettledEffect(map, e, out)
  PROVE  Between(out, y, y)
<1> DEFINE k == RootAt(g, v[g].claims, Len(v[g].claims))
<1>1. Len(v[g].claims) \in Nat
  BY StoryNumbers
<1>2. ASSUME NEW r \in DOMAIN map, map[r].leaves = Leaves[g] PROVE r = k
  <2>1. PICK j \in Len(v[g].claims)..Len(v[g].claims) : Stands(r, map[r], g, v[g], j)
    BY <1>2, LeavesStand
  <2>2. j = Len(v[g].claims)
    BY <1>1
  <2> QED BY <2>1, <2>2 DEF Stands
<1>3. PICK r \in DOMAIN map : map[r].leaves = Leaves[g]
  BY DEF Between
<1> HIDE DEF k
<1>4. r = k /\ Lives(map, g) = {k}
  BY <1>2, <1>3 DEF Lives
<1>5. out = Drop(map, k)
  BY <1>4 DEF UnsettledEffect
<1>6. /\ DOMAIN out = DOMAIN map \ {k}
      /\ \A q \in DOMAIN out : out[q] = map[q]
  BY <1>5 DEF Drop
<1>7. OnlyOf(g, map, out, Len(y[g].claims), y[g])
  BY <1>2, <1>3, <1>4, <1>6 DEF OnlyOf
<1>8. ~y[g].settled
  BY DEF NoStory
<1> QED BY <1>7, <1>8, OthersStay

(* on_permission_spend_reverted: the record goes back by one place.           *)
LEMMA ClaimGoes ==
  ASSUME RootsTell, NEW v, Fits(v), NEW y, Fits(y), NEW map, Between(map, v, v),
         NEW e, NEW g \in Families, LastClaim(v[g], e, y[g]), AllBut(g, y, v),
         NEW out, UnspentEffect(map, e, out)
  PROVE  Between(out, y, y)
<1> DEFINE d == v[g].claims
           paid == v[g].paid
           size == TreeSize(g)
           j == Len(d)
           i == Len(y[g].claims)
           k == RootAt(g, d, j)
           old == e.old_root
           rec == map[k]
           back == RecordAt(g, paid, d, j - 1)
<1>1. ClaimsFit(g, paid, d) /\ j \in Nat /\ i \in Nat
  BY StoryNumbers
<1>2. /\ v[g].settled /\ y[g].settled /\ GoesOn(y[g], v[g])
      /\ j = i + 1 /\ d[j] = e
  BY DEF LastClaim
<1>3. i = j - 1 /\ j \in 1..j /\ i \in 0..i /\ i \in i..i
  <2> HIDE DEF i, d
  <2> QED BY <1>1, <1>2
<1>4. /\ j \in 0..j /\ j - 1 \in 0..j /\ j <= size
      /\ LeafSet(d, j - 1) \in SUBSET (1..size)
      /\ old = RootAt(g, d, j - 1) /\ old = Root(Leaves[g], LeafSet(d, j - 1))
      /\ j < size => e.new_root = k
      /\ j = size => old = k
  <2>1. j \in 1..Len(d) /\ d[j] = e
    BY <1>2, <1>3
  <2> HIDE DEF d, paid
  <2> QED BY <1>1, <2>1, ClaimPlaces
<1>5. size \in Nat \ {0}
  BY TreeIsNumber
<1>6. Stands(old, back, g, y[g], i)
  <2>1. /\ RootAt(g, v[g].claims, i) = RootAt(g, y[g].claims, i)
        /\ RecordAt(g, v[g].paid, v[g].claims, i) = RecordAt(g, y[g].paid, y[g].claims, i)
    BY <1>2, <1>3, SamePlace
  <2> HIDE DEF i
  <2> QED BY <1>2, <1>3, <1>4, <2>1 DEF Stands
<1>7. ASSUME NEW r \in DOMAIN map, map[r].leaves = Leaves[g]
      PROVE  r = k /\ map[r] = RecordAt(g, paid, d, j)
  <2>1. PICK n \in Len(v[g].claims)..Len(v[g].claims) : Stands(r, map[r], g, v[g], n)
    BY <1>7, LeavesStand
  <2>2. n = Len(v[g].claims)
    BY <1>1
  <2> QED BY <2>1, <2>2 DEF Stands
<1>8. k \in DOMAIN map /\ rec = RecordAt(g, paid, d, j)
  <2>1. PICK r \in DOMAIN map : map[r].leaves = Leaves[g]
    BY <1>2 DEF Between
  <2> HIDE DEF d, j, paid, k
  <2> QED BY <1>7, <2>1
<1>9. j < size => old \notin DOMAIN map
  <2> SUFFICES ASSUME j < size, old \in DOMAIN map PROVE FALSE
    OBVIOUS
  <2> DEFINE F == LeafSet(d, j - 1)
  <2>1. RootStandsAt(map, g, v[g], v[g], F)
    <3>1. F \in SUBSET (1..size) /\ Root(Leaves[g], F) \in DOMAIN map
      BY <1>4
    <3>2. \A E \in SUBSET (1..size) :
            Root(Leaves[g], E) \in DOMAIN map => RootStandsAt(map, g, v[g], v[g], E)
      BY RootStands
    <3> HIDE DEF F, size
    <3> QED BY <3>1, <3>2
  <2>2. PICK n \in j..j : F = LeafSet(d, Moves(g, n))
    BY <2>1 DEF RootStandsAt
  <2>3. n = j
    BY <1>1
  <2>4. Moves(g, n) = j
    BY <2>3 DEF Moves
  <2>5. LeafSet(d, j - 1) = LeafSet(d, j)
    BY <2>2, <2>4
  <2>6. j - 1 = j
    <3>1. j \in 0..Len(d) /\ j - 1 \in 0..Len(d)
      BY <1>4
    <3> HIDE DEF d, paid, j
    <3> QED BY <1>1, <2>5, <3>1, LeafSetTells
  <2> HIDE DEF d
  <2> QED BY <1>1, <2>6
<1>10. /\ WasSpent(rec, e)
       /\ j < size => Rewound(rec, e) = back
       /\ j = size => Restored(rec, e) = back
  <2>1. j \in 1..Len(d) /\ d[j] = e
    BY <1>2, <1>3
  <2> HIDE DEF d, paid, rec
  <2> QED BY <1>1, <1>8, <2>1, RecordRewinds
<1>11. back.leaves = Leaves[g] /\ rec.leaves = Leaves[g]
  BY <1>8 DEF RecordAt
<1>12. \/ j < size /\ out = Put(Drop(map, k), old, back)
       \/ j = size /\ out = Put(map, old, back) /\ old = k
  <2>1. CASE j < size
    <3>1. ~Bears(map, old, e) /\ Bears(map, e.new_root, e) /\ e.new_root = k
      BY <1>4, <1>8, <1>9, <1>10, <2>1 DEF Bears
    <3> HIDE DEF size, k, back
    <3> QED BY <1>10, <2>1, <3>1 DEF UnspentEffect, rec
  <2>2. CASE j = size
    <3>1. Bears(map, old, e) /\ old = k
      BY <1>4, <1>8, <1>10, <2>2 DEF Bears
    <3> HIDE DEF size, k, back, j
    <3> QED BY <1>10, <2>2, <3>1 DEF UnspentEffect, rec
  <2> HIDE DEF d, size
  <2> QED BY <1>1, <1>4, <1>5, <2>1, <2>2
<1>13. AllBut(g, y, v)
  OBVIOUS
<1> HIDE DEF k, back, old, size, d, i, j, rec, paid
<1>14. /\ DOMAIN out = (DOMAIN map \ {k}) \cup {old} /\ out[old] = back
       /\ \A r \in DOMAIN map : r # k /\ r # old => out[r] = map[r]
  BY <1>8, <1>12 DEF Put, Drop
<1>15. old \in DOMAIN map => old = k
  BY <1>9, <1>12
<1>16. ASSUME NEW r \in DOMAIN out
       PROVE  \/ \E n \in i..i : Stands(r, out[r], g, y[g], n)
              \/ r \in DOMAIN map /\ out[r] = map[r] /\ map[r].leaves # Leaves[g]
  <2>1. CASE r = old
    BY <1>3, <1>6, <1>14, <2>1
  <2>2. CASE r # old
    BY <1>7, <1>14, <2>2
  <2> QED BY <2>1, <2>2
<1>17. \A r \in DOMAIN map : map[r].leaves # Leaves[g] => r \in DOMAIN out /\ out[r] = map[r]
  BY <1>8, <1>11, <1>14, <1>15 DEF rec
<1>18. OnlyOf(g, map, out, Len(y[g].claims), y[g])
  BY <1>16, <1>17 DEF OnlyOf, i
<1>19. HasRecord(out, g)
  BY <1>11, <1>14 DEF HasRecord
<1> QED BY <1>13, <1>18, <1>19, OthersStay

(* A report of a transaction taken back moves the records with the stories.   *)
LEMMA RevertKeeps ==
  ASSUME RootsTell, NEW v, Fits(v), NEW y, Fits(y), NEW e, Undone(v, e, y),
         NEW map, Between(map, v, v), NEW out, RevertEffect(map, e, out)
  PROVE  Between(out, y, y)
<1> DEFINE g == e.family
<1>1. CASE e.kind = "Observed"
  <2>1. ASSUME NEW f \in Families PROVE y[f] = v[f]
    BY <1>1 DEF Undone
  <2>2. out = map
    BY <1>1 DEF RevertEffect
  <2> QED BY <2>1, <2>2 DEF Between
<1>2. CASE e.kind = "Exits"
  <2>1. g \in Families /\ v[g].settled /\ y[g] = NoStory /\ AllBut(g, y, v)
    BY <1>2 DEF Undone
  <2>2. UnsettledEffect(map, e, out) /\ e.family = g
    BY <1>2 DEF RevertEffect
  <2> HIDE DEF g
  <2> QED BY <2>1, <2>2, ExitsGo
<1>3. CASE e.kind = "Claim" /\ LastClaim(v[g], e, y[g]) /\ AllBut(g, y, v) /\ g \in Families
  <2>1. UnspentEffect(map, e, out)
    BY <1>3 DEF RevertEffect
  <2> HIDE DEF g
  <2> QED BY <1>3, <2>1, ClaimGoes
<1>4. CASE /\ e.kind = "Claim" /\ ~v[g].settled /\ NamesRoots(e, g)
           /\ g \in Families /\ \A f \in Families : y[f] = v[f]
  <2>1. UnspentEffect(map, e, out)
    BY <1>4 DEF RevertEffect
  <2> DEFINE P == SUBSET (1..TreeSize(g))
  <2>2. \A F \in P : Root(Leaves[g], F) \notin DOMAIN map
    <3>1. \A F \in P : Root(Leaves[g], F) \in DOMAIN map => RootStandsAt(map, g, v[g], v[g], F)
      <4> HIDE DEF g
      <4> QED BY <1>4, RootStands
    <3>2. \A F : ~RootStandsAt(map, g, v[g], v[g], F)
      BY <1>4 DEF RootStandsAt, Stands
    <3> HIDE DEF P
    <3> QED BY <3>1, <3>2
  <2>3. \E F \in P, G \in P : e.old_root = Root(Leaves[g], F) /\ e.new_root = Root(Leaves[g], G)
    BY <1>4 DEF NamesRoots
  <2> HIDE DEF P, g
  <2>4. e.old_root \notin DOMAIN map /\ e.new_root \notin DOMAIN map
    BY <2>2, <2>3
  <2>5. out = map
    BY <2>1, <2>4 DEF UnspentEffect, Bears
  <2> QED BY <1>4, <2>5 DEF Between
<1> QED BY <1>1, <1>2, <1>3, <1>4 DEF Undone

(* What comes of a start when the reports are worked off, and where the       *)
(* records stand then: a report between two moments of the story is a record  *)
(* of one of its places.                                                      *)
Run(m, start, row, p) == m[0] = start /\ \A i \in 1..p : Effect(m[i - 1], row[i], m[i])

Meets(h, s, start, cs) ==
  \A p \in 0..Len(cs) : AllApply(cs, p) =>
    \A m : Run(m, start, cs, p) => Between(m[p], h[Len(s) - (Len(cs) - p)], h[Len(s)])

(* Stories are told on by the next transaction.                               *)
LEMMA StoriesExtend ==
  ASSUME NEW s, Len(s) \in Nat, NEW h, Stories(h, s), NEW e, Follows(h[Len(s)], e),
         NEW t, Len(t) = Len(s) + 1, t[Len(s) + 1] = e, \A i \in 1..Len(s) : t[i] = s[i]
  PROVE  \E g : /\ Stories(g, t) /\ \A i \in 0..Len(s) : g[i] = h[i]
                /\ g[Len(s) + 1] = Told(h[Len(s)], e, Len(s) + 1)
<1> DEFINE N == Len(s)
           w == Told(h[N], e, N + 1)
           g == [i \in 0..(N + 1) |-> IF i \in 0..N THEN h[i] ELSE w]
<1>1. N \in Nat
  OBVIOUS
<1> HIDE DEF w
<1>2. (\A i \in 0..N : g[i] = h[i]) /\ g[N + 1] = w
  <2> HIDE DEF N
  <2> QED BY <1>1
<1> HIDE DEF g
<1>3. g[0] = Untold
  <2>1. 0 \in 0..N
    OBVIOUS
  <2> QED BY <1>2, <2>1 DEF Stories
<1>4. ASSUME NEW n \in 1..Len(t)
      PROVE  Follows(g[n - 1], t[n]) /\ g[n] = Told(g[n - 1], t[n], n)
  <2>1. CASE n = N + 1
    <3>1. n - 1 = N /\ N \in 0..N /\ t[n] = e
      BY <1>1, <2>1
    <3>2. g[n - 1] = h[N]
      BY <1>2, <3>1
    <3> QED BY <1>2, <2>1, <3>1, <3>2 DEF w
  <2>2. CASE n # N + 1
    <3>1. n \in 1..N /\ n - 1 \in 0..N /\ n \in 0..N
      BY <1>1, <2>2
    <3>2. g[n - 1] = h[n - 1] /\ g[n] = h[n] /\ t[n] = s[n]
      BY <1>2, <3>1
    <3>3. Follows(h[n - 1], s[n]) /\ h[n] = Told(h[n - 1], s[n], n)
      BY <3>1 DEF Stories
    <3> QED BY <3>2, <3>3
  <2> QED BY <2>1, <2>2
<1>5. Stories(g, t)
  BY <1>3, <1>4 DEF Stories
<1> QED BY <1>2, <1>5 DEF w

(* What L1 accepts follows the story.                                         *)
LEMMA ExitsFollow ==
  ASSUME CallsInv, NEW h, Stories(h, l1), NEW f \in Families, SettleExits(f)
  PROVE  \E e : Mine(e) /\ Follows(h[Len(l1)], e)
<1> DEFINE e == [kind |-> "Exits", family |-> f, tx |-> mined + 1]
           N == Len(l1)
<1>1. N \in Nat /\ N \in 0..N
  BY RowOf DEF CallsInv, IsRow
<1>2. Mine(e) /\ ~IsSettled(f)
  BY DEF SettleExits
<1>3. TellsOf(f, h[N][f], l1, N)
  BY <1>1, StoriesTell DEF Tells
<1>4. ~h[N][f].settled
  BY <1>2, <1>3 DEF TellsOf, IsSettled, SettledBy
<1>5. e.kind = "Exits" /\ e.family = f
  OBVIOUS
<1> HIDE DEF e
<1>6. Follows(h[N], e)
  BY <1>4, <1>5 DEF Follows
<1> QED BY <1>2, <1>6

LEMMA ObservedFollows ==
  ASSUME NEW v, NEW root, SettleObserved(root)
  PROVE  \E e : Mine(e) /\ Follows(v, e)
<1> DEFINE e == [kind |-> "Observed", tx |-> mined + 1, permission_spk_hash |-> root]
<1>1. Mine(e) /\ e.kind = "Observed"
  BY DEF SettleObserved
<1> HIDE DEF e
<1>2. Follows(v, e)
  BY <1>1 DEF Follows
<1> QED BY <1>1, <1>2

(* A claim spends the family's newest output and empties a leaf (Anchor, Emptied). *)
LEMMA ClaimIsNext ==
  ASSUME CallsInv, NEW h, Stories(h, l1), NEW f \in Families, NEW leaf, Claim(f, leaf)
  PROVE  \E e : Mine(e) /\ Follows(h[Len(l1)], e)
<1> DEFINE N == Len(l1)
           t == h[N][f]
           done == LeafSet(t.claims, Len(t.claims))
           e == [kind |-> "Claim", family |-> f, tx |-> mined + 1, leaf |-> leaf,
                 spent_outpoint |-> Anchor(f),
                 old_root |-> Root(Leaves[f], Emptied(f)),
                 new_root |-> Root(Leaves[f], Emptied(f) \cup {leaf})]
<1>1. N \in Nat /\ N \in 0..N
  BY RowOf DEF CallsInv, IsRow
<1>2. Mine(e) /\ IsSettled(f) /\ leaf \in 1..TreeSize(f) \ Emptied(f)
  BY DEF Claim, TreeSize
<1>3. TellsOf(f, t, l1, N)
  BY <1>1, StoriesTell DEF Tells
<1>4. StoryFits(f, t)
  <2>1. Fits(h[N])
    BY <1>1, StoriesFit
  <2> QED BY <2>1 DEF Fits
<1>5. t.settled
  BY <1>2, <1>3 DEF TellsOf, IsSettled, SettledBy
<1> HIDE DEF t
<1>6. done \in SUBSET (1..TreeSize(f))
  <2>1. ClaimsFit(f, t.paid, t.claims)
    BY <1>4 DEF StoryFits
  <2>2. Len(t.claims) \in 0..Len(t.claims)
    BY <2>1, RowOf DEF ClaimsFit, IsRow
  <2> QED BY <2>1, <2>2, LeavesOfClaims
<1>7. Emptied(f) = done
  <2>1. \A x : x \in done <=> IsClaimed(f, x)
    BY <1>3 DEF TellsOf, IsClaimed
  <2> HIDE DEF done
  <2> QED BY <1>6, <2>1 DEF Emptied, TreeSize
<1>8. Anchor(f) = AnchorAt(t.paid, t.claims, Len(t.claims))
  <2> DEFINE mine == { i \in 1..Len(l1) : l1[i].kind # "Observed" /\ l1[i].family = f }
             top == CHOOSE i \in mine : \A k \in mine : k <= i
  <2>1. /\ t.at \in 1..N /\ Of(l1[t.at], f)
        /\ \A i \in 1..N : Of(l1[i], f) => i <= t.at
        /\ l1[t.at].tx = AnchorAt(t.paid, t.claims, Len(t.claims))
    BY <1>3, <1>5 DEF TellsOf
  <2>2. t.at \in mine /\ \A k \in mine : k <= t.at
    BY <2>1 DEF Of
  <2>3. top \in mine /\ \A k \in mine : k <= top
    BY <2>2
  <2>4. top = t.at
    <3>1. top \in Nat /\ t.at \in Nat
      BY <2>1, <2>3
    <3>2. top <= t.at /\ t.at <= top
      BY <2>2, <2>3
    <3> HIDE DEF top
    <3> QED BY <3>1, <3>2
  <2>5. Anchor(f) = l1[top].tx
    BY DEF Anchor
  <2> QED BY <2>1, <2>4, <2>5
<1>9. /\ e.kind = "Claim" /\ e.family = f /\ e.leaf = leaf /\ e.spent_outpoint = Anchor(f)
      /\ e.old_root = Root(Leaves[f], Emptied(f))
      /\ e.new_root = Root(Leaves[f], Emptied(f) \cup {leaf})
  OBVIOUS
<1> HIDE DEF e, done
<1>10. ClaimFollows(f, t, e)
  BY <1>2, <1>5, <1>7, <1>8, <1>9 DEF ClaimFollows, done
<1>11. Follows(h[N], e)
  BY <1>9, <1>10 DEF Follows, t
<1> QED BY <1>2, <1>11

(* A run of reports cut short, and put after another one.                     *)
LEMMA RunIsCut ==
  ASSUME NEW m, NEW start, NEW row, NEW p \in Nat, Run(m, start, row, p), NEW q \in 0..p,
         NEW other, \A i \in 1..q : other[i] = row[i]
  PROVE  Run(m, start, other, q)
<1>1. \A i \in 1..q : i \in 1..p
  OBVIOUS
<1> QED BY <1>1 DEF Run

(* A new transaction is reported last.                                        *)
LEMMA MeetsMine ==
  ASSUME RootsTell, CallsInv, NEW e, Mine(e), NEW h, Stories(h, l1), Follows(h[Len(l1)], e),
         NEW start, Meets(h, l1, start, calls)
  PROVE  \E g : Stories(g, l1') /\ Meets(g, l1', start, calls')
<1> DEFINE N == Len(l1)
           K == Len(calls)
<1>1. /\ N \in Nat /\ K \in Nat /\ Len(l1') = N + 1 /\ Len(calls') = K + 1
      /\ l1'[N + 1] = e /\ calls'[K + 1] = Apply(e)
      /\ \A i \in 1..N : l1'[i] = l1[i]
      /\ \A i \in 1..K : calls'[i] = calls[i]
  BY MineAppends
<1>2. PICK g : /\ Stories(g, l1') /\ \A i \in 0..N : g[i] = h[i]
               /\ g[N + 1] = Told(h[N], e, N + 1)
  BY <1>1, StoriesExtend
<1> SUFFICES ASSUME NEW p \in 0..(K + 1), AllApply(calls', p), NEW m, Run(m, start, calls', p)
             PROVE  Between(m[p], g[(N + 1) - ((K + 1) - p)], g[N + 1])
  BY <1>1, <1>2 DEF Meets
<1>3. N \in 0..N /\ Fits(h[N])
  BY <1>1, StoriesFit
<1>4. Fits(g[N + 1]) /\ Before(h[N], g[N + 1])
  BY <1>2, <1>3, ToldFits, ToldIsAfter
<1>5. /\ AllApply(calls, IF p = K + 1 THEN K ELSE p)
      /\ IF p = K + 1 THEN TRUE ELSE K - p <= N
  <2>1. CASE p = K + 1
    <3>1. \A i \in (K + 1)..K : FALSE
      BY <1>1
    <3> QED BY <2>1, <3>1 DEF AllApply
  <2>2. CASE p # K + 1
    <3>1. \A i \in (p + 1)..K : i \in (p + 1)..(K + 1) /\ i \in 1..K
      BY <1>1
    <3>2. AllApply(calls, p)
      BY <1>1, <3>1 DEF AllApply
    <3>3. p \in 0..K
      BY <1>1, <2>2
    <3> QED BY <2>2, <3>2, <3>3 DEF CallsInv
  <2> QED BY <2>1, <2>2
<1>6. CASE p # K + 1
  <2>1. p \in 0..K /\ AllApply(calls, p) /\ K - p <= N /\ p \in Nat
    BY <1>1, <1>5, <1>6
  <2>2. N - (K - p) \in 0..N /\ (N + 1) - ((K + 1) - p) = N - (K - p) /\ p \in 0..p
    BY <1>1, <2>1
  <2>3. \A i \in 1..p : calls[i] = calls'[i]
    <3>1. \A i \in 1..p : i \in 1..K
      BY <1>1, <2>1
    <3> QED BY <1>1, <3>1
  <2>4. Run(m, start, calls, p)
    BY <2>1, <2>2, <2>3, RunIsCut
  <2>5. Between(m[p], h[N - (K - p)], h[N])
    BY <2>1, <2>4 DEF Meets
  <2>6. Fits(h[N - (K - p)])
    BY <1>1, <2>2, StoriesFit
  <2>7. Before(h[N - (K - p)], h[N - (K - p)])
    BY <2>6, BeforeIsOrder
  <2>8. Between(m[p], h[N - (K - p)], g[N + 1])
    BY <1>3, <1>4, <2>5, <2>6, <2>7, BetweenWidens
  <2> QED BY <1>2, <2>2, <2>8
<1>7. CASE p = K + 1
  <2>1. K \in 0..K /\ K \in 0..p /\ p \in Nat /\ N - (K - K) = N /\ p \in 1..p /\ p - 1 = K
        /\ (N + 1) - ((K + 1) - p) = N + 1
    BY <1>1, <1>7
  <2>2. Run(m, start, calls, K)
    BY <1>1, <2>1, RunIsCut
  <2>3. Between(m[K], h[N], h[N])
    <3>1. AllApply(calls, K)
      BY <1>5, <1>7
    <3>2. Between(m[K], h[N - (K - K)], h[N])
      BY <2>1, <2>2, <3>1 DEF Meets
    <3> QED BY <2>1, <3>2
  <2>4. Before(h[N], h[N]) /\ Before(g[N + 1], g[N + 1])
    BY <1>3, <1>4, BeforeIsOrder
  <2>5. Between(m[K], h[N], g[N + 1])
    BY <1>3, <1>4, <2>3, <2>4, BetweenWidens
  <2>6. Effect(m[K], Apply(e), m[p])
    BY <1>1, <1>7, <2>1 DEF Run
  <2>7. ApplyEffect(m[K], e, m[p])
    BY <2>6 DEF Effect, Apply
  <2>8. Between(m[p], Told(h[N], e, N + 1), g[N + 1])
    <3>1. Before(Told(h[N], e, N + 1), g[N + 1])
      BY <1>2, <2>4
    <3> QED BY <1>3, <1>4, <2>5, <2>7, <3>1, ApplyKeeps
  <2> QED BY <1>2, <2>1, <2>8
<1> QED BY <1>6, <1>7

(* The oldest report is done.                                                 *)
LEMMA MeetsCommit ==
  ASSUME CallsInv, Commit, NEW h, NEW start, Meets(h, l1, start, calls),
         NEW out, Effect(start, calls[1], out)
  PROVE  Meets(h, l1, out, calls')
<1> DEFINE N == Len(l1)
           K == Len(calls)
<1>1. /\ K \in Nat \ {0} /\ Len(calls') = K - 1
      /\ \A i \in 1..(K - 1) : calls'[i] = calls[i + 1]
  BY CommitShifts
<1>2. N \in Nat
  BY RowOf DEF CallsInv, IsRow
<1> SUFFICES ASSUME NEW p \in 0..(K - 1), AllApply(calls', p), NEW m, Run(m, out, calls', p)
             PROVE  Between(m[p], h[N - ((K - 1) - p)], h[N])
  BY <1>1 DEF Meets
<1> DEFINE all == [i \in 0..(p + 1) |-> IF i = 0 THEN start ELSE m[i - 1]]
<1>3. p \in Nat /\ p + 1 \in 0..K /\ N - (K - (p + 1)) = N - ((K - 1) - p) /\ p + 1 \in 0..(p + 1)
      /\ (p + 1) - 1 = p /\ p + 1 # 0 /\ 0 \in 0..(p + 1)
  <2> HIDE DEF K, N
  <2>1. p \in Nat /\ p + 1 \in 0..K
    BY <1>1
  <2>2. N - (K - (p + 1)) = N - ((K - 1) - p)
    BY <1>1, <1>2, <2>1
  <2> QED BY <2>1, <2>2
<1>4. AllApply(calls, p + 1)
  <2>1. ASSUME NEW i \in (p + 1 + 1)..Len(calls) PROVE calls[i].hook = "apply"
    <3>1. i - 1 \in (p + 1)..Len(calls') /\ i - 1 \in 1..(K - 1) /\ (i - 1) + 1 = i
      BY <1>1
    <3>2. calls'[i - 1] = calls[i]
      BY <1>1, <3>1
    <3> QED BY <3>1, <3>2 DEF AllApply
  <2> QED BY <2>1 DEF AllApply
<1>5. all[p + 1] = m[p] /\ all[0] = start
  BY <1>3
<1>6. ASSUME NEW i \in 1..(p + 1) PROVE Effect(all[i - 1], calls[i], all[i])
  <2>1. i \in 0..(p + 1) /\ i # 0 /\ all[i] = m[i - 1] /\ i - 1 \in 0..(p + 1)
    OBVIOUS
  <2>2. CASE i = 1
    <3>1. all[i - 1] = start /\ all[i] = m[0] /\ calls[i] = calls[1]
      BY <1>5, <2>1, <2>2
    <3>2. m[0] = out
      BY DEF Run
    <3> HIDE DEF all
    <3> QED BY <3>1, <3>2
  <2>3. CASE i # 1
    <3>1. i - 1 \in 1..p /\ i - 1 # 0 /\ i - 1 \in 1..(K - 1) /\ (i - 1) + 1 = i
      BY <1>1, <2>3
    <3>2. all[i - 1] = m[(i - 1) - 1]
      BY <2>1, <3>1
    <3>3. Effect(m[(i - 1) - 1], calls'[i - 1], m[i - 1]) /\ calls'[i - 1] = calls[i]
      BY <1>1, <3>1 DEF Run
    <3> HIDE DEF all
    <3> QED BY <2>1, <3>2, <3>3
  <2> QED BY <2>2, <2>3
<1> HIDE DEF all
<1>7. Run(all, start, calls, p + 1)
  BY <1>5, <1>6 DEF Run
<1>8. Between(all[p + 1], h[N - (K - (p + 1))], h[N])
  BY <1>3, <1>4, <1>7 DEF Meets
<1> QED BY <1>3, <1>5, <1>8

(* A catch-up reports again what the store may already have.                  *)
LEMMA MeetsRestart ==
  ASSUME RootsTell, CallsInv, Restart, NEW h, Stories(h, l1),
         NEW start, Meets(h, l1, start, calls)
  PROVE  Meets(h, l1, start, calls')
<1> DEFINE N == Len(l1)
           K == Len(calls)
           L == Len(calls')
<1>1. CASE calls' = calls
  BY <1>1
<1>2. CASE calls' # calls
  <2>0. N \in Nat /\ K \in Nat
    BY RowOf DEF CallsInv, IsRow
  <2>1. PICK n \in 0..(N - K) :
           /\ AllApply(calls, 0) /\ K <= N /\ L = N - n /\ L \in Nat
           /\ \A i \in 1..L : calls'[i] = Apply(l1[n + i])
    BY <1>2, RestartReplays
  <2>2. n \in 0..N /\ N - K \in 0..N /\ N - K \in n..N /\ N \in 0..N /\ n \in Nat /\ 0 \in 0..K
        /\ N - (K - 0) = N - K
    BY <2>0, <2>1
  <2>3. Fits(h[n]) /\ Fits(h[N - K]) /\ Fits(h[N])
    BY <2>0, <2>2, StoriesFit
  <2>4. Before(h[n], h[N - K]) /\ Before(h[N], h[N])
    BY <2>0, <2>2, <2>3, StoriesGoOn, BeforeIsOrder
  <2> SUFFICES ASSUME NEW p \in 0..L, NEW m, Run(m, start, calls', p)
               PROVE  Between(m[p], h[N - (L - p)], h[N])
    BY DEF Meets
  <2>5. Between(m[0], h[n], h[N])
    <3>1. Run(m, start, calls, 0)
      BY DEF Run
    <3>2. Between(m[0], h[N - (K - 0)], h[N])
      BY <2>1, <2>2, <3>1 DEF Meets
    <3> QED BY <2>2, <2>3, <2>4, <3>2, BetweenWidens
  <2> DEFINE Good == { q \in Nat : q <= p => Between(m[q], h[n + q], h[N]) }
  <2>6. 0 \in Good
    <3>1. n + 0 = n
      BY <2>2
    <3> QED BY <2>5, <3>1
  <2>7. ASSUME NEW q \in Nat, q \in Good PROVE q + 1 \in Good
    <3> SUFFICES ASSUME q + 1 <= p PROVE Between(m[q + 1], h[n + (q + 1)], h[N])
      OBVIOUS
    <3> DEFINE a == n + q
               b == a + 1
    <3>1. /\ q + 1 \in 1..p /\ (q + 1) - 1 = q /\ q + 1 \in 1..L /\ a \in 0..N /\ b \in 1..N
          /\ b - 1 = a /\ n + (q + 1) = b /\ b \in 0..N /\ N \in b..N /\ q <= p
      BY <2>0, <2>1, <2>2
    <3>2. Between(m[q], h[a], h[N])
      BY <2>7, <3>1
    <3> HIDE DEF Good, a, b
    <3>3. Effect(m[q], Apply(l1[b]), m[q + 1])
      <4>1. calls'[q + 1] = Apply(l1[b])
        BY <2>1, <3>1
      <4> QED BY <3>1, <4>1 DEF Run
    <3>4. ApplyEffect(m[q], l1[b], m[q + 1])
      BY <3>3 DEF Effect, Apply
    <3>5. Follows(h[a], l1[b]) /\ h[b] = Told(h[a], l1[b], b)
      BY <3>1 DEF Stories
    <3>6. Fits(h[a]) /\ Before(h[b], h[N])
      BY <2>0, <3>1, StoriesFit, StoriesGoOn
    <3>7. Between(m[q + 1], Told(h[a], l1[b], b), h[N])
      <4>1. Before(Told(h[a], l1[b], b), h[N])
        BY <3>5, <3>6
      <4> QED BY <2>3, <3>2, <3>4, <3>5, <3>6, <4>1, ApplyKeeps
    <3> QED BY <3>1, <3>5, <3>7
  <2>8. p \in Good
    <3> HIDE DEF Good
    <3> QED BY <2>6, <2>7, NatSetInduction
  <2>9. N - (L - p) = n + p
    BY <2>0, <2>1, <2>2
  <2> QED BY <2>8, <2>9
<1> QED BY <1>1, <1>2

(* The reports of a reorg: the newest transactions, newest first, or those    *)
(* that settle before those that claim.                                       *)
Splits(back, gone) ==
  \E one, two :
    /\ one = Only(gone, {"Exits", "Observed"}) /\ two = Only(gone, {"Claim"})
    /\ Len(one) \in Nat /\ Len(two) \in Nat /\ Len(back) = Len(one) + Len(two)
    /\ \A i \in 1..Len(one) : back[i] = Revert(one[i])
    /\ \A i \in 1..Len(two) : back[Len(one) + i] = Revert(two[i])

ReorgTo(n, gone, back) ==
  /\ n \in 0..(Len(l1) - 1) /\ Len(l1') = n /\ \A i \in 1..n : l1'[i] = l1[i]
  /\ IsRow(gone) /\ Len(gone) = Len(l1) - n
  /\ \A i \in 1..Len(gone) : gone[i] = l1[Len(l1) + 1 - i]
  /\ Len(back) \in Nat \ {0} /\ Len(calls') = Len(calls) + Len(back)
  /\ \A i \in 1..Len(calls) : calls'[i] = calls[i]
  /\ \A i \in 1..Len(back) : calls'[Len(calls) + i] = back[i] /\ back[i].hook = "revert"
  /\ \/ Len(back) = Len(gone) /\ \A i \in 1..Len(gone) : back[i] = Revert(gone[i])
     \/ Splits(back, gone)

(* The orders in which a reorg is reported.                                   *)
LEMMA ReorgOrders ==
  ASSUME CallsInv, Reorg
  PROVE  \E n, gone, back : ReorgTo(n, gone, back)
<1>0. IsRow(l1) /\ IsRow(calls) /\ Len(l1) \in Nat /\ Len(calls) \in Nat
  BY RowOf DEF CallsInv, IsRow
<1>1. PICK n \in 0..(Len(l1) - 1) :
        LET gone == Backwards(SubSeq(l1, n + 1, Len(l1)))
        IN  /\ l1' = SubSeq(l1, 1, n)
            /\ \/ calls' = calls \o Reverts(gone)
               \/ calls' = calls \o Reverts(Only(gone, {"Exits", "Observed"}))
                                 \o Reverts(Only(gone, {"Claim"}))
  BY DEF Reorg
<1> DEFINE cut == SubSeq(l1, n + 1, Len(l1))
           gone == Backwards(cut)
           size == Len(l1) - n
<1>2. /\ n \in Nat /\ size \in Nat \ {0}
      /\ IsRow(cut) /\ Len(cut) = size
      /\ \A i \in 1..size : cut[i] = l1[n + i]
  <2>1. n \in Nat /\ size \in Nat \ {0} /\ n <= Len(l1)
    BY <1>0
  <2> QED BY <1>0, <2>1, RowIsCut
<1> HIDE DEF cut
<1>3. /\ IsRow(gone) /\ Len(gone) = size
      /\ \A i \in 1..size : gone[i] = l1[Len(l1) + 1 - i]
  <2>1. gone = [i \in 1..size |-> cut[size + 1 - i]]
    BY <1>2 DEF Backwards
  <2>2. gone = [i \in 1..size |-> gone[i]]
    BY <2>1
  <2>3. ASSUME NEW i \in 1..size PROVE gone[i] = l1[Len(l1) + 1 - i]
    <3>1. size + 1 - i \in 1..size /\ n + (size + 1 - i) = Len(l1) + 1 - i
      BY <1>0, <1>2
    <3> QED BY <1>2, <2>1, <3>1
  <2> HIDE DEF gone
  <2> QED BY <1>2, <2>2, <2>3, RowIsMade
<1> HIDE DEF gone
<1>4. Len(l1') = n /\ \A i \in 1..n : l1'[i] = l1[i]
  <2> DEFINE first == SubSeq(l1, 0 + 1, n)
  <2>1. IsRow(first) /\ Len(first) = n - 0 /\ \A i \in 1..(n - 0) : first[i] = l1[0 + i]
    <3>1. 0 \in Nat /\ n \in Nat /\ 0 <= n /\ n <= Len(l1)
      BY <1>0, <1>2
    <3> QED BY <1>0, <3>1, RowIsCut
  <2>2. l1' = first
    BY <1>1
  <2> HIDE DEF first
  <2> QED BY <1>2, <2>1, <2>2
<1>5. ASSUME NEW back, IsRow(back), Len(back) \in Nat \ {0}, calls' = calls \o back,
             \A i \in 1..Len(back) : back[i].hook = "revert",
             \/ Len(back) = Len(gone) /\ \A i \in 1..Len(gone) : back[i] = Revert(gone[i])
             \/ Splits(back, gone)
      PROVE  ReorgTo(n, gone, back)
  <2>1. /\ IsRow(calls \o back) /\ Len(calls \o back) = Len(calls) + Len(back)
        /\ \A i \in 1..Len(calls) : (calls \o back)[i] = calls[i]
        /\ \A i \in 1..Len(back) : (calls \o back)[Len(calls) + i] = back[i]
    BY <1>0, <1>5, RowJoins
  <2> QED BY <1>3, <1>4, <1>5, <2>1 DEF ReorgTo
<1>6. CASE calls' = calls \o Reverts(gone)
  <2> DEFINE back == Reverts(gone)
  <2>1. /\ IsRow(back) /\ Len(back) = size
        /\ \A i \in 1..size : back[i] = Revert(gone[i])
    BY <1>3, RevertsOfRow
  <2>2. calls' = calls \o back
    BY <1>6
  <2> HIDE DEF back
  <2>3. ASSUME NEW i \in 1..Len(back) PROVE back[i].hook = "revert"
    <3>1. back[i] = Revert(gone[i])
      BY <2>1
    <3> QED BY <3>1 DEF Revert
  <2>4. ReorgTo(n, gone, back)
    <3>1. Len(back) \in Nat \ {0} /\ Len(back) = Len(gone)
      BY <1>2, <1>3, <2>1
    <3>2. \A i \in 1..Len(gone) : back[i] = Revert(gone[i])
      BY <1>3, <2>1
    <3> QED BY <1>5, <2>1, <2>2, <2>3, <3>1, <3>2
  <2> QED BY <2>4
<1>7. CASE calls' = calls \o Reverts(Only(gone, {"Exits", "Observed"}))
                      \o Reverts(Only(gone, {"Claim"}))
  <2> DEFINE one == Only(gone, {"Exits", "Observed"})
             two == Only(gone, {"Claim"})
             back == Reverts(one) \o Reverts(two)
  <2>1. Chosen(one, gone, size, {"Exits", "Observed"}) /\ Chosen(two, gone, size, {"Claim"})
    BY <1>3, OnlyChooses
  <2>e. one = Only(gone, {"Exits", "Observed"}) /\ two = Only(gone, {"Claim"})
    OBVIOUS
  <2> HIDE DEF one, two
  <2>2. IsRow(one) /\ IsRow(two)
    BY <2>1 DEF Chosen
  <2>3. /\ IsRow(Reverts(one)) /\ Len(Reverts(one)) = Len(one) /\ Len(one) \in Nat
        /\ \A i \in 1..Len(one) : Reverts(one)[i] = Revert(one[i])
    BY <2>2, RevertsOfRow
  <2>4. /\ IsRow(Reverts(two)) /\ Len(Reverts(two)) = Len(two) /\ Len(two) \in Nat
        /\ \A i \in 1..Len(two) : Reverts(two)[i] = Revert(two[i])
    BY <2>2, RevertsOfRow
  <2>5. /\ IsRow(back)
        /\ Len(back) = Len(one) + Len(two)
        /\ \A i \in 1..Len(one) : back[i] = Revert(one[i])
        /\ \A i \in 1..Len(two) : back[Len(one) + i] = Revert(two[i])
    <3>1. /\ IsRow(back) /\ Len(back) = Len(Reverts(one)) + Len(Reverts(two))
          /\ \A i \in 1..Len(Reverts(one)) : back[i] = Reverts(one)[i]
          /\ \A i \in 1..Len(Reverts(two)) : back[Len(Reverts(one)) + i] = Reverts(two)[i]
      BY <2>3, <2>4, RowJoins
    <3> HIDE DEF back
    <3> QED BY <2>3, <2>4, <3>1
  <2>6. calls' = calls \o back
    <3>1. calls' = (calls \o Reverts(one)) \o Reverts(two)
      BY <1>7 DEF one, two
    <3>2. IsRow(calls) /\ IsRow(Reverts(one)) /\ IsRow(Reverts(two))
      BY <1>0, <2>3, <2>4
    <3> HIDE DEF back
    <3>3. Associates(calls, Reverts(one), Reverts(two))
      BY <3>2, RowAssoc
    <3> QED BY <3>1, <3>3 DEF Associates, back
  <2> HIDE DEF back
  <2>7. Splits(back, gone)
    BY <2>3, <2>4, <2>5, <2>e DEF Splits
  <2>8. \A i \in 1..Len(back) : back[i].hook = "revert"
    <3> TAKE i \in 1..Len(back)
    <3>1. CASE i \in 1..Len(one)
      <4>1. back[i] = Revert(one[i])
        BY <2>5, <3>1
      <4> QED BY <4>1 DEF Revert
    <3>2. CASE ~(i \in 1..Len(one))
      <4>1. i - Len(one) \in 1..Len(two) /\ Len(one) + (i - Len(one)) = i
        BY <2>3, <2>4, <2>5, <3>2
      <4>2. back[i] = Revert(two[i - Len(one)])
        BY <2>5, <4>1
      <4> QED BY <4>2 DEF Revert
    <3> QED BY <3>1, <3>2
  <2>9. Len(back) # 0
    <3>1. 1 \in 1..size
      BY <1>2
    <3>2. gone[1].kind \in {"Exits", "Observed", "Claim"}
      <4>1. Len(l1) + 1 - 1 \in 1..Len(l1)
        BY <1>0, <1>2
      <4> QED BY <1>3, <3>1, <4>1 DEF CallsInv
    <3>3. CASE gone[1].kind \in {"Exits", "Observed"}
      <4>1. \E i \in 1..Len(one) : one[i] = gone[1]
        BY <2>1, <3>1, <3>3 DEF Chosen
      <4> QED BY <2>3, <2>4, <2>5, <4>1
    <3>4. CASE gone[1].kind \in {"Claim"}
      <4>1. \E i \in 1..Len(two) : two[i] = gone[1]
        BY <2>1, <3>1, <3>4 DEF Chosen
      <4> QED BY <2>3, <2>4, <2>5, <4>1
    <3> QED BY <3>2, <3>3, <3>4
  <2>10. Len(back) \in Nat \ {0}
    BY <2>3, <2>4, <2>5, <2>9
  <2>11. ReorgTo(n, gone, back)
    BY <1>5, <2>5, <2>6, <2>7, <2>8, <2>10
  <2> QED BY <2>11
<1> QED BY <1>1, <1>6, <1>7 DEF gone, cut

(* A transaction that followed the story is undone by going back to it.       *)
Alike(v, y) == \A f \in Families : y[f] = v[f]

TakenBack(w, e, v) ==
  /\ e.kind = "Observed" => Alike(w, v)
  /\ e.kind = "Exits" => /\ e.family \in Families /\ w[e.family].settled
                         /\ v[e.family] = NoStory /\ AllBut(e.family, v, w)
  /\ e.kind = "Claim" => /\ e.family \in Families /\ LastClaim(w[e.family], e, v[e.family])
                         /\ AllBut(e.family, v, w) /\ NamesRoots(e, e.family)

LEMMA ToldUndone ==
  ASSUME NEW v, Fits(v), NEW e, Follows(v, e), NEW n
  PROVE  TakenBack(Told(v, e, n), e, v)
<1> DEFINE w == Told(v, e, n)
           g == e.family
<1>1. ASSUME NEW f \in Families, e.kind = "Observed" \/ f # g PROVE w[f] = v[f]
  BY <1>1 DEF Told
<1>2. ASSUME e.kind = "Exits"
      PROVE  g \in Families /\ w[g].settled /\ v[g] = NoStory
  <2>1. g \in Families /\ ~v[g].settled
    BY <1>2 DEF Follows
  <2>2. w[g] = [settled |-> TRUE, paid |-> e.tx, claims |-> <<>>, at |-> n]
    BY <1>2, <2>1 DEF Told
  <2>3. v[g] = NoStory
    BY <2>1, StoryNumbers
  <2> HIDE DEF w
  <2> QED BY <2>1, <2>2, <2>3
<1>3. ASSUME e.kind = "Claim"
      PROVE  g \in Families /\ LastClaim(w[g], e, v[g]) /\ NamesRoots(e, g)
  <2> DEFINE t == v[g]
             done == LeafSet(t.claims, Len(t.claims))
             c == Append(t.claims, e)
  <2>1. g \in Families /\ ClaimFollows(g, t, e) /\ t.settled
    BY <1>3 DEF Follows, ClaimFollows
  <2>2. w[g] = [settled |-> TRUE, paid |-> t.paid, claims |-> c, at |-> n]
    BY <1>3, <2>1 DEF Told
  <2>3. StoryFits(g, t)
    BY <2>1 DEF Fits
  <2> HIDE DEF w, t, g
  <2>4. w[g].settled = TRUE /\ w[g].paid = t.paid /\ w[g].claims = c
    BY <2>2
  <2>5. /\ Len(t.claims) \in Nat /\ Len(c) = Len(t.claims) + 1 /\ c[Len(t.claims) + 1] = e
        /\ \A i \in 1..Len(t.claims) : c[i] = t.claims[i]
    BY <2>1, <2>3, ClaimsGrow
  <2> HIDE DEF c
  <2>6. GoesOn(t, w[g])
    BY <2>4, <2>5 DEF GoesOn
  <2>7. LastClaim(w[g], e, t)
    BY <2>1, <2>4, <2>5, <2>6 DEF LastClaim
  <2>8. NamesRoots(e, g)
    <3>1. done \in SUBSET (1..TreeSize(g))
      <4>1. ClaimsFit(g, t.paid, t.claims)
        BY <2>3 DEF StoryFits
      <4>2. Len(t.claims) \in 0..Len(t.claims)
        BY <2>5
      <4> QED BY <2>1, <4>1, <4>2, LeavesOfClaims
    <3>2. /\ e.leaf \in 1..TreeSize(g)
          /\ e.old_root = Root(Leaves[g], done) /\ e.new_root = Root(Leaves[g], done \cup {e.leaf})
      BY <2>1 DEF ClaimFollows
    <3> DEFINE P == SUBSET (1..TreeSize(g))
               more == done \cup {e.leaf}
    <3>3. done \in P /\ more \in P
      BY <3>1, <3>2
    <3>4. e.old_root = Root(Leaves[g], done) /\ e.new_root = Root(Leaves[g], more)
      BY <3>2
    <3> HIDE DEF P, more, done
    <3>5. \E F \in P, G \in P : e.old_root = Root(Leaves[g], F) /\ e.new_root = Root(Leaves[g], G)
      BY <3>3, <3>4
    <3> QED BY <3>5 DEF NamesRoots, P
  <2> QED BY <2>1, <2>7, <2>8 DEF t
<1> HIDE DEF w, g
<1>4. AllBut(g, v, w)
  BY <1>1 DEF AllBut
<1>5. e.kind = "Observed" => Alike(w, v)
  BY Zenon, <1>1 DEF Alike
<1>6. TakenBack(w, e, v)
  BY <1>2, <1>3, <1>4, <1>5 DEF TakenBack, g
<1> QED BY <1>6 DEF w

(* The stories while the reverts of some kinds are worked off.                *)
Walk(V, s, kinds) ==
  /\ \A k \in 0..Len(s) : Fits(V[k])
  /\ \A k \in 1..Len(s) :
       IF s[k].kind \in kinds THEN Undone(V[k - 1], s[k], V[k]) ELSE Alike(V[k - 1], V[k])

(* Records between stories that are alike.                                    *)
LEMMA AlikeKeeps ==
  ASSUME NEW v, NEW y, Alike(v, y), NEW map, Between(map, v, v)
  PROVE  Between(map, y, y)
BY DEF Alike, Between

(* Reverts worked off one by one keep the records with the stories.           *)
LEMMA RevertsRun ==
  ASSUME RootsTell, NEW s, IsRow(s), NEW kinds, NEW row, NEW count, Counts(count, row, s, kinds),
         NEW V, Walk(V, s, kinds), NEW m, NEW off \in Nat,
         \A i \in 1..Len(row) : Effect(m[off + i - 1], Revert(row[i]), m[off + i]),
         Between(m[off], V[0], V[0])
  PROVE  Between(m[off + Len(row)], V[Len(s)], V[Len(s)])
<1> DEFINE size == Len(s)
           Good == { k \in Nat : k <= size => Between(m[off + count[k]], V[k], V[k]) }
<1>0. size \in Nat
  BY RowOf DEF IsRow
<1>1. 0 \in Good
  <2>1. off + count[0] = off
    BY DEF Counts
  <2> QED BY <2>1
<1>2. ASSUME NEW k \in Nat, k \in Good PROVE k + 1 \in Good
  <2> SUFFICES ASSUME k + 1 <= size PROVE Between(m[off + count[k + 1]], V[k + 1], V[k + 1])
    OBVIOUS
  <2> DEFINE n == k + 1
             e == s[n]
  <2>1. n \in 1..size /\ n - 1 = k /\ n \in 0..size /\ k \in 0..size /\ k <= size
    BY <1>0
  <2>2. Between(m[off + count[k]], V[k], V[k])
    BY <1>2, <2>1
  <2> HIDE DEF Good, n
  <2>3. Fits(V[k]) /\ Fits(V[n])
    BY <2>1 DEF Walk
  <2>4. CASE e.kind \in kinds
    <3>1. count[n] = count[k] + 1 /\ count[n] \in 1..Len(row) /\ row[count[n]] = e
          /\ count[k] \in Nat
      BY <2>1, <2>4 DEF Counts
    <3>2. off + count[n] - 1 = off + count[k]
      BY <3>1
    <3>3. Effect(m[off + count[n] - 1], Revert(row[count[n]]), m[off + count[n]])
      BY <3>1
    <3>4. Effect(m[off + count[k]], Revert(e), m[off + count[n]])
      BY <3>1, <3>2, <3>3
    <3>5. RevertEffect(m[off + count[k]], e, m[off + count[n]])
      BY <3>4 DEF Effect, Revert
    <3>6. Undone(V[k], e, V[n])
      BY <2>1, <2>4 DEF Walk
    <3>7. Between(m[off + count[n]], V[n], V[n])
      BY <2>2, <2>3, <3>5, <3>6, RevertKeeps
    <3> QED BY <3>7 DEF n
  <2>5. CASE e.kind \notin kinds
    <3>1. count[n] = count[k] /\ Alike(V[k], V[n])
      BY <2>1, <2>5 DEF Counts, Walk
    <3>2. Between(m[off + count[n]], V[n], V[n])
      BY <2>2, <3>1, AlikeKeeps
    <3> QED BY <3>2 DEF n
  <2> QED BY <2>4, <2>5
<1>3. size \in Good
  <2> HIDE DEF Good
  <2> QED BY <1>0, <1>1, <1>2, NatSetInduction
<1>4. count[size] = Len(row)
  BY DEF Counts
<1>5. Between(m[off + count[size]], V[size], V[size])
  <2>1. size <= size
    BY <1>0
  <2> HIDE DEF size
  <2> QED BY <1>3, <2>1
<1> QED BY <1>4, <1>5

(* Newest first, the stories go back one by one.                              *)
Rewinding(h, s, n, gone) ==
  /\ Len(s) \in Nat /\ n \in 0..Len(s) /\ Stories(h, s)
  /\ IsRow(gone) /\ Len(gone) = Len(s) - n
  /\ \A i \in 1..Len(gone) : gone[i] = s[Len(s) + 1 - i]

OneBack(h, s, n, gone, k, j) ==
  /\ j - 1 \in 0..Len(s) /\ j \in 0..Len(s) /\ j - 1 \in n..Len(s)
  /\ j = Len(s) - (k - 1) /\ j - 1 = Len(s) - k /\ gone[k] = s[j]
  /\ Before(h[n], h[j - 1]) /\ Before(h[j], h[Len(s)])
  /\ TakenBack(h[j], s[j], h[j - 1])

(* The k-th transaction taken back leads to the stories before it.            *)
LEMMA RewindsOne ==
  ASSUME NEW h, NEW s, NEW n, NEW gone, Rewinding(h, s, n, gone), NEW k \in 1..Len(gone)
  PROVE  \E j \in 1..Len(s) : OneBack(h, s, n, gone, k, j)
<1> DEFINE j == Len(s) + 1 - k
<1>1. /\ j \in 1..Len(s) /\ j \in 0..Len(s) /\ j - 1 \in 0..Len(s)
      /\ j - 1 \in n..Len(s) /\ j \in n..Len(s)
      /\ j = Len(s) - (k - 1) /\ j - 1 = Len(s) - k
  BY DEF Rewinding
<1>2. gone[k] = s[j]
  BY DEF Rewinding
<1> HIDE DEF j
<1>3. Follows(h[j - 1], s[j]) /\ h[j] = Told(h[j - 1], s[j], j)
  BY <1>1 DEF Rewinding, Stories
<1>4. Fits(h[j]) /\ Fits(h[j - 1])
  BY <1>1, StoriesFit DEF Rewinding
<1>5. Before(h[n], h[j - 1]) /\ Before(h[j], h[Len(s)])
  <2>1. Len(s) \in j..Len(s) /\ n \in 0..Len(s) /\ Len(s) \in Nat /\ Stories(h, s)
    BY <1>1 DEF Rewinding
  <2> QED BY <1>1, <2>1, StoriesGoOn
<1>6. TakenBack(h[j], s[j], h[j - 1])
  BY <1>3, <1>4, ToldUndone
<1>7. OneBack(h, s, n, gone, k, j)
  BY <1>1, <1>2, <1>5, <1>6 DEF OneBack
<1> QED BY <1>1, <1>7

(* In order, the stories walk back along the chain.                           *)
LEMMA WalkInOrder ==
  ASSUME NEW h, NEW s, NEW n, NEW gone, Rewinding(h, s, n, gone),
         \A i \in 1..Len(s) : s[i].kind \in {"Exits", "Observed", "Claim"}
  PROVE  Walk([k \in 0..Len(gone) |-> h[Len(s) - k]], gone, {"Exits", "Observed", "Claim"})
<1> DEFINE V == [k \in 0..Len(gone) |-> h[Len(s) - k]]
<1>0. Len(gone) \in Nat /\ Len(s) \in Nat /\ n \in Nat /\ Len(gone) = Len(s) - n
  BY RowOf DEF Rewinding, IsRow
<1>1. ASSUME NEW k \in 0..Len(gone) PROVE Fits(V[k])
  <2>1. Len(s) - k \in 0..Len(s) /\ V[k] = h[Len(s) - k]
    BY <1>0
  <2> QED BY <1>0, <2>1, StoriesFit DEF Rewinding
<1>2. ASSUME NEW k \in 1..Len(gone)
      PROVE  Undone(V[k - 1], gone[k], V[k]) /\ gone[k].kind \in {"Exits", "Observed", "Claim"}
  <2>0. PICK j \in 1..Len(s) : OneBack(h, s, n, gone, k, j)
    BY RewindsOne
  <2>1. /\ j = Len(s) - (k - 1) /\ j - 1 = Len(s) - k
        /\ gone[k] = s[j] /\ TakenBack(h[j], s[j], h[j - 1])
    BY <2>0 DEF OneBack
  <2>2. V[k - 1] = h[j] /\ V[k] = h[j - 1]
    <3>1. k \in 0..Len(gone) /\ k - 1 \in 0..Len(gone)
      BY <1>0
    <3> QED BY <2>1, <3>1
  <2>3. s[j].kind \in {"Exits", "Observed", "Claim"}
    OBVIOUS
  <2> HIDE DEF V
  <2>4. Undone(h[j], s[j], h[j - 1])
    BY <2>1, <2>3 DEF Undone, TakenBack, Alike
  <2> QED BY <2>1, <2>2, <2>3, <2>4
<1> HIDE DEF V
<1>3. Walk(V, gone, {"Exits", "Observed", "Claim"})
  BY <1>1, <1>2 DEF Walk
<1> QED BY <1>3 DEF V

(* Settlements first: a family whose settlement is still reported keeps its   *)
(* claims.                                                                    *)
StillSettled(h, s, k) ==
  [f \in Families |-> IF h[Len(s) - k][f].settled THEN h[Len(s)][f] ELSE NoStory]

(* Stories of some of the families fit.                                       *)
LEMMA PartFits ==
  ASSUME NEW v, Fits(v), NEW y, y = [f \in Families |-> y[f]],
         \A f \in Families : y[f] = v[f] \/ y[f] = NoStory
  PROVE  Fits(y)
<1>1. ASSUME NEW f \in Families PROVE StoryFits(f, y[f])
  <2>1. StoryFits(f, v[f])
    BY DEF Fits
  <2>2. StoryFits(f, NoStory)
    BY NoClaims DEF StoryFits, NoStory, ClaimsFit
  <2>3. y[f] = v[f] \/ y[f] = NoStory
    OBVIOUS
  <2> QED BY <2>1, <2>2, <2>3
<1> QED BY Zenon, <1>1 DEF Fits

(* Reverting the settlements leaves the families still settled as they were.  *)
LEMMA WalkSettlements ==
  ASSUME NEW h, NEW s, NEW n, NEW gone, Rewinding(h, s, n, gone),
         \A i \in 1..Len(s) : s[i].kind \in {"Exits", "Observed", "Claim"}
  PROVE  Walk([k \in 0..Len(gone) |-> StillSettled(h, s, k)], gone, {"Exits", "Observed"})
<1> DEFINE V == [k \in 0..Len(gone) |-> StillSettled(h, s, k)]
           top == h[Len(s)]
<1>0. Len(gone) \in Nat /\ Len(s) \in Nat /\ n \in Nat /\ Len(gone) = Len(s) - n
  BY RowOf DEF Rewinding, IsRow
<1>1. ASSUME NEW k \in 0..Len(gone) PROVE Fits(V[k])
  <2> DEFINE y == StillSettled(h, s, k)
  <2>1. V[k] = y
    OBVIOUS
  <2>2. \A f \in Families : y[f] = top[f] \/ y[f] = NoStory
    BY DEF StillSettled
  <2>3. y = [f \in Families |-> y[f]]
    BY DEF StillSettled
  <2>4. Fits(top)
    <3>1. Len(s) \in 0..Len(s)
      BY <1>0
    <3> QED BY <1>0, <3>1, StoriesFit DEF Rewinding
  <2> HIDE DEF y, top, V
  <2> QED BY <2>1, <2>2, <2>3, <2>4, PartFits
<1>2. ASSUME NEW k \in 1..Len(gone)
      PROVE  IF gone[k].kind \in {"Exits", "Observed"} THEN Undone(V[k - 1], gone[k], V[k])
             ELSE Alike(V[k - 1], V[k])
  <2>0. PICK j \in 1..Len(s) : OneBack(h, s, n, gone, k, j)
    BY RewindsOne
  <2> DEFINE e == s[j]
             w == h[j]
             v == h[j - 1]
             x == V[k - 1]
             y == V[k]
  <2>1. /\ j = Len(s) - (k - 1) /\ j - 1 = Len(s) - k
        /\ gone[k] = e /\ TakenBack(w, e, v) /\ Before(w, top)
    BY <2>0 DEF OneBack
  <2>2. /\ \A f \in Families : x[f] = IF w[f].settled THEN top[f] ELSE NoStory
        /\ \A f \in Families : y[f] = IF v[f].settled THEN top[f] ELSE NoStory
    <3>1. k \in 0..Len(gone) /\ k - 1 \in 0..Len(gone)
      BY <1>0
    <3> QED BY <2>1, <3>1 DEF StillSettled
  <2>3. e.kind \in {"Exits", "Observed", "Claim"}
    OBVIOUS
  <2> DEFINE g == e.family
  <2> HIDE DEF V, top, x, y, w, v, e
  <2>4. CASE e.kind = "Observed"
    <3>1. Alike(w, v)
      BY <2>1, <2>4 DEF TakenBack
    <3>2. ASSUME NEW f \in Families PROVE y[f] = x[f]
      BY <2>2, <3>1 DEF Alike
    <3>3. Undone(x, e, y)
      BY <2>4, <3>2 DEF Undone
    <3> QED BY <2>1, <2>4, <3>3 DEF x, y
  <2>5. CASE e.kind = "Exits"
    <3>1. g \in Families /\ w[g].settled /\ v[g] = NoStory /\ AllBut(g, v, w)
      BY <2>1, <2>5 DEF TakenBack
    <3>2. AllBut(g, y, x)
      BY <2>2, <3>1 DEF AllBut
    <3>3. ~v[g].settled
      BY <3>1 DEF NoStory
    <3>4. x[g] = top[g] /\ y[g] = NoStory
      BY <2>2, <3>1, <3>3
    <3>5. top[g].settled
      BY <2>1, <3>1 DEF Before, GoesOn
    <3>6. Undone(x, e, y)
      BY <2>5, <3>1, <3>2, <3>4, <3>5 DEF Undone
    <3> QED BY <2>1, <2>5, <3>6 DEF x, y
  <2>6. CASE e.kind = "Claim"
    <3>1. /\ g \in Families /\ LastClaim(w[g], e, v[g]) /\ AllBut(g, v, w)
      BY <2>1, <2>6 DEF TakenBack
    <3>2. w[g].settled /\ v[g].settled
      BY <3>1 DEF LastClaim
    <3>3. ASSUME NEW f \in Families PROVE y[f] = x[f]
      BY <2>2, <3>1, <3>2 DEF AllBut
    <3>4. Alike(x, y)
      BY Zenon, <3>3 DEF Alike
    <3> QED BY <2>1, <2>6, <3>4 DEF x, y
  <2> QED BY <2>3, <2>4, <2>5, <2>6
<1> HIDE DEF V
<1>3. Walk(V, gone, {"Exits", "Observed"})
  BY <1>1, <1>2 DEF Walk
<1> QED BY <1>3 DEF V

(* Claims last: those of the families that stay settled.                      *)
StaySettled(h, s, n, k) ==
  [f \in Families |-> IF h[n][f].settled THEN h[Len(s) - k][f] ELSE NoStory]

(* Reverting the claims takes the families that stay settled back.            *)
LEMMA WalkClaims ==
  ASSUME NEW h, NEW s, NEW n, NEW gone, Rewinding(h, s, n, gone),
         \A i \in 1..Len(s) : s[i].kind \in {"Exits", "Observed", "Claim"}
  PROVE  Walk([k \in 0..Len(gone) |-> StaySettled(h, s, n, k)], gone, {"Claim"})
<1> DEFINE V == [k \in 0..Len(gone) |-> StaySettled(h, s, n, k)]
           low == h[n]
<1>0. Len(gone) \in Nat /\ Len(s) \in Nat /\ n \in Nat /\ Len(gone) = Len(s) - n
  BY RowOf DEF Rewinding, IsRow
<1>1. ASSUME NEW k \in 0..Len(gone) PROVE Fits(V[k])
  <2> DEFINE y == StaySettled(h, s, n, k)
             v == h[Len(s) - k]
  <2>1. V[k] = y
    OBVIOUS
  <2>2. \A f \in Families : y[f] = v[f] \/ y[f] = NoStory
    BY DEF StaySettled
  <2>3. y = [f \in Families |-> y[f]]
    BY DEF StaySettled
  <2>4. Fits(v)
    <3>1. Len(s) - k \in 0..Len(s)
      BY <1>0
    <3> QED BY <1>0, <3>1, StoriesFit DEF Rewinding
  <2> HIDE DEF y, v, V
  <2> QED BY <2>1, <2>2, <2>3, <2>4, PartFits
<1>2. ASSUME NEW k \in 1..Len(gone)
      PROVE  IF gone[k].kind \in {"Claim"} THEN Undone(V[k - 1], gone[k], V[k])
             ELSE Alike(V[k - 1], V[k])
  <2>0. PICK j \in 1..Len(s) : OneBack(h, s, n, gone, k, j)
    BY RewindsOne
  <2> DEFINE e == s[j]
             w == h[j]
             v == h[j - 1]
             x == V[k - 1]
             y == V[k]
             g == e.family
  <2>1. /\ j = Len(s) - (k - 1) /\ j - 1 = Len(s) - k
        /\ gone[k] = e /\ TakenBack(w, e, v) /\ Before(low, v)
    BY <2>0 DEF OneBack
  <2>2. /\ \A f \in Families : x[f] = IF low[f].settled THEN w[f] ELSE NoStory
        /\ \A f \in Families : y[f] = IF low[f].settled THEN v[f] ELSE NoStory
    <3>1. k \in 0..Len(gone) /\ k - 1 \in 0..Len(gone)
      BY <1>0
    <3> QED BY <2>1, <3>1 DEF StaySettled
  <2>3. e.kind \in {"Exits", "Observed", "Claim"}
    OBVIOUS
  <2> HIDE DEF V, low, x, y, w, v, e, g
  <2>4. CASE e.kind = "Observed"
    <3>1. Alike(w, v)
      BY <2>1, <2>4 DEF TakenBack
    <3>2. ASSUME NEW f \in Families PROVE y[f] = x[f]
      BY <2>2, <3>1 DEF Alike
    <3>3. Alike(x, y)
      BY Zenon, <3>2 DEF Alike
    <3> QED BY <2>1, <2>4, <3>3 DEF x, y
  <2>5. CASE e.kind = "Exits"
    <3>1. g \in Families /\ v[g] = NoStory /\ AllBut(g, v, w)
      BY <2>1, <2>5 DEF TakenBack, g
    <3>2. ~low[g].settled
      BY <2>1, <3>1 DEF Before, GoesOn, NoStory
    <3>3. ASSUME NEW f \in Families PROVE y[f] = x[f]
      BY <2>2, <3>1, <3>2 DEF AllBut
    <3>4. Alike(x, y)
      BY Zenon, <3>3 DEF Alike
    <3> QED BY <2>1, <2>5, <3>4 DEF x, y
  <2>6. CASE e.kind = "Claim" /\ low[g].settled
    <3>1. g \in Families /\ LastClaim(w[g], e, v[g]) /\ AllBut(g, v, w)
      BY <2>1, <2>6 DEF TakenBack, g
    <3>2. AllBut(g, y, x)
      BY <2>2, <3>1 DEF AllBut
    <3>3. LastClaim(x[g], e, y[g])
      BY <2>2, <2>6, <3>1
    <3>4. Undone(x, e, y)
      BY <2>6, <3>1, <3>2, <3>3 DEF Undone, g
    <3> QED BY <2>1, <2>6, <3>4 DEF x, y
  <2>7. CASE e.kind = "Claim" /\ ~low[g].settled
    <3>1. g \in Families /\ NamesRoots(e, g) /\ AllBut(g, v, w)
      BY <2>1, <2>7 DEF TakenBack, g
    <3>2. ASSUME NEW f \in Families PROVE y[f] = x[f]
      BY <2>2, <2>7, <3>1 DEF AllBut
    <3>3. x[g] = NoStory
      BY <2>2, <2>7, <3>1
    <3>4. ~x[g].settled
      BY <3>3 DEF NoStory
    <3>5. Undone(x, e, y)
      BY <2>7, <3>1, <3>2, <3>4 DEF Undone, g
    <3> QED BY <2>1, <2>7, <3>5 DEF x, y
  <2> QED BY <2>3, <2>4, <2>5, <2>6, <2>7
<1> HIDE DEF V
<1>3. Walk(V, gone, {"Claim"})
  BY <1>1, <1>2 DEF Walk
<1> QED BY <1>3 DEF V


(* Once the reverts of a reorg are worked off, the records are those of the   *)
(* chain that is left: in order, or those of the settlements first.           *)
LEMMA KindsAreThree ==
  ASSUME NEW h, NEW s, Stories(h, s)
  PROVE  \A i \in 1..Len(s) : s[i].kind \in {"Exits", "Observed", "Claim"}
BY DEF Stories, Follows

(* Reverts in order bring the records back.                                   *)
LEMMA BackInOrder ==
  ASSUME RootsTell, NEW h, NEW s, NEW n, NEW gone, Rewinding(h, s, n, gone),
         NEW m, NEW off \in Nat, Between(m[off], h[Len(s)], h[Len(s)]),
         \A i \in 1..Len(gone) : Effect(m[off + i - 1], Revert(gone[i]), m[off + i])
  PROVE  Between(m[off + Len(gone)], h[n], h[n])
<1> DEFINE V == [k \in 0..Len(gone) |-> h[Len(s) - k]]
           count == [k \in 0..Len(gone) |-> k]
           all == {"Exits", "Observed", "Claim"}
<1>1. /\ Len(gone) \in Nat /\ Len(s) \in Nat /\ n \in Nat /\ Len(gone) = Len(s) - n
      /\ 0 \in 0..Len(gone) /\ Len(gone) \in 0..Len(gone)
      /\ Len(s) - 0 = Len(s) /\ Len(s) - Len(gone) = n
  BY RowOf DEF Rewinding, IsRow
<1>2. \A i \in 1..Len(s) : s[i].kind \in all
  BY KindsAreThree DEF Rewinding
<1>3. Walk(V, gone, all)
  BY <1>2, WalkInOrder
<1>4. \A k \in 1..Len(gone) : gone[k].kind \in all
  <2>1. ASSUME NEW k \in 1..Len(gone) PROVE gone[k].kind \in all
    <3>1. PICK j \in 1..Len(s) : OneBack(h, s, n, gone, k, j)
      BY RewindsOne
    <3> HIDE DEF all
    <3> QED BY <1>2, <3>1 DEF OneBack
  <2> QED BY <2>1
<1>5. Counts(count, gone, gone, all)
  <2> HIDE DEF all
  <2>1. count[0] = 0 /\ count[Len(gone)] = Len(gone)
    BY <1>1
  <2>2. \A k \in 0..Len(gone) : count[k] \in Nat
    BY <1>1
  <2>3. ASSUME NEW k \in 1..Len(gone)
        PROVE  count[k] = count[k - 1] + 1 /\ count[k] \in 1..Len(gone) /\ gone[count[k]] = gone[k]
    <3>1. k \in 0..Len(gone) /\ k - 1 \in 0..Len(gone) /\ k = (k - 1) + 1
      BY <1>1
    <3> QED BY <3>1
  <2> HIDE DEF count
  <2> QED BY <1>4, <2>1, <2>2, <2>3 DEF Counts
<1>6. V[0] = h[Len(s)] /\ V[Len(gone)] = h[n]
  BY <1>1
<1>7. IsRow(gone)
  BY DEF Rewinding
<1> HIDE DEF V, count, all
<1>8. Between(m[off], V[0], V[0])
  BY <1>6
<1>9. Between(m[off + Len(gone)], V[Len(gone)], V[Len(gone)])
  BY <1>3, <1>5, <1>7, <1>8, RevertsRun
<1> QED BY <1>6, <1>9

(* So do reverts of settlements first and of claims after them.               *)
LEMMA BackInPairs ==
  ASSUME RootsTell, NEW h, NEW s, NEW n, NEW gone, Rewinding(h, s, n, gone),
         NEW one, one = Only(gone, {"Exits", "Observed"}), NEW two, two = Only(gone, {"Claim"}),
         Len(one) \in Nat, Len(two) \in Nat,
         NEW m, NEW off \in Nat, Between(m[off], h[Len(s)], h[Len(s)]),
         \A i \in 1..Len(one) : Effect(m[off + i - 1], Revert(one[i]), m[off + i]),
         \A i \in 1..Len(two) : Effect(m[off + Len(one) + i - 1], Revert(two[i]),
                                       m[off + Len(one) + i])
  PROVE  Between(m[off + Len(one) + Len(two)], h[n], h[n])
<1> DEFINE V1 == [k \in 0..Len(gone) |-> StillSettled(h, s, k)]
           V2 == [k \in 0..Len(gone) |-> StaySettled(h, s, n, k)]
           mid == off + Len(one)
<1>1. /\ Len(gone) \in Nat /\ Len(s) \in Nat /\ n \in Nat /\ Len(gone) = Len(s) - n
      /\ 0 \in 0..Len(gone) /\ Len(gone) \in 0..Len(gone)
      /\ Len(s) - 0 = Len(s) /\ Len(s) - Len(gone) = n
      /\ n \in 0..Len(s) /\ Len(s) \in 0..Len(s) /\ mid \in Nat
  BY RowOf DEF Rewinding, IsRow
<1>2. \A i \in 1..Len(s) : s[i].kind \in {"Exits", "Observed", "Claim"}
  BY KindsAreThree DEF Rewinding
<1>3. Walk(V1, gone, {"Exits", "Observed"})
  BY <1>2, WalkSettlements
<1>4. Walk(V2, gone, {"Claim"})
  BY <1>2, WalkClaims
<1>5. IsRow(gone)
  BY DEF Rewinding
<1>6. Fits(h[n]) /\ Fits(h[Len(s)])
  BY <1>1, StoriesFit DEF Rewinding
<1>7. /\ V1[0] = StillSettled(h, s, 0) /\ V1[Len(gone)] = StillSettled(h, s, Len(gone))
      /\ V2[0] = StaySettled(h, s, n, 0) /\ V2[Len(gone)] = StaySettled(h, s, n, Len(gone))
  BY <1>1
<1> HIDE DEF V1, V2
<1>8. Alike(h[Len(s)], V1[0])
  <2>1. ASSUME NEW f \in Families PROVE V1[0][f] = h[Len(s)][f]
    <3>1. V1[0][f] = IF h[Len(s)][f].settled THEN h[Len(s)][f] ELSE NoStory
      BY <1>1, <1>7 DEF StillSettled
    <3> QED BY <1>6, <3>1, StoryNumbers
  <2> QED BY Zenon, <2>1 DEF Alike
<1>9. Alike(V1[Len(gone)], V2[0])
  <2>1. ASSUME NEW f \in Families PROVE V2[0][f] = V1[Len(gone)][f]
    <3>1. V1[Len(gone)][f] = IF h[n][f].settled THEN h[Len(s)][f] ELSE NoStory
      BY <1>1, <1>7 DEF StillSettled
    <3>2. V2[0][f] = IF h[n][f].settled THEN h[Len(s)][f] ELSE NoStory
      BY <1>1, <1>7 DEF StaySettled
    <3> QED BY <3>1, <3>2
  <2> QED BY Zenon, <2>1 DEF Alike
<1>10. Alike(V2[Len(gone)], h[n])
  <2>1. ASSUME NEW f \in Families PROVE h[n][f] = V2[Len(gone)][f]
    <3>1. V2[Len(gone)][f] = IF h[n][f].settled THEN h[n][f] ELSE NoStory
      BY <1>1, <1>7 DEF StaySettled
    <3> QED BY <1>6, <3>1, StoryNumbers
  <2> QED BY Zenon, <2>1 DEF Alike
<1>11. Between(m[off], V1[0], V1[0])
  BY <1>8, AlikeKeeps
<1>12. PICK count1 : Counts(count1, one, gone, {"Exits", "Observed"})
  BY <1>5, OnlyCounts
<1>13. Between(m[mid], V1[Len(gone)], V1[Len(gone)])
  BY <1>3, <1>5, <1>11, <1>12, RevertsRun
<1>14. Between(m[mid], V2[0], V2[0])
  BY <1>9, <1>13, AlikeKeeps
<1>15. PICK count2 : Counts(count2, two, gone, {"Claim"})
  BY <1>5, OnlyCounts
<1>16. \A i \in 1..Len(two) : Effect(m[mid + i - 1], Revert(two[i]), m[mid + i])
  OBVIOUS
<1> HIDE DEF mid
<1>17. Between(m[mid + Len(two)], V2[Len(gone)], V2[Len(gone)])
  BY <1>1, <1>4, <1>5, <1>14, <1>15, <1>16, RevertsRun
<1> QED BY <1>10, <1>17, AlikeKeeps DEF mid

(* A reorg takes the stories back, and its reports bring the records there.   *)
LEMMA MeetsReorg ==
  ASSUME RootsTell, CallsInv, Reorg, NEW h, Stories(h, l1),
         NEW start, Meets(h, l1, start, calls)
  PROVE  Stories(h, l1') /\ Meets(h, l1', start, calls')
<1>1. PICK n, gone, back : ReorgTo(n, gone, back)
  BY ReorgOrders
<1> DEFINE N == Len(l1)
           K == Len(calls)
           B == Len(back)
<1>2. N \in Nat /\ K \in Nat
  BY RowOf DEF CallsInv, IsRow
<1>3. /\ n \in 0..(N - 1) /\ Len(l1') = n /\ n \in Nat /\ n \in 0..N
      /\ B \in Nat \ {0} /\ Len(calls') = K + B
  BY <1>1, <1>2 DEF ReorgTo
<1>4. /\ \A i \in 1..n : l1'[i] = l1[i]
      /\ \A i \in 1..K : calls'[i] = calls[i]
      /\ \A i \in 1..B : calls'[K + i] = back[i] /\ back[i].hook = "revert"
  BY <1>1 DEF ReorgTo
<1>5. Rewinding(h, l1, n, gone)
  <2>1. IsRow(gone) /\ Len(gone) = Len(l1) - n
        /\ \A i \in 1..Len(gone) : gone[i] = l1[Len(l1) + 1 - i]
    BY <1>1 DEF ReorgTo
  <2> QED BY <1>2, <1>3, <2>1 DEF Rewinding
<1>6. Stories(h, l1')
  <2>1. \A i \in 1..n : i \in 1..N
    BY <1>2, <1>3
  <2> QED BY <1>3, <1>4, <2>1 DEF Stories
<1> SUFFICES ASSUME NEW p \in 0..(K + B), AllApply(calls', p), NEW m, Run(m, start, calls', p)
             PROVE  Between(m[p], h[n - ((K + B) - p)], h[n])
  BY <1>3, <1>6 DEF Meets
<1>7. p = K + B
  <2> SUFFICES ASSUME p # K + B PROVE FALSE
    OBVIOUS
  <2>1. K + B \in (p + 1)..Len(calls') /\ B \in 1..B
    BY <1>2, <1>3
  <2>2. calls'[K + B].hook = "revert"
    BY <1>4, <2>1
  <2>3. calls'[K + B].hook = "apply"
    BY <2>1 DEF AllApply
  <2> QED BY <2>2, <2>3
<1>8. Between(m[K], h[N], h[N])
  <2>1. K \in 0..p /\ p \in Nat /\ K \in 0..K /\ N - (K - K) = N
    BY <1>2, <1>3, <1>7
  <2>2. Run(m, start, calls, K)
    BY <1>4, <2>1, RunIsCut
  <2>3. AllApply(calls, K)
    <3>1. \A i \in (K + 1)..K : FALSE
      BY <1>2
    <3> QED BY <3>1 DEF AllApply
  <2>4. Between(m[K], h[N - (K - K)], h[N])
    BY <2>1, <2>2, <2>3 DEF Meets
  <2> QED BY <2>1, <2>4
<1>9. ASSUME NEW i \in 1..B PROVE Effect(m[K + i - 1], back[i], m[K + i])
  <2>1. K + i \in 1..p
    BY <1>2, <1>3, <1>7
  <2>2. Effect(m[(K + i) - 1], calls'[K + i], m[K + i])
    BY <2>1 DEF Run
  <2> QED BY <1>4, <2>2
<1>10. n - ((K + B) - p) = n
  BY <1>2, <1>3, <1>7
<1>11. CASE B = Len(gone) /\ \A i \in 1..Len(gone) : back[i] = Revert(gone[i])
  <2>1. \A i \in 1..Len(gone) : Effect(m[K + i - 1], Revert(gone[i]), m[K + i])
    BY <1>9, <1>11
  <2>2. Between(m[K + Len(gone)], h[n], h[n])
    BY <1>2, <1>5, <1>8, <2>1, BackInOrder
  <2> QED BY <1>7, <1>10, <1>11, <2>2
<1>12. CASE Splits(back, gone)
  <2>1. PICK one, two :
          /\ one = Only(gone, {"Exits", "Observed"}) /\ two = Only(gone, {"Claim"})
          /\ Len(one) \in Nat /\ Len(two) \in Nat /\ B = Len(one) + Len(two)
          /\ \A i \in 1..Len(one) : back[i] = Revert(one[i])
          /\ \A i \in 1..Len(two) : back[Len(one) + i] = Revert(two[i])
    BY <1>12 DEF Splits
  <2>2. ASSUME NEW i \in 1..Len(one) PROVE Effect(m[K + i - 1], Revert(one[i]), m[K + i])
    <3>1. i \in 1..B
      BY <2>1
    <3> QED BY <1>9, <2>1, <3>1
  <2>3. ASSUME NEW i \in 1..Len(two)
        PROVE  Effect(m[K + Len(one) + i - 1], Revert(two[i]), m[K + Len(one) + i])
    <3>1. /\ Len(one) + i \in 1..B /\ K + (Len(one) + i) = K + Len(one) + i
          /\ K + (Len(one) + i) - 1 = K + Len(one) + i - 1
      BY <1>2, <2>1
    <3>2. Effect(m[K + (Len(one) + i) - 1], back[Len(one) + i], m[K + (Len(one) + i)])
      BY <1>9, <3>1
    <3> QED BY <2>1, <3>1, <3>2
  <2>4. Len(one) \in Nat /\ Len(two) \in Nat /\ K + Len(one) + Len(two) = p
    BY <1>2, <1>7, <2>1
  <2> HIDE DEF N, K, B
  <2>5. one = Only(gone, {"Exits", "Observed"}) /\ two = Only(gone, {"Claim"})
    BY <2>1
  <2>6. Between(m[K + Len(one) + Len(two)], h[n], h[n])
    <3>1. Between(m[K], h[Len(l1)], h[Len(l1)])
      BY <1>8 DEF N
    <3> QED BY <1>2, <1>5, <2>2, <2>3, <2>4, <2>5, <3>1, BackInPairs
  <2> QED BY <1>10, <2>4, <2>6
<1>13. \/ B = Len(gone) /\ \A i \in 1..Len(gone) : back[i] = Revert(gone[i])
       \/ Splits(back, gone)
  BY <1>1 DEF ReorgTo
<1> QED BY <1>11, <1>12, <1>13

---------------------------------------------------------------------------
(* There are stories of the chain that the records of the store, after the    *)
(* reports still to come, meet; an open write batch has done the oldest one.  *)
Met(map) == \E h : Stories(h, l1) /\ Meets(h, l1, map, calls)

BatchIsDone == batch.open => Effect(store.records, calls[1], batch.records)

ServedInv == Met(store.records) /\ BatchIsDone

(* Nothing is served at first.                                                *)
LEMMA ServedInit ==
  ASSUME Init
  PROVE  ServedInv
<1> DEFINE h == [i \in {0} |-> Untold]
<1>1. l1 = <<>> /\ calls = <<>> /\ store.records = Nothing /\ ~batch.open
  BY DEF Init, NoBatch
<1>2. Len(l1) = 0 /\ Len(calls) = 0
  BY <1>1, NoClaims
<1>3. h[0] = Untold
  OBVIOUS
<1> HIDE DEF h
<1>4. Stories(h, l1)
  <2>1. \A n \in 1..0 : FALSE
    OBVIOUS
  <2> QED BY <1>2, <1>3, <2>1 DEF Stories
<1>5. ASSUME NEW p \in 0..0 PROVE p = 0 /\ 0 - (0 - p) = 0
  <2>1. p \in Int /\ 0 <= p /\ p <= 0
    OBVIOUS
  <2>2. p = 0
    BY <2>1
  <2>3. 0 - (0 - 0) = 0
    OBVIOUS
  <2> QED BY <2>2, <2>3
<1>6. Meets(h, l1, Nothing, calls)
  <2> SUFFICES ASSUME NEW p \in 0..0, NEW m, Run(m, Nothing, calls, p)
               PROVE  Between(m[p], h[0 - (0 - p)], h[0])
    BY <1>2 DEF Meets
  <2>1. m[0] = Nothing
    BY DEF Run
  <2>2. p = 0 /\ 0 - (0 - p) = 0
    BY <1>5
  <2>3. DOMAIN Nothing = {}
    BY DEF Nothing
  <2>4. \A f \in Families : ~Untold[f].settled
    BY DEF Untold, NoStory
  <2>5. Between(Nothing, Untold, Untold)
    BY <2>3, <2>4 DEF Between
  <2> QED BY <1>3, <2>1, <2>2, <2>5
<1> QED BY <1>1, <1>4, <1>6 DEF ServedInv, Met, BatchIsDone

(* A transaction mined is reported last; the oldest report stays.             *)
LEMMA ServedMine ==
  ASSUME RootsTell, CallsInv, ServedInv, NEW e, Mine(e),
         NEW h, Stories(h, l1), Follows(h[Len(l1)], e), Meets(h, l1, store.records, calls)
  PROVE  ServedInv'
<1>1. store' = store /\ batch' = batch
  BY DEF Mine
<1>2. \E g : Stories(g, l1') /\ Meets(g, l1', store.records, calls')
  BY MeetsMine
<1>3. BatchIsDone'
  <2> SUFFICES ASSUME batch.open PROVE Effect(store.records, calls'[1], batch.records)
    BY <1>1 DEF BatchIsDone
  <2>1. calls # <<>> /\ IsRow(calls)
    BY DEF CallsInv
  <2>2. 1 \in 1..Len(calls)
    BY <2>1, RowOf DEF IsRow
  <2>3. calls'[1] = calls[1]
    BY <2>2, MineAppends
  <2> QED BY <2>3 DEF ServedInv, BatchIsDone
<1> QED BY <1>1, <1>2, <1>3 DEF ServedInv, Met

(* Every step keeps the records met.                                          *)
LEMMA ServedNext ==
  ASSUME RootsTell, SeedFirst, CallsInv, MirrorInv, ServedInv, [Next]_vars
  PROVE  ServedInv'
<1>1. PICK h : Stories(h, l1) /\ Meets(h, l1, store.records, calls)
  BY DEF ServedInv, Met
<1>2. CASE UNCHANGED vars
  <2>1. l1' = l1 /\ calls' = calls /\ store' = store /\ batch' = batch
    BY <1>2 DEF vars
  <2> QED BY <2>1 DEF ServedInv, Met, BatchIsDone
<1>3. ASSUME NEW f \in Families, SettleExits(f) PROVE ServedInv'
  <2>1. PICK e : Mine(e) /\ Follows(h[Len(l1)], e)
    BY <1>1, <1>3, ExitsFollow
  <2> QED BY <1>1, <2>1, ServedMine
<1>4. ASSUME NEW root \in Unpaired \cup {NoRoot}, SettleObserved(root) PROVE ServedInv'
  <2>1. PICK e : Mine(e) /\ Follows(h[Len(l1)], e)
    BY <1>4, ObservedFollows
  <2> QED BY <1>1, <2>1, ServedMine
<1>5. ASSUME NEW f \in Families, NEW leaf, Claim(f, leaf) PROVE ServedInv'
  <2>1. PICK e : Mine(e) /\ Follows(h[Len(l1)], e)
    BY <1>1, <1>5, ClaimIsNext
  <2> QED BY <1>1, <2>1, ServedMine
<1>6. CASE Reorg
  <2>1. store' = store /\ batch' = batch
    BY <1>6 DEF Reorg
  <2>2. Stories(h, l1') /\ Meets(h, l1', store.records, calls')
    BY <1>1, <1>6, MeetsReorg
  <2>3. BatchIsDone'
    <3> SUFFICES ASSUME batch.open PROVE Effect(store.records, calls'[1], batch.records)
      BY <2>1 DEF BatchIsDone
    <3>1. calls # <<>> /\ IsRow(calls)
      BY DEF CallsInv
    <3>2. 1 \in 1..Len(calls)
      BY <3>1, RowOf DEF IsRow
    <3>3. PICK n, gone, back : ReorgTo(n, gone, back)
      BY <1>6, ReorgOrders
    <3>4. calls'[1] = calls[1]
      BY <3>2, <3>3 DEF ReorgTo
    <3> QED BY <3>4 DEF ServedInv, BatchIsDone
  <2> QED BY <2>1, <2>2, <2>3 DEF ServedInv, Met
<1>7. CASE Hook
  <2>1. l1' = l1 /\ calls' = calls /\ store' = store /\ calls # <<>>
    BY <1>7 DEF Hook, l1Vars
  <2>2. Effect(store.records, Head(calls), batch'.records)
    BY <1>7, HookHasEffect
  <2>3. Head(calls) = calls[1]
    BY <2>1 DEF CallsInv, IsRow
  <2> QED BY <2>1, <2>2, <2>3 DEF ServedInv, Met, BatchIsDone
<1>8. CASE Commit
  <2>1. l1' = l1 /\ store'.records = batch.records /\ ~batch'.open
    BY <1>8 DEF Commit, l1Vars, NoBatch
  <2>2. Effect(store.records, calls[1], batch.records)
    BY <1>8 DEF ServedInv, BatchIsDone, Commit
  <2>3. Meets(h, l1, batch.records, calls')
    BY <1>1, <1>8, <2>2, MeetsCommit
  <2> QED BY <1>1, <2>1, <2>3 DEF ServedInv, Met, BatchIsDone
<1>9. CASE Reseed
  <2>1. l1' = l1 /\ calls' = calls /\ store' = store /\ batch' = batch
    BY <1>9 DEF Reseed, l1Vars
  <2> QED BY <2>1 DEF ServedInv, Met, BatchIsDone
<1>10. CASE Restart
  <2>1. l1' = l1 /\ store' = store /\ ~batch'.open
    BY <1>10 DEF Restart, l1Vars, NoBatch
  <2>2. Meets(h, l1, store.records, calls')
    BY <1>1, <1>10, MeetsRestart
  <2> QED BY <1>1, <2>1, <2>2 DEF ServedInv, Met, BatchIsDone
<1> QED BY <1>2, <1>3, <1>4, <1>5, <1>6, <1>7, <1>8, <1>9, <1>10 DEF Next

---------------------------------------------------------------------------
(* What is expected of a settled family is what its story says.               *)
LEMMA ClaimsAreTold ==
  ASSUME CallsInv, NEW h, Stories(h, l1), NEW f \in Families
  PROVE  ClaimsOf(f) = h[Len(l1)][f].claims
<1> DEFINE N == Len(l1)
           g == [n \in 0..N |-> h[n][f].claims]
           places == { i \in 1..N : IsClaim(l1[i], f) }
<1>1. N \in Nat /\ IsRow(l1) /\ N \in 0..N
  BY RowOf DEF CallsInv, IsRow
<1>2. g[0] = <<>>
  <2>1. g[0] = h[0][f].claims
    BY <1>1
  <2> QED BY <2>1 DEF Stories, Untold, NoStory
<1>3. ASSUME NEW n \in 1..N
      PROVE  g[n] = IF n \in places THEN Append(g[n - 1], l1[n]) ELSE g[n - 1]
  <2>1. n \in 0..N /\ n - 1 \in 0..N
    BY <1>1
  <2>2. g[n] = h[n][f].claims /\ g[n - 1] = h[n - 1][f].claims
    BY <2>1
  <2>3. Follows(h[n - 1], l1[n]) /\ h[n] = Told(h[n - 1], l1[n], n)
    BY DEF Stories
  <2>4. Fits(h[n - 1])
    BY <1>1, <2>1, StoriesFit
  <2>5. n \in places <=> IsClaim(l1[n], f)
    OBVIOUS
  <2> HIDE DEF g, places
  <2>6. CASE l1[n].kind = "Exits" /\ l1[n].family = f
    <3>1. h[n - 1][f].claims = <<>>
      BY <2>3, <2>4, <2>6, StoryNumbers DEF Follows, NoStory
    <3>2. h[n][f].claims = <<>>
      BY <2>3, <2>6 DEF Told
    <3>3. n \notin places
      BY <2>5, <2>6 DEF IsClaim
    <3> QED BY <2>2, <3>1, <3>2, <3>3
  <2>7. CASE IsClaim(l1[n], f)
    <3>1. h[n][f].claims = Append(h[n - 1][f].claims, l1[n])
      <4>1. l1[n].kind # "Observed" /\ l1[n].family = f /\ l1[n].kind # "Exits"
        BY <2>7 DEF IsClaim
      <4>2. Told(h[n - 1], l1[n], n)[f].claims = Append(h[n - 1][f].claims, l1[n])
        BY <4>1 DEF Told
      <4> QED BY <2>3, <4>2
    <3> QED BY <2>2, <2>5, <2>7, <3>1
  <2>8. CASE l1[n].kind = "Observed" \/ l1[n].family # f
    <3>1. h[n][f] = h[n - 1][f]
      BY <2>3, <2>8 DEF Told
    <3>2. n \notin places
      BY <2>5, <2>8 DEF IsClaim
    <3> QED BY <2>2, <3>1, <3>2
  <2> QED BY <2>3, <2>6, <2>7, <2>8 DEF Follows, IsClaim
<1>4. g[N] = h[N][f].claims
  BY <1>1
<1> HIDE DEF g, N
<1>5. Takes(g, l1, places)
  BY <1>2, <1>3 DEF Takes, N
<1>6. AtPlaces(l1, places) = g[N]
  <2> HIDE DEF places
  <2> QED BY <1>1, <1>5, AtPlacesIs DEF N
<1> QED BY <1>4, <1>6 DEF ClaimsOf, N

(* The expected root and record are those at the end of the story.            *)
LEMMA ExpectedIsTold ==
  ASSUME CallsInv, NEW h, Stories(h, l1), NEW f \in Families, IsSettled(f)
  PROVE  LET t == h[Len(l1)][f]
         IN  /\ Expected(f).root = RootAt(f, t.claims, Len(t.claims))
             /\ Expected(f).record = RecordAt(f, t.paid, t.claims, Len(t.claims))
<1> DEFINE t == h[Len(l1)][f]
           c == ClaimsOf(f)
           paid == SettlementOf(f).tx
<1>0. Len(l1) \in Nat /\ Len(l1) \in 0..Len(l1)
  BY RowOf DEF CallsInv, IsRow
<1>1. c = t.claims
  BY ClaimsAreTold
<1>2. paid = t.paid
  <2>1. TellsOf(f, t, l1, Len(l1))
    BY <1>0, StoriesTell DEF Tells
  <2> DEFINE i == CHOOSE k \in 1..Len(l1) : l1[k].kind = "Exits" /\ l1[k].family = f
  <2>2. i \in 1..Len(l1) /\ l1[i].kind = "Exits" /\ l1[i].family = f
    BY DEF IsSettled
  <2>3. SettlementOf(f) = l1[i]
    BY DEF SettlementOf
  <2> HIDE DEF i, t
  <2> QED BY <2>1, <2>2, <2>3 DEF TellsOf, SettledBy
<1> HIDE DEF t, c, paid
<1> DEFINE moves == Moves(f, Len(c))
<1>3. /\ Expected(f).root = Root(Leaves[f], { c[i].leaf : i \in 1..moves })
      /\ Expected(f).record =
           [settlement_txid |-> IF moves = 0 THEN paid ELSE c[moves].tx, daa_score |-> paid,
            unclaimed |-> Len(Leaves[f]) - Len(c), leaves |-> Leaves[f],
            emptied |-> [i \in 1..Len(c) |->
                           [leaf_index |-> c[i].leaf, spend_txid |-> c[i].tx]]]
  BY DEF Expected, Moves, TreeSize, c, paid
<1> HIDE DEF moves
<1>4. Expected(f).root = RootAt(f, c, Len(c))
  BY <1>3 DEF RootAt, LeafSet, moves
<1>5. Expected(f).record = RecordAt(f, paid, c, Len(c))
  BY <1>3 DEF RecordAt, AnchorAt, TreeSize, SpendOf, moves
<1> QED BY <1>1, <1>2, <1>4, <1>5 DEF t

(* Without reports to come the records met are the canonical ones.            *)
LEMMA ServedAtRest ==
  ASSUME RootsTell, CallsInv, ServedInv
  PROVE  ServedIsCanonical
<1> SUFFICES ASSUME calls = <<>>
             PROVE  /\ DOMAIN store.records = { Expected(f).root : f \in Settled }
                    /\ \A f \in Settled : store.records[Expected(f).root] = Expected(f).record
  BY DEF ServedIsCanonical, Quiet
<1>1. PICK h : Stories(h, l1) /\ Meets(h, l1, store.records, calls)
  BY DEF ServedInv, Met
<1> DEFINE N == Len(l1)
           w == h[N]
           map == store.records
<1>2. N \in Nat /\ N \in 0..N
  BY RowOf DEF CallsInv, IsRow
<1>3. Between(map, w, w)
  <2> DEFINE m == [i \in {0} |-> map]
  <2>1. Len(calls) = 0
    BY NoClaims
  <2>2. 0 \in 0..Len(calls) /\ N - (Len(calls) - 0) = N
    BY <1>2, <2>1
  <2>3. Run(m, map, calls, 0)
    BY DEF Run
  <2>4. AllApply(calls, 0)
    <3>1. \A i \in (0 + 1)..0 : FALSE
      OBVIOUS
    <3> QED BY <2>1, <3>1 DEF AllApply
  <2>5. m[0] = map
    OBVIOUS
  <2> HIDE DEF m
  <2>6. Between(m[0], h[N - (Len(calls) - 0)], h[N])
    BY <1>1, <2>2, <2>3, <2>4 DEF Meets
  <2> QED BY <2>2, <2>5, <2>6
<1>4. Fits(w) /\ Tells(w, l1, N)
  BY <1>1, <1>2, StoriesFit, StoriesTell
<1>5. ASSUME NEW f \in Families PROVE w[f].settled <=> f \in Settled
  <2>1. TellsOf(f, w[f], l1, N)
    BY <1>4 DEF Tells
  <2> HIDE DEF w
  <2> QED BY <2>1 DEF TellsOf, Settled, IsSettled, SettledBy
<1>6. ASSUME NEW f \in Settled, NEW r, NEW j \in Len(w[f].claims)..Len(w[f].claims),
             Stands(r, map[r], f, w[f], j)
      PROVE  r = Expected(f).root /\ map[r] = Expected(f).record
  <2>1. f \in Families /\ IsSettled(f)
    BY DEF Settled
  <2>2. /\ Expected(f).root = RootAt(f, w[f].claims, Len(w[f].claims))
        /\ Expected(f).record = RecordAt(f, w[f].paid, w[f].claims, Len(w[f].claims))
    BY <1>1, <2>1, ExpectedIsTold
  <2>3. j = Len(w[f].claims)
    BY <1>4, <2>1, StoryNumbers
  <2> HIDE DEF w, map
  <2> QED BY <1>6, <2>2, <2>3 DEF Stands
<1>7. ASSUME NEW r \in DOMAIN map PROVE r \in { Expected(f).root : f \in Settled }
  <2>1. PICK f \in Families : \E j \in Len(w[f].claims)..Len(w[f].claims) :
               Stands(r, map[r], f, w[f], j)
    BY <1>3 DEF Between
  <2>2. f \in Settled
    BY <1>5, <2>1 DEF Stands
  <2>3. r = Expected(f).root
    BY <1>6, <2>1, <2>2
  <2> QED BY <2>2, <2>3
<1>8. ASSUME NEW f \in Settled
      PROVE  Expected(f).root \in DOMAIN map /\ map[Expected(f).root] = Expected(f).record
  <2>1. f \in Families
    BY DEF Settled
  <2>2. w[f].settled
    BY <1>5, <2>1
  <2>3. PICK r \in DOMAIN map : map[r].leaves = Leaves[f]
    BY <1>3, <2>1, <2>2 DEF Between
  <2>4. \E j \in Len(w[f].claims)..Len(w[f].claims) : Stands(r, map[r], f, w[f], j)
    BY <1>3, <2>1, <2>3, LeavesStand
  <2>5. r = Expected(f).root /\ map[r] = Expected(f).record
    BY <1>6, <2>4
  <2> QED BY <2>3, <2>5
<1> QED BY <1>7, <1>8

(* ServedIsCanonical: once the reports are worked off, the records served are *)
(* those of the canonical chain, after any claims, reorgs, restarts and       *)
(* repeated reports (on_exits_committed .. on_permission_spend_reverted),     *)
(* provided that no hook runs before reseed and that different trees of       *)
(* leaves have different roots.                                               *)
THEOREM RecordsFollowChain == SeedFirst /\ RootsTell /\ Spec => []ServedIsCanonical
<1> SUFFICES ASSUME SeedFirst, RootsTell PROVE Spec => []ServedIsCanonical
  OBVIOUS
<1>1. Init => ServedInv
  BY ServedInit
<1>2. CallsInv /\ MirrorInv /\ ServedInv /\ [Next]_vars => ServedInv'
  BY ServedNext
<1>3. Spec => []MirrorInv
  BY MirrorInvariant
<1>4. CallsInv /\ ServedInv => ServedIsCanonical
  BY ServedAtRest
<1> QED BY <1>1, <1>2, <1>3, <1>4, ReportsFollowChain, PTL DEF Spec

=============================================================================
