--------------------------- MODULE ReadersProofs ----------------------------
(***************************************************************************)
(* The indexer, and what its two readers are told while the node works on  *)
(* between their steps: for every set of games and players, every page     *)
(* size and any number of batches, reorgs, commits and reverts.            *)
(*                                                                         *)
(* First, through every sequence of commits, reorgs and reverts the two    *)
(* indexes of Indexer say what the stored history says.  Then the readers: *)
(* the chain, the store and the snapshot a reader holds are branches of    *)
(* one tree of batches, and where two of them have a batch of the same     *)
(* version they agree up to it.                                            *)
(***************************************************************************)
EXTENDS Readers, FoldProofs

---------------------------------------------------------------------------
(* Histories: what the canonical chain and the store have in common *)

Batch == [version : Nat, state : [Games -> [body : Bodies, version : Nat]]]

(* A game that the batch did not write keeps its body and its version. *)
Follows(b, a) ==
  \A g \in Games : b.state[g].version = b.version \/ b.state[g] = a.state[g]

(* The batch i wrote what game g has in batch k. *)
Wrote(s, i, k, g) ==
  /\ s[i].version = s[k].state[g].version
  /\ \A j \in i..k : s[j].state[g] = s[k].state[g]

History(s, top) ==
  /\ s \in Seq(Batch)
  /\ Len(s) > 0
  /\ s[1] = Genesis
  /\ \A i \in 1..Len(s) : s[i].version <= top
  /\ \A i, j \in 1..Len(s) : i < j => s[i].version < s[j].version
  /\ \A i \in 2..Len(s) : Follows(s[i], s[i - 1])
  /\ \A k \in 1..Len(s) : \A g \in Games : \E i \in 1..k : Wrote(s, i, k, g)

(* The empty state before the first batch is a batch of its own.              *)
LEMMA GenesisIsBatch == Genesis \in Batch
BY DEF Genesis, Batch, Bodies, None

(* A node starts with a history of nothing.                                   *)
LEMMA HistoryOfGenesis == History(<<Genesis>>, 0)
<1> DEFINE s == <<Genesis>>
<1>1. s \in Seq(Batch) /\ Len(s) = 1 /\ s[1] = Genesis
  BY GenesisIsBatch
<1>2. Genesis.version = 0 /\ \A g \in Games : Genesis.state[g].version = 0
  BY DEF Genesis
<1> HIDE DEF s
<1>3. \A g \in Games : Wrote(s, 1, 1, g)
  <2>1. \A j \in 1..1 : j = 1
    OBVIOUS
  <2> QED BY <1>1, <1>2, <2>1 DEF Wrote
<1> QED BY <1>1, <1>2, <1>3 DEF History, s

(* The fields of a batch of a chain.                                          *)
LEMMA BatchesOf ==
  ASSUME NEW s \in Seq(Batch), NEW i \in 1..Len(s)
  PROVE  /\ s[i].version \in Nat
         /\ s[i].state \in [Games -> [body : Bodies, version : Nat]]
<1>1. s[i] \in Batch
  OBVIOUS
<1> QED BY <1>1 DEF Batch

(* A history stays one when later versions have been executed.                *)
LEMMA HistoryGrows ==
  ASSUME NEW s, NEW top \in Nat, NEW higher \in Nat, History(s, top), top <= higher
  PROVE  History(s, higher)
<1>1. \A i \in 1..Len(s) : s[i].version \in Nat
  BY BatchesOf DEF History
<1> QED BY <1>1 DEF History

(* Rolling a history back leaves a history.                                   *)
LEMMA HistoryPrefix ==
  ASSUME NEW s, NEW top \in Nat, History(s, top), NEW n \in 1..Len(s)
  PROVE  History(SubSeq(s, 1, n), top)
<1> DEFINE p == SubSeq(s, 1, n)
<1>1. s \in Seq(Batch) /\ n \in Nat /\ Len(s) \in Nat /\ n <= Len(s)
  BY DEF History
<1>2. p \in Seq(Batch) /\ Len(p) = n /\ \A i \in 1..n : p[i] = s[i]
  BY <1>1
<1>3. \A k \in 1..n : \A g \in Games : \E i \in 1..k : Wrote(p, i, k, g)
  <2> SUFFICES ASSUME NEW k \in 1..n, NEW g \in Games
               PROVE  \E i \in 1..k : Wrote(p, i, k, g)
    OBVIOUS
  <2>1. PICK i \in 1..k : Wrote(s, i, k, g)
    BY <1>1 DEF History
  <2>2. \A j \in i..k : p[j] = s[j]
    BY <1>1, <1>2
  <2> QED BY <1>1, <1>2, <2>1, <2>2 DEF Wrote
<1>4. /\ n > 0 /\ p[1] = Genesis
      /\ \A i \in 1..n : p[i].version <= top
  BY <1>1, <1>2 DEF History
<1>5. \A i, j \in 1..n : i < j => p[i].version < p[j].version
  BY <1>1, <1>2 DEF History
<1>6. \A i \in 2..n : Follows(p[i], p[i - 1])
  BY <1>1, <1>2 DEF History
<1> HIDE DEF p
<1>7. History(p, top)
  BY <1>2, <1>3, <1>4, <1>5, <1>6 DEF History
<1> QED BY <1>7 DEF p

(* A batch of a new version that keeps what it does not write extends a history.*)
LEMMA HistoryAppend ==
  ASSUME NEW s, NEW top \in Nat, History(s, top),
         NEW b \in Batch, top < b.version, Follows(b, Newest(s))
  PROVE  History(Append(s, b), b.version)
<1> DEFINE t == Append(s, b)
           n == Len(s)
<1>1. s \in Seq(Batch) /\ n \in Nat /\ n > 0
  BY DEF History
<1>2. t \in Seq(Batch) /\ Len(t) = n + 1 /\ t[n + 1] = b /\ \A i \in 1..n : t[i] = s[i]
  BY <1>1
<1>3. \A i \in 1..n : s[i].version \in Nat /\ s[i].version <= top
  BY <1>1, BatchesOf DEF History
<1>4. b.version \in Nat
  BY DEF Batch
<1>5. \A i, j \in 1..(n + 1) : i < j => t[i].version < t[j].version
  <2> SUFFICES ASSUME NEW i \in 1..(n + 1), NEW j \in 1..(n + 1), i < j
               PROVE  t[i].version < t[j].version
    OBVIOUS
  <2>1. CASE j = n + 1
    <3>1. i \in 1..n
      BY <1>1, <2>1
    <3> QED BY <1>2, <1>3, <1>4, <2>1, <3>1
  <2>2. CASE j # n + 1
    <3>1. i \in 1..n /\ j \in 1..n
      BY <1>1, <2>2
    <3> QED BY <1>2, <3>1 DEF History
  <2> QED BY <2>1, <2>2
<1>6. \A i \in 2..(n + 1) : Follows(t[i], t[i - 1])
  <2> SUFFICES ASSUME NEW i \in 2..(n + 1) PROVE Follows(t[i], t[i - 1])
    OBVIOUS
  <2>1. CASE i = n + 1
    BY <1>1, <1>2, <2>1 DEF Newest
  <2>2. CASE i # n + 1
    <3>1. i \in 2..n /\ i \in 1..n /\ i - 1 \in 1..n
      BY <1>1, <2>2
    <3> QED BY <1>2, <3>1 DEF History
  <2> QED BY <2>1, <2>2
<1>7. \A k \in 1..(n + 1) : \A g \in Games : \E i \in 1..k : Wrote(t, i, k, g)
  <2> SUFFICES ASSUME NEW k \in 1..(n + 1), NEW g \in Games
               PROVE  \E i \in 1..k : Wrote(t, i, k, g)
    OBVIOUS
  <2>1. CASE k # n + 1
    <3>1. k \in 1..n
      BY <1>1, <2>1
    <3>2. PICK i \in 1..k : Wrote(s, i, k, g)
      BY <3>1 DEF History
    <3>3. \A j \in i..k : t[j] = s[j]
      BY <1>1, <1>2, <3>1
    <3>4. t[i] = s[i] /\ t[k] = s[k]
      BY <1>1, <1>2, <3>1
    <3> QED BY <3>2, <3>3, <3>4 DEF Wrote
  <2>2. CASE k = n + 1 /\ b.state[g].version = b.version
    <3>1. \A j \in k..k : j = k
      BY <1>1
    <3>2. Wrote(t, k, k, g)
      BY <1>2, <2>2, <3>1 DEF Wrote
    <3> QED BY <1>1, <3>2
  <2>3. CASE k = n + 1 /\ b.state[g].version # b.version
    <3>1. b.state[g] = s[n].state[g]
      BY <2>3 DEF Follows, Newest
    <3>2. PICK i \in 1..n : Wrote(s, i, n, g)
      BY <1>1 DEF History
    <3>3. \A j \in i..k : t[j].state[g] = b.state[g]
      <4> SUFFICES ASSUME NEW j \in i..k PROVE t[j].state[g] = b.state[g]
        OBVIOUS
      <4>1. CASE j = n + 1
        BY <1>2, <4>1
      <4>2. CASE j # n + 1
        <5>1. j \in i..n /\ j \in 1..n
          BY <1>1, <2>3, <4>2
        <5> QED BY <1>2, <3>1, <3>2, <5>1 DEF Wrote
      <4> QED BY <4>1, <4>2
    <3>4. t[i] = s[i] /\ t[k] = b /\ i \in 1..k
      BY <1>1, <1>2, <2>3
    <3> QED BY <3>1, <3>2, <3>3, <3>4 DEF Wrote
  <2> QED BY <2>1, <2>2, <2>3
<1>8. \A i \in 1..(n + 1) : t[i].version <= b.version
  <2> SUFFICES ASSUME NEW i \in 1..(n + 1) PROVE t[i].version <= b.version
    OBVIOUS
  <2>1. CASE i = n + 1
    BY <1>2, <1>4, <2>1
  <2>2. CASE i # n + 1
    <3>1. i \in 1..n
      BY <1>1, <2>2
    <3> QED BY <1>2, <1>3, <1>4, <3>1
  <2> QED BY <2>1, <2>2
<1>9. t[1] = Genesis
  BY <1>1, <1>2 DEF History
<1> HIDE DEF t
<1> QED BY <1>1, <1>2, <1>5, <1>6, <1>7, <1>8, <1>9 DEF History, t

---------------------------------------------------------------------------
(* The inductive invariant *)

(* What the log says after history s. *)
Told(s) ==
  UNION { UNION { EventKeys(g, Body(s[i - 1], g), Body(s[i], g), s[i].version) : g \in Games } :
            i \in 2..Len(s) }

IndexInv ==
  /\ lastVersion \in 0..MaxVersion
  /\ History(chain, lastVersion)
  /\ History(stored, lastVersion)
  /\ status \in [Statuses -> [Games -> {NoEntry} \cup 0..MaxVersion]]
  /\ StatusIsCurrent
  /\ EventsAreHistory

(* A commit stores the next batch of the chain, a revert drops the newest     *)
(* one: what is stored stays a history.                                       *)
LEMMA CommitExtends ==
  ASSUME NEW top \in Nat, History(chain, top), History(stored, top),
         IsCanonicalStore, Len(stored) < Len(chain)
  PROVE  /\ Append(stored, chain[Len(stored) + 1]) = SubSeq(chain, 1, Len(stored) + 1)
         /\ History(Append(stored, chain[Len(stored) + 1]), top)
<1> DEFINE n == Len(stored)
           p == SubSeq(chain, 1, n + 1)
<1>1. chain \in Seq(Batch) /\ stored \in Seq(Batch) /\ n \in Nat /\ n + 1 \in 1..Len(chain)
  BY DEF History
<1>2. \A i \in 1..n : stored[i] = chain[i]
  BY <1>1 DEF IsCanonicalStore
<1>3. Append(stored, chain[n + 1]) = p
  <2> DEFINE t == Append(stored, chain[n + 1])
  <2>1. chain[n + 1] \in Batch
    BY <1>1
  <2>2. t \in Seq(Batch) /\ Len(t) = n + 1 /\ t[n + 1] = chain[n + 1]
        /\ \A i \in 1..n : t[i] = stored[i]
    BY <1>1, <2>1
  <2>3. p \in Seq(Batch) /\ Len(p) = n + 1 /\ \A i \in 1..(n + 1) : p[i] = chain[i]
    BY <1>1
  <2>4. \A i \in 1..(n + 1) : t[i] = p[i]
    <3> SUFFICES ASSUME NEW i \in 1..(n + 1) PROVE t[i] = p[i]
      OBVIOUS
    <3>1. i = n + 1 \/ i \in 1..n
      BY <1>1
    <3> HIDE DEF t, p
    <3> QED BY <1>2, <2>2, <2>3, <3>1
  <2> HIDE DEF t, p
  <2>5. DOMAIN t = 1..(n + 1) /\ DOMAIN p = 1..(n + 1)
    BY <2>2, <2>3
  <2>6. t = [i \in 1..(n + 1) |-> t[i]] /\ p = [i \in 1..(n + 1) |-> p[i]]
    BY <2>2, <2>3, <2>5
  <2>7. t = p
    BY <2>4, <2>6
  <2> QED BY <2>7 DEF t
<1>4. History(p, top)
  BY <1>1, HistoryPrefix
<1> QED BY <1>3, <1>4

LEMMA RevertShortens ==
  ASSUME NEW top \in Nat, History(chain, top), History(stored, top), ~IsCanonicalStore
  PROVE  /\ Len(stored) - 1 \in 1..Len(stored)
         /\ History(SubSeq(stored, 1, Len(stored) - 1), top)
<1>1. chain \in Seq(Batch) /\ stored \in Seq(Batch)
      /\ Len(stored) \in Nat /\ Len(stored) > 0 /\ Len(chain) \in Nat /\ Len(chain) > 0
      /\ chain[1] = Genesis /\ stored[1] = Genesis
  BY DEF History
<1>2. Len(stored) # 1
  <2> SUFFICES ASSUME Len(stored) = 1 PROVE FALSE
    OBVIOUS
  <2>1. stored = <<Genesis>>
    BY <1>1
  <2>2. SubSeq(chain, 1, 1) = <<Genesis>>
    <3> DEFINE q == SubSeq(chain, 1, 1)
    <3>1. q \in Seq(Batch) /\ Len(q) = 1 /\ q[1] = Genesis
      BY <1>1
    <3> HIDE DEF q
    <3>2. q = <<Genesis>>
      BY <3>1
    <3> QED BY <3>2 DEF q
  <2> QED BY <1>1, <2>1, <2>2 DEF IsCanonicalStore
<1> DEFINE n == Len(stored)
<1>3. n \in Nat /\ n > 0 /\ n # 1
  BY <1>1, <1>2
<1> HIDE DEF n
<1>4. n - 1 \in 1..n
  BY <1>3
<1> QED BY <1>4, HistoryPrefix DEF n

---------------------------------------------------------------------------
(* The log *)

(* A game that a batch leaves alone adds nothing to the log (forward_events). *)
LEMMA SameBodySaysNothing ==
  ASSUME NEW g \in Games, NEW body, NEW version
  PROVE  EventKeys(g, body, body, version) = {}
BY DEF EventKeys, ForwardEvents

(* Each entry of the log comes from one batch and one game.                   *)
LEMMA ToldBy ==
  ASSUME NEW s, NEW e
  PROVE  e \in Told(s) <=>
           \E i \in 2..Len(s) : \E g \in Games :
             e \in EventKeys(g, Body(s[i - 1], g), Body(s[i], g), s[i].version)
BY DEF Told

(* An entry carries the version of the batch that told it.                    *)
LEMMA KeysCarryVersion ==
  ASSUME NEW g, NEW old, NEW new, NEW version, NEW e \in EventKeys(g, old, new, version)
  PROVE  e.version = version
BY DEF EventKeys

(* The newest batch's facts are those of the games it wrote, and no earlier   *)
(* batch told them: versions are not reused.                                  *)
LEMMA NewestTells ==
  ASSUME NEW t, NEW top \in Nat, History(t, top), NEW n \in Nat \ {0}, Len(t) = n + 1
  PROVE  LET b == t[n + 1]
             a == t[n]
             keys == UNION { EventKeys(g, Body(a, g), Body(b, g), b.version) : g \in Written(b) }
         IN  /\ Told(t) = Told(SubSeq(t, 1, n)) \cup keys
             /\ Told(SubSeq(t, 1, n)) \cap keys = {}
<1> DEFINE b == t[n + 1]
           a == t[n]
           s == SubSeq(t, 1, n)
           keys == UNION { EventKeys(g, Body(a, g), Body(b, g), b.version) : g \in Written(b) }
<1>1. t \in Seq(Batch)
  BY DEF History
<1>2. Len(s) = n /\ \A i \in 1..n : s[i] = t[i]
  BY <1>1
<1>3. \A g \in Games \ Written(b) : EventKeys(g, Body(a, g), Body(b, g), b.version) = {}
  <2> SUFFICES ASSUME NEW g \in Games, g \notin Written(b)
               PROVE  EventKeys(g, Body(a, g), Body(b, g), b.version) = {}
    OBVIOUS
  <2>1. n + 1 \in 2..Len(t) /\ (n + 1) - 1 = n
    OBVIOUS
  <2>2. Follows(b, a)
    BY <2>1 DEF History
  <2>3. Body(b, g) = Body(a, g)
    BY <2>2 DEF Follows, Written, Body
  <2> QED BY <2>3, SameBodySaysNothing
<1> HIDE DEF s
<1>4. \A e : e \in keys <=> \E g \in Games : e \in EventKeys(g, Body(a, g), Body(b, g), b.version)
  BY <1>3 DEF Written
<1>5. \A i \in 2..n : i \in 1..n /\ i - 1 \in 1..n /\ i \in 2..(n + 1)
  OBVIOUS
<1>6. \A e : e \in Told(s) <=>
        \E i \in 2..n : \E g \in Games :
          e \in EventKeys(g, Body(t[i - 1], g), Body(t[i], g), t[i].version)
  BY <1>2, <1>5, ToldBy
<1>7. \A i \in 2..(n + 1) : i = n + 1 \/ i \in 2..n
  OBVIOUS
<1>8. n + 1 \in 2..(n + 1) /\ (n + 1) - 1 = n
  OBVIOUS
<1>9. \A e : e \in Told(t) <=> e \in Told(s) \/ e \in keys
  <2> SUFFICES ASSUME NEW e PROVE e \in Told(t) <=> e \in Told(s) \/ e \in keys
    OBVIOUS
  <2>1. ASSUME e \in Told(t) PROVE e \in Told(s) \/ e \in keys
    <3>1. PICK i \in 2..(n + 1) : \E g \in Games :
            e \in EventKeys(g, Body(t[i - 1], g), Body(t[i], g), t[i].version)
      BY <2>1, ToldBy
    <3>2. CASE i = n + 1
      <4> HIDE DEF keys
      <4> QED BY <1>4, <1>8, <3>1, <3>2
    <3>3. CASE i \in 2..n
      BY <1>6, <3>1, <3>3
    <3> QED BY <1>7, <3>2, <3>3
  <2>2. ASSUME e \in Told(s) PROVE e \in Told(t)
    BY <1>5, <1>6, <2>2, ToldBy
  <2>3. ASSUME e \in keys PROVE e \in Told(t)
    <3> HIDE DEF keys
    <3>1. \E g \in Games : e \in EventKeys(g, Body(a, g), Body(b, g), b.version)
      BY <1>4, <2>3
    <3> QED BY <1>8, <3>1, ToldBy
  <2> QED BY <2>1, <2>2, <2>3
<1>10. \A e : ~(e \in Told(s) /\ e \in keys)
  <2> SUFFICES ASSUME NEW e, e \in Told(s), e \in keys PROVE FALSE
    OBVIOUS
  <2>1. PICK i \in 2..n : \E g \in Games :
          e \in EventKeys(g, Body(t[i - 1], g), Body(t[i], g), t[i].version)
    BY <1>6
  <2>2. e.version = t[i].version
    BY <2>1, KeysCarryVersion
  <2>3. e.version = b.version
    BY <1>4, KeysCarryVersion
  <2>4. i \in 1..Len(t) /\ n + 1 \in 1..Len(t) /\ i < n + 1
    OBVIOUS
  <2>5. t[i].version < t[n + 1].version /\ t[i].version \in Nat
    BY <1>1, <2>4, BatchesOf DEF History
  <2> QED BY <2>2, <2>3, <2>5
<1> HIDE DEF keys
<1>11. Told(t) = Told(s) \cup keys /\ Told(s) \cap keys = {}
  BY <1>9, <1>10
<1> QED BY <1>11 DEF s, keys

---------------------------------------------------------------------------
(* The status index *)

(* StatusIsCurrent for one game, an index and a history. *)
Current(index, s, g) ==
  LET kept == StatusOf(Body(Newest(s), g))
  IN  /\ \A t \in Statuses \ {kept} : index[t][g] = NoEntry
      /\ kept \in Statuses =>
           \E i \in 1..Len(s) :
             /\ index[kept][g] = s[i].version
             /\ g \in Written(s[i])
             /\ \A j \in i..Len(s) : StatusOf(Body(s[j], g)) = kept

(* A batch that leaves a game in its bucket leaves its entry valid            *)
(* (index_diff touches no entry then).                                        *)
LEMMA EntryOutlivesBatch ==
  ASSUME NEW index, NEW t, NEW n \in Nat \ {0}, t \in Seq(Batch), Len(t) = n + 1,
         NEW g \in Games, Current(index, SubSeq(t, 1, n), g),
         StatusOf(Body(t[n], g)) = StatusOf(Body(t[n + 1], g))
  PROVE  Current(index, t, g)
<1> DEFINE s == SubSeq(t, 1, n)
           kept == StatusOf(Body(t[n + 1], g))
<1>1. Len(s) = n /\ \A i \in 1..n : s[i] = t[i]
  OBVIOUS
<1>2. n \in 1..n
  OBVIOUS
<1> HIDE DEF s
<1>3. Newest(s) = t[n] /\ Newest(t) = t[n + 1]
  BY <1>1, <1>2 DEF Newest
<1>4. \A x \in Statuses \ {kept} : index[x][g] = NoEntry
  BY <1>3 DEF Current, s
<1>5. ASSUME kept \in Statuses
      PROVE  \E i \in 1..(n + 1) :
               /\ index[kept][g] = t[i].version
               /\ g \in Written(t[i])
               /\ \A j \in i..(n + 1) : StatusOf(Body(t[j], g)) = kept
  <2>1. PICK i \in 1..n : /\ index[kept][g] = s[i].version
                          /\ g \in Written(s[i])
                          /\ \A j \in i..n : StatusOf(Body(s[j], g)) = kept
    BY <1>1, <1>3, <1>5 DEF Current, s
  <2>2. \A j \in i..(n + 1) : j = n + 1 \/ (j \in i..n /\ j \in 1..n)
    OBVIOUS
  <2>3. \A j \in i..(n + 1) : StatusOf(Body(t[j], g)) = kept
    BY <1>1, <2>1, <2>2
  <2>4. i \in 1..(n + 1) /\ s[i] = t[i]
    BY <1>1
  <2> QED BY <2>1, <2>3, <2>4
<1> QED BY <1>3, <1>4, <1>5 DEF Current

(* A batch that moves a game enters it under its own version. *)
LEMMA MovedEntryIsCurrent ==
  ASSUME NEW index, NEW t, NEW n \in Nat \ {0}, t \in Seq(Batch), Len(t) = n + 1,
         NEW g \in Games, g \in Written(t[n + 1]),
         \A x \in Statuses : index[x][g] =
           IF x = StatusOf(Body(t[n + 1], g)) THEN t[n + 1].version ELSE NoEntry
  PROVE  Current(index, t, g)
<1> DEFINE m == n + 1
<1>1. m \in Nat /\ m > 0 /\ Len(t) = m
  OBVIOUS
<1> HIDE DEF m
<1>2. m \in 1..m
  BY <1>1
<1>3. \A j \in m..m : j = m
  BY <1>1
<1> QED BY <1>1, <1>2, <1>3 DEF Current, Newest, m

(* A commit keeps the status index current (index_diff).                      *)
LEMMA CommitKeepsStatus ==
  ASSUME NEW top \in Nat, History(chain, top), History(stored, top),
         StatusIsCurrent, IndexBatch
  PROVE  StatusIsCurrent'
<1> DEFINE n == Len(stored)
           t == stored'
<1>1. t = Append(stored, chain[n + 1]) /\ History(t, top) /\ IsCanonicalStore /\ n < Len(chain)
  BY CommitExtends DEF IndexBatch
<1>2. n \in Nat \ {0} /\ stored \in Seq(Batch) /\ t \in Seq(Batch)
  BY <1>1 DEF History
<1>3. n + 1 \in 1..Len(chain) /\ chain[n + 1] \in Batch
  BY <1>1, <1>2 DEF History
<1>4. Len(t) = n + 1 /\ t[n + 1] = chain[n + 1] /\ t[n] = Newest(stored)
      /\ SubSeq(t, 1, n) = stored
  BY <1>1, <1>2, <1>3 DEF Newest
<1>5. SUFFICES ASSUME NEW g \in Games PROVE Current(status', t, g)
  BY DEF StatusIsCurrent, Current
<1>6. Current(status, SubSeq(t, 1, n), g)
  BY <1>4 DEF StatusIsCurrent, Current
<1> DEFINE a == Body(t[n], g)
           b == Body(t[n + 1], g)
           version == t[n + 1].version
<1>7. \A x \in Statuses : status'[x][g] =
        IF g \notin Written(t[n + 1]) THEN status[x][g]
        ELSE IndexedEntry(x, g, a, b, version)
  BY <1>4 DEF IndexBatch
<1>8. n + 1 \in 2..(n + 1) /\ (n + 1) - 1 = n
  BY <1>2
<1>9. Follows(t[n + 1], t[n])
  BY <1>1, <1>4, <1>8 DEF History
<1> HIDE DEF n, t
<1>10. CASE StatusOf(a) = StatusOf(b)
  <2>1. \A x \in Statuses : status'[x][g] = status[x][g]
    BY <1>7, <1>10 DEF IndexedEntry
  <2>2. Current(status', SubSeq(t, 1, n), g)
    <3>1. Newest(SubSeq(t, 1, n)) = Newest(stored)
      BY <1>4
    <3> QED BY <1>6, <2>1 DEF Current
  <2> QED BY <1>2, <1>4, <1>10, <2>2, EntryOutlivesBatch
<1>11. CASE StatusOf(a) # StatusOf(b)
  <2>1. g \in Written(t[n + 1])
    BY <1>9, <1>11 DEF Follows, Written, Body
  <2>2. \A x \in Statuses \ {StatusOf(a)} : status[x][g] = NoEntry
    BY <1>4, <1>6 DEF Current
  <2>3. \A x \in Statuses : status'[x][g] = IF x = StatusOf(b) THEN version ELSE NoEntry
    BY <1>7, <1>11, <2>1, <2>2 DEF IndexedEntry
  <2> QED BY <1>2, <1>4, <2>1, <2>3, MovedEntryIsCurrent
<1> QED BY <1>10, <1>11

(* A revert that does not touch a game leaves its entry valid: it was written *)
(* before the batch.                                                          *)
LEMMA EntryOutlivesRevert ==
  ASSUME NEW index, NEW t, NEW n \in Nat \ {0}, t \in Seq(Batch), Len(t) = n + 1,
         NEW g \in Games, g \notin Written(t[n + 1]), Current(index, t, g),
         Body(t[n + 1], g) = Body(t[n], g)
  PROVE  Current(index, SubSeq(t, 1, n), g)
<1> DEFINE s == SubSeq(t, 1, n)
           kept == StatusOf(Body(t[n], g))
<1>1. Len(s) = n /\ \A i \in 1..n : s[i] = t[i]
  OBVIOUS
<1>2. n \in 1..n
  OBVIOUS
<1> HIDE DEF s
<1>3. Newest(s) = t[n] /\ Newest(t) = t[n + 1]
  BY <1>1, <1>2 DEF Newest
<1>4. \A x \in Statuses \ {kept} : index[x][g] = NoEntry
  BY <1>3 DEF Current
<1>5. ASSUME kept \in Statuses
      PROVE  \E i \in 1..n : /\ index[kept][g] = s[i].version
                             /\ g \in Written(s[i])
                             /\ \A j \in i..n : StatusOf(Body(s[j], g)) = kept
  <2>1. PICK i \in 1..(n + 1) : /\ index[kept][g] = t[i].version
                                /\ g \in Written(t[i])
                                /\ \A j \in i..(n + 1) : StatusOf(Body(t[j], g)) = kept
    BY <1>3, <1>5 DEF Current
  <2>2. i # n + 1
    BY <2>1
  <2>3. i \in 1..n
    BY <2>2
  <2>4. \A j \in i..n : j \in 1..n /\ j \in i..(n + 1)
    BY <2>3
  <2> QED BY <1>1, <2>1, <2>3, <2>4
<1> QED BY <1>1, <1>3, <1>4, <1>5 DEF Current, s

(* A reverted game is entered with the version that wrote the restored body,  *)
(* which the stored history still has.                                        *)
LEMMA RestoredEntryIsCurrent ==
  ASSUME NEW index, NEW s, NEW top \in Nat, History(s, top), NEW g \in Games,
         \A x \in Statuses : index[x][g] =
           IF x = StatusOf(Body(Newest(s), g)) THEN Newest(s).state[g].version ELSE NoEntry
  PROVE  Current(index, s, g)
<1> DEFINE n == Len(s)
<1>1. n \in 1..n
  BY DEF History
<1>2. PICK i \in 1..n : Wrote(s, i, n, g)
  BY <1>1 DEF History
<1>3. i \in i..n
  BY <1>1
<1> HIDE DEF n
<1>4. \A j \in i..n : Body(s[j], g) = Body(s[n], g)
  BY <1>2 DEF Wrote, Body
<1>5. s[i].version = s[n].state[g].version /\ g \in Written(s[i])
  BY <1>2, <1>3 DEF Wrote, Written
<1> QED BY <1>1, <1>4, <1>5 DEF Current, Newest, n

(* A revert keeps the status index current (revert_diff).                     *)
LEMMA RevertKeepsStatus ==
  ASSUME NEW top \in Nat, History(chain, top), History(stored, top),
         StatusIsCurrent, RevertBatch
  PROVE  StatusIsCurrent'
<1> DEFINE n == Len(stored) - 1
           t == stored
<1>1. stored' = SubSeq(t, 1, n) /\ History(stored', top) /\ ~IsCanonicalStore
      /\ n \in 1..Len(stored)
  BY RevertShortens DEF RevertBatch
<1>2. t \in Seq(Batch) /\ Len(t) = n + 1 /\ n \in Nat \ {0}
  BY <1>1 DEF History
<1>3. Newest(t) = t[n + 1] /\ Newest(stored') = t[n]
  BY <1>1, <1>2 DEF Newest
<1>4. SUFFICES ASSUME NEW g \in Games PROVE Current(status', stored', g)
  BY DEF StatusIsCurrent, Current
<1>5. Current(status, t, g)
  BY DEF StatusIsCurrent, Current
<1> DEFINE a == Body(t[n], g)
           b == Body(t[n + 1], g)
<1>6. \A x \in Statuses : status'[x][g] =
        IF g \notin Written(t[n + 1]) THEN status[x][g]
        ELSE RevertedEntry(x, g, b, a, t[n].state[g].version)
  BY <1>1, <1>2, <1>3 DEF RevertBatch, Newest
<1>7. n + 1 \in 2..(n + 1) /\ (n + 1) - 1 = n
  BY <1>2
<1>8. Follows(t[n + 1], t[n])
  BY <1>2, <1>7 DEF History
<1> HIDE DEF n
<1>9. CASE g \notin Written(t[n + 1])
  <2>1. b = a
    BY <1>8, <1>9 DEF Follows, Written, Body
  <2>2. \A x \in Statuses : status'[x][g] = status[x][g]
    BY <1>6, <1>9
  <2>3. Current(status', t, g)
    BY <1>5, <2>2 DEF Current
  <2> QED BY <1>1, <1>2, <1>9, <2>1, <2>3, EntryOutlivesRevert
<1>10. CASE g \in Written(t[n + 1])
  <2>1. \A x \in Statuses : status'[x][g] =
          IF x = StatusOf(Body(Newest(stored'), g)) THEN Newest(stored').state[g].version
          ELSE NoEntry
    BY <1>3, <1>6, <1>10 DEF RevertedEntry
  <2> QED BY <1>1, <2>1, RestoredEntryIsCurrent
<1> QED BY <1>9, <1>10

---------------------------------------------------------------------------
(* Steps *)

(* An executed batch extends the canonical chain.                             *)
LEMMA ExecuteKeepsHistory ==
  ASSUME lastVersion \in Nat, History(chain, lastVersion), Execute
  PROVE  History(chain', lastVersion') /\ lastVersion' = lastVersion + 1
<1> DEFINE version == lastVersion + 1
           before == Newest(chain)
<1>0. PICK writes \in SUBSET Games \ {{}} :
        \E new \in [writes -> Bodies] :
          /\ \A g \in writes : Becomes(g, Body(before, g), new[g])
          /\ chain' = Append(chain,
               [version |-> version,
                state   |-> [g \in Games |->
                               IF g \in writes THEN [body |-> new[g], version |-> version]
                               ELSE before.state[g]]])
  BY DEF Execute
<1>1. PICK new \in [writes -> Bodies] :
        chain' = Append(chain,
             [version |-> version,
              state   |-> [g \in Games |->
                             IF g \in writes THEN [body |-> new[g], version |-> version]
                             ELSE before.state[g]]])
  BY <1>0
<1> DEFINE b == [version |-> version,
                 state   |-> [g \in Games |->
                                IF g \in writes THEN [body |-> new[g], version |-> version]
                                ELSE before.state[g]]]
<1>2. before.state \in [Games -> [body : Bodies, version : Nat]]
  <2>1. chain \in Seq(Batch) /\ Len(chain) \in 1..Len(chain)
    BY DEF History
  <2> QED BY <2>1, BatchesOf DEF Newest
<1>3. version \in Nat /\ lastVersion < version
  OBVIOUS
<1>4. \A g \in Games : b.state[g] \in [body : Bodies, version : Nat]
  BY <1>1, <1>2, <1>3
<1>5. b \in Batch
  BY <1>3, <1>4 DEF Batch
<1>6. Follows(b, before)
  BY DEF Follows
<1>7. chain' = Append(chain, b) /\ b.version = version
  BY <1>1
<1>8. lastVersion' = version
  BY DEF Execute
<1> HIDE DEF b, version, before
<1>9. History(Append(chain, b), b.version)
  BY <1>3, <1>5, <1>6, <1>7, HistoryAppend DEF before
<1> QED BY <1>7, <1>8, <1>9 DEF version

(* The status index holds versions that were executed.                        *)
LEMMA EntriesKeepType ==
  ASSUME NEW top \in 0..MaxVersion, History(chain, top), History(stored, top),
         status \in [Statuses -> [Games -> {NoEntry} \cup 0..MaxVersion]],
         IndexBatch \/ RevertBatch
  PROVE  status' \in [Statuses -> [Games -> {NoEntry} \cup 0..MaxVersion]]
<1> DEFINE Entries == {NoEntry} \cup 0..MaxVersion
<1>1. MaxVersion \in Nat /\ top \in Nat /\ top <= MaxVersion
  BY IndexerAssumption
<1>2. CASE IndexBatch
  <2> DEFINE n == Len(stored)
             batch == chain[n + 1]
             before == Newest(stored)
  <2>1. n + 1 \in 1..Len(chain)
    BY <1>2 DEF IndexBatch, History
  <2>2. batch.version \in Entries
    BY <1>1, <2>1, BatchesOf DEF History
  <2>3. status' = [s \in Statuses |-> [g \in Games |->
                    IF g \notin Written(batch) THEN status[s][g]
                    ELSE IndexedEntry(s, g, Body(before, g), Body(batch, g), batch.version)]]
    BY <1>2 DEF IndexBatch
  <2> HIDE DEF batch, before, n
  <2> QED BY <2>2, <2>3 DEF IndexedEntry
<1>3. CASE RevertBatch
  <2> DEFINE n == Len(stored) - 1
             batch == Newest(stored)
             restored == stored[n]
  <2>1. n \in 1..Len(stored)
    BY <1>1, <1>3, RevertShortens DEF RevertBatch
  <2>2. \A g \in Games : restored.state[g].version \in Entries
    <3> SUFFICES ASSUME NEW g \in Games PROVE restored.state[g].version \in Entries
      OBVIOUS
    <3>1. PICK i \in 1..n : Wrote(stored, i, n, g)
      BY <2>1 DEF History
    <3>2. i \in 1..Len(stored)
      BY <2>1 DEF History
    <3>3. stored[i].version \in Nat /\ stored[i].version <= top
      BY <3>2, BatchesOf DEF History
    <3> QED BY <1>1, <3>1, <3>3 DEF Wrote
  <2>3. status' = [s \in Statuses |-> [g \in Games |->
                    IF g \notin Written(batch) THEN status[s][g]
                    ELSE RevertedEntry(s, g, Body(batch, g), Body(restored, g),
                                       restored.state[g].version)]]
    BY <1>3 DEF RevertBatch
  <2> HIDE DEF batch, restored, n
  <2> QED BY <2>2, <2>3 DEF RevertedEntry
<1> QED BY <1>2, <1>3

(* A commit keeps the log what the store tells (index_diff).                  *)
LEMMA CommitKeepsEvents ==
  ASSUME NEW top \in Nat, History(chain, top), History(stored, top),
         EventsAreHistory, IndexBatch
  PROVE  EventsAreHistory'
<1> DEFINE n == Len(stored)
           t == stored'
           b == t[n + 1]
           keys == UNION { EventKeys(g, Body(t[n], g), Body(b, g), b.version) : g \in Written(b) }
<1>0. t = Append(stored, chain[n + 1]) /\ History(t, top) /\ n < Len(chain)
  BY CommitExtends DEF IndexBatch
<1>1. n + 1 \in 1..Len(chain)
  BY <1>0 DEF History
<1>2. n \in Nat \ {0} /\ stored \in Seq(Batch) /\ chain[n + 1] \in Batch
  BY <1>0, <1>1 DEF History
<1>3. Len(t) = n + 1 /\ b = chain[n + 1] /\ t[n] = Newest(stored) /\ SubSeq(t, 1, n) = stored
  BY <1>0, <1>1, <1>2 DEF Newest
<1>4. events = Told(stored)
  BY DEF EventsAreHistory, Told
<1>5. events' = events \cup keys
  BY <1>3 DEF IndexBatch
<1> HIDE DEF n
<1>6. Told(t) = Told(SubSeq(t, 1, n)) \cup keys
  <2>1. History(t, top) /\ Len(t) = n + 1 /\ n \in Nat \ {0}
    BY <1>0, <1>2, <1>3
  <2> HIDE DEF t
  <2> QED BY <2>1, NewestTells
<1>7. events' = Told(t)
  BY <1>3, <1>4, <1>5, <1>6
<1> QED BY <1>7 DEF EventsAreHistory, Told

(* A revert keeps the log what the store tells (revert_diff).                 *)
LEMMA RevertKeepsEvents ==
  ASSUME NEW top \in Nat, History(chain, top), History(stored, top),
         EventsAreHistory, RevertBatch
  PROVE  EventsAreHistory'
<1> DEFINE n == Len(stored) - 1
           t == stored
           b == t[n + 1]
           keys == UNION { EventKeys(g, Body(t[n], g), Body(b, g), b.version) : g \in Written(b) }
<1>1. stored' = SubSeq(t, 1, n) /\ n \in 1..Len(stored)
  BY RevertShortens DEF RevertBatch
<1>2. n \in Nat \ {0} /\ Len(t) = n + 1 /\ Newest(stored) = b
  BY <1>1 DEF History, Newest
<1>3. events = Told(t)
  BY DEF EventsAreHistory, Told
<1>4. events' = events \ keys
  BY <1>2 DEF RevertBatch, RevertedKeys
<1> HIDE DEF n
<1>5. Told(t) = Told(stored') \cup keys /\ Told(stored') \cap keys = {}
  BY <1>1, <1>2, NewestTells
<1>6. events' = Told(stored')
  BY <1>3, <1>4, <1>5
<1> QED BY <1>6 DEF EventsAreHistory, Told

(* A fresh node's indexes say what its store says: nothing. *)
LEMMA IndexInit == Init => IndexInv
<1> SUFFICES ASSUME Init PROVE IndexInv
  OBVIOUS
<1>1. History(chain, 0) /\ History(stored, 0) /\ lastVersion = 0 /\ 0 \in 0..MaxVersion
  BY HistoryOfGenesis, IndexerAssumption DEF Init
<1>2. status = [s \in Statuses |-> [g \in Games |-> NoEntry]] /\ stored = <<Genesis>>
  BY DEF Init
<1>3. Newest(stored) = Genesis
  BY <1>2 DEF Newest
<1>4. \A g \in Games : StatusOf(Body(Genesis, g)) \notin Statuses
  BY IndexerAssumption DEF Genesis, Body, None, StatusOf, IsFinished, Statuses
<1>5. StatusIsCurrent
  BY <1>2, <1>3, <1>4 DEF StatusIsCurrent
<1>6. EventsAreHistory
  <2>1. Len(stored) = 1
    BY <1>2
  <2>2. 2..1 = {}
    OBVIOUS
  <2>3. Told(stored) = {}
    BY <2>1, <2>2 DEF Told
  <2> QED BY <2>3 DEF Init, EventsAreHistory, Told
<1> QED BY <1>1, <1>2, <1>5, <1>6 DEF IndexInv

(* Every step of chain and store keeps the invariant. *)
LEMMA IndexNext == IndexInv /\ [Next]_indexVars => IndexInv'
<1> SUFFICES ASSUME IndexInv, [Next]_indexVars PROVE IndexInv'
  OBVIOUS
<1>1. lastVersion \in Nat /\ History(chain, lastVersion) /\ History(stored, lastVersion)
  BY DEF IndexInv
<1>2. CASE UNCHANGED indexVars
  BY <1>2 DEF indexVars, IndexInv, StatusIsCurrent, EventsAreHistory
<1>3. CASE Execute
  <2>1. History(chain', lastVersion') /\ lastVersion' = lastVersion + 1
    BY <1>1, <1>3, ExecuteKeepsHistory
  <2>2. UNCHANGED <<stored, status, events>> /\ lastVersion' \in 0..MaxVersion
    BY <1>1, <1>3, <2>1, IndexerAssumption DEF Execute
  <2>3. History(stored, lastVersion')
    BY <1>1, <2>1, HistoryGrows
  <2> QED BY <2>1, <2>2, <2>3 DEF IndexInv, StatusIsCurrent, EventsAreHistory
<1>4. CASE Reorg
  <2>1. PICK n \in 1..(Len(chain) - 1) : chain' = SubSeq(chain, 1, n)
    BY <1>4 DEF Reorg
  <2>2. n \in 1..Len(chain)
    BY <1>1 DEF History
  <2>3. History(chain', lastVersion) /\ UNCHANGED <<lastVersion, stored, status, events>>
    BY <1>1, <1>4, <2>1, <2>2, HistoryPrefix DEF Reorg
  <2> QED BY <2>3 DEF IndexInv, StatusIsCurrent, EventsAreHistory
<1>5. CASE IndexBatch
  <2>1. UNCHANGED <<chain, lastVersion>> /\ History(stored', lastVersion)
    BY <1>1, <1>5, CommitExtends DEF IndexBatch
  <2>2. status' \in [Statuses -> [Games -> {NoEntry} \cup 0..MaxVersion]]
    BY <1>1, <1>5, EntriesKeepType DEF IndexInv
  <2>3. StatusIsCurrent' /\ EventsAreHistory'
    BY <1>1, <1>5, CommitKeepsStatus, CommitKeepsEvents DEF IndexInv
  <2> QED BY <2>1, <2>2, <2>3 DEF IndexInv
<1>6. CASE RevertBatch
  <2>1. UNCHANGED <<chain, lastVersion>> /\ History(stored', lastVersion)
    BY <1>1, <1>6, RevertShortens DEF RevertBatch
  <2>2. status' \in [Statuses -> [Games -> {NoEntry} \cup 0..MaxVersion]]
    BY <1>1, <1>6, EntriesKeepType DEF IndexInv
  <2>3. StatusIsCurrent' /\ EventsAreHistory'
    BY <1>1, <1>6, RevertKeepsStatus, RevertKeepsEvents DEF IndexInv
  <2> QED BY <2>1, <2>2, <2>3 DEF IndexInv
<1> QED BY <1>2, <1>3, <1>4, <1>5, <1>6 DEF Next

(* The inductive invariant: the chain and the store are histories, and both   *)
(* indexes say what the stored one says.                                      *)
THEOREM IndexInvariant == Spec => []IndexInv
BY IndexInit, IndexNext, PTL DEF Spec

(* StatusIsCurrent: through any commits and reverts a game has one entry, in  *)
(* the bucket of its stored body, visible as long as its stay there is        *)
(* canonical.                                                                 *)
THEOREM StatusFollowsStore == Spec => []StatusIsCurrent
<1>1. IndexInv => StatusIsCurrent
  BY DEF IndexInv
<1> QED BY <1>1, IndexInvariant, PTL

(* A player event names the creator or the joiner of the game.                *)
LEMMA FactsAreTyped ==
  ASSUME NEW g \in Games, NEW old \in Bodies, NEW new \in Bodies,
         NEW f \in ForwardEvents(g, old, new)
  PROVE  /\ f.player \in Players
         /\ f.event \in {"Created", "Joined", "Won", "Lost", "Draw"}
<1>1. Creator[g] \in Players
  BY IndexerAssumption
<1>2. new.joiner # Nobody => new.joiner \in Players
  BY DEF Bodies, None
<1>3. ASSUME IsFinished(new)
      PROVE  /\ new.joiner \in Players
             /\ CreatorEvent[new.state] \in {"Won", "Lost", "Draw"}
             /\ JoinerEvent[new.state] \in {"Won", "Lost", "Draw"}
  <2>1. new.state \in {"First", "Second", "Draw"}
    BY <1>3, IndexerAssumption DEF IsFinished
  <2> QED BY <2>1 DEF Bodies, None, CreatorEvent, JoinerEvent
<1>4. \/ f = Fact(Creator[g], "Created")
      \/ f = Fact(new.joiner, "Joined") /\ new.joiner # Nobody
      \/ f = Fact(Creator[g], CreatorEvent[new.state]) /\ IsFinished(new)
      \/ f = Fact(new.joiner, JoinerEvent[new.state]) /\ IsFinished(new)
  BY DEF ForwardEvents
<1> QED BY <1>1, <1>2, <1>3, <1>4 DEF Fact

(* What a history tells has the shape of the event keys.                      *)
LEMMA ToldIsTyped ==
  ASSUME NEW s, NEW top \in 0..MaxVersion, History(s, top)
  PROVE  Told(s) \subseteq [player : Players, event : {"Created", "Joined", "Won", "Lost", "Draw"},
                           version : 1..MaxVersion, game : Games]
<1> SUFFICES ASSUME NEW e \in Told(s)
             PROVE  e \in [player : Players, event : {"Created", "Joined", "Won", "Lost", "Draw"},
                           version : 1..MaxVersion, game : Games]
  OBVIOUS
<1>1. PICK i \in 2..Len(s), g \in Games :
        e \in EventKeys(g, Body(s[i - 1], g), Body(s[i], g), s[i].version)
  BY ToldBy
<1>2. PICK f \in ForwardEvents(g, Body(s[i - 1], g), Body(s[i], g)) :
        e = [player |-> f.player, event |-> f.event, version |-> s[i].version, game |-> g]
  BY <1>1 DEF EventKeys
<1>3. i \in 1..Len(s) /\ i - 1 \in 1..Len(s) /\ 1 \in 1..Len(s) /\ 1 < i /\ s \in Seq(Batch)
  BY DEF History
<1>4. Body(s[i - 1], g) \in Bodies /\ Body(s[i], g) \in Bodies
  BY <1>3, BatchesOf DEF Body
<1>5. /\ s[i].version \in Nat /\ s[1].version \in Nat
      /\ s[1].version < s[i].version /\ s[i].version <= top
  BY <1>3, BatchesOf DEF History
<1>6. s[i].version \in 1..MaxVersion
  BY <1>5, IndexerAssumption
<1> QED BY <1>2, <1>4, <1>6, FactsAreTyped

(* TypeOK: both indexes keep the shape of their keyspaces.                    *)
THEOREM IndexType == Spec => []TypeOK
<1>1. IndexInv => TypeOK
  <2> SUFFICES ASSUME IndexInv PROVE TypeOK
    OBVIOUS
  <2>1. events = Told(stored)
    BY DEF IndexInv, EventsAreHistory, Told
  <2> QED BY <2>1, ToldIsTyped DEF IndexInv, TypeOK
<1> QED BY <1>1, IndexInvariant, PTL

(* EventsAreHistory: the event log is the stored history, no more, no less.   *)
THEOREM EventsFollowStore == Spec => []EventsAreHistory
<1>1. IndexInv => EventsAreHistory
  BY DEF IndexInv
<1> QED BY <1>1, IndexInvariant, PTL

---------------------------------------------------------------------------
(* Branches: what the chain, the store and a snapshot have in common *)

Branches(s, t) ==
  \A i \in 1..Len(s), j \in 1..Len(t) :
    s[i].version = t[j].version => i = j /\ \A k \in 1..i : s[k] = t[k]

(* s is t without its newest batches, if any. *)
Cut(s, t) == Len(s) <= Len(t) /\ \A i \in 1..Len(s) : s[i] = t[i]

(* t is s and one batch more, newer than top. *)
Grows(t, s, top) ==
  Len(t) = Len(s) + 1 /\ t[Len(t)].version > top /\ \A i \in 1..Len(s) : t[i] = s[i]

LEMMA LengthOf ==
  ASSUME NEW s, NEW top, History(s, top)
  PROVE  Len(s) \in Nat /\ Len(s) \in 1..Len(s)
BY DEF History

LEMMA VersionOf ==
  ASSUME NEW s, NEW top \in Nat, History(s, top), NEW i \in 1..Len(s)
  PROVE  s[i].version \in Nat /\ s[i].version <= top
BY BatchesOf DEF History

LEMMA BranchSelf ==
  ASSUME NEW s, NEW top \in Nat, History(s, top)
  PROVE  Branches(s, s)
<1> SUFFICES ASSUME NEW i \in 1..Len(s), NEW j \in 1..Len(s), s[i].version = s[j].version
             PROVE  i = j
  BY DEF Branches
<1>1. s[i].version \in Nat /\ s[j].version \in Nat /\ Len(s) \in Nat
  BY LengthOf, VersionOf
<1>2. ~(i < j) /\ ~(j < i)
  BY <1>1 DEF History
<1> QED BY <1>1, <1>2

LEMMA BranchSwap ==
  ASSUME NEW s, NEW t, Branches(s, t)
  PROVE  Branches(t, s)
BY DEF Branches

LEMMA BranchCut ==
  ASSUME NEW s, NEW t, NEW p, Branches(s, t), Cut(p, s), Len(s) \in Nat, Len(p) \in Nat
  PROVE  Branches(p, t)
<1> SUFFICES ASSUME NEW i \in 1..Len(p), NEW j \in 1..Len(t), p[i].version = t[j].version
             PROVE  i = j /\ \A k \in 1..i : p[k] = t[k]
  BY DEF Branches
<1>1. i \in 1..Len(s) /\ p[i] = s[i] /\ \A k \in 1..i : p[k] = s[k]
  BY DEF Cut
<1> QED BY <1>1 DEF Branches

LEMMA BranchGrows ==
  ASSUME NEW top \in Nat, NEW s, NEW t, NEW g,
         Branches(s, t), Grows(g, s, top), History(t, top), Len(s) \in Nat
  PROVE  Branches(g, t)
<1> SUFFICES ASSUME NEW i \in 1..Len(g), NEW j \in 1..Len(t), g[i].version = t[j].version
             PROVE  i = j /\ \A k \in 1..i : g[k] = t[k]
  BY DEF Branches
<1>1. t[j].version \in Nat /\ t[j].version <= top
  BY VersionOf
<1>2. i # Len(g)
  BY <1>1 DEF Grows
<1>3. i \in 1..Len(s)
  BY <1>2 DEF Grows
<1>4. g[i] = s[i] /\ \A k \in 1..i : k \in 1..Len(s) /\ g[k] = s[k]
  BY <1>3 DEF Grows
<1> QED BY <1>3, <1>4 DEF Branches

(* A branch that has a batch has every older one of the other branch.       *)
LEMMA BranchKnows ==
  ASSUME NEW top \in Nat, NEW s, NEW t, History(s, top), History(t, top), Branches(s, t),
         NEW i \in 1..Len(s), s[i].version \in Versions(t)
  PROVE  i \in 1..Len(t) /\ \A k \in 1..i : s[k] = t[k]
<1>1. PICK j \in 1..Len(t) : s[i].version = t[j].version
  BY DEF Versions
<1> QED BY <1>1 DEF Branches

(* Chain and store move along the tree. *)
LEMMA NodeMoves ==
  ASSUME IndexInv, Next
  PROVE  \/ /\ Grows(chain', chain, lastVersion) /\ lastVersion' = lastVersion + 1
            /\ Execute /\ UNCHANGED <<stored, status, events>>
         \/ Cut(chain', chain) /\ UNCHANGED <<lastVersion, stored, status, events>>
         \/ Cut(stored', chain) /\ IndexBatch /\ UNCHANGED <<chain, lastVersion>>
         \/ Cut(stored', stored) /\ RevertBatch /\ UNCHANGED <<chain, lastVersion>>
<1>1. /\ lastVersion \in Nat /\ History(chain, lastVersion) /\ History(stored, lastVersion)
      /\ Len(chain) \in Nat /\ Len(chain) > 0
  BY LengthOf DEF IndexInv
<1>2. CASE Execute
  <2>1. PICK b : b.version = lastVersion + 1 /\ chain' = Append(chain, b)
    BY <1>2 DEF Execute
  <2>2. History(chain', lastVersion') /\ lastVersion' = lastVersion + 1
    BY <1>1, <1>2, ExecuteKeepsHistory
  <2>3. chain \in Seq(Batch \cup {b}) /\ chain \in Seq(Batch)
    BY <1>1 DEF History
  <2>4. /\ Len(chain') = Len(chain) + 1 /\ chain'[Len(chain) + 1] = b
        /\ \A i \in 1..Len(chain) : chain'[i] = chain[i]
    BY <2>1, <2>3
  <2>5. Grows(chain', chain, lastVersion)
    BY <1>1, <2>1, <2>4 DEF Grows
  <2> QED BY <1>2, <2>2, <2>5 DEF Execute
<1>3. CASE Reorg
  <2>1. PICK n \in 1..(Len(chain) - 1) : chain' = SubSeq(chain, 1, n)
    BY <1>3 DEF Reorg
  <2>2. chain \in Seq(Batch) /\ n \in Nat /\ n <= Len(chain)
    BY <1>1 DEF History
  <2>3. Cut(chain', chain)
    BY <2>1, <2>2 DEF Cut
  <2> QED BY <1>3, <2>3 DEF Reorg
<1>4. CASE IndexBatch
  <2>1. /\ IsCanonicalStore /\ Len(stored) < Len(chain)
        /\ stored' = Append(stored, chain[Len(stored) + 1])
    BY <1>4 DEF IndexBatch
  <2>2. stored' = SubSeq(chain, 1, Len(stored) + 1)
    BY <1>1, <2>1, CommitExtends
  <2>3. Len(stored) \in Nat /\ chain \in Seq(Batch)
    BY <1>1 DEF History
  <2>4. Cut(stored', chain)
    BY <1>1, <2>1, <2>2, <2>3 DEF Cut
  <2> QED BY <1>4, <2>4 DEF IndexBatch
<1>5. CASE RevertBatch
  <2>1. /\ stored' = SubSeq(stored, 1, Len(stored) - 1)
        /\ Len(stored) - 1 \in 1..Len(stored) /\ stored \in Seq(Batch)
    BY <1>1, <1>5, RevertShortens DEF RevertBatch, History
  <2>2. Cut(stored', stored)
    BY <2>1 DEF Cut
  <2> QED BY <1>5, <2>2 DEF RevertBatch
<1> QED BY <1>2, <1>3, <1>4, <1>5 DEF Next

TreeInv == IndexInv /\ Branches(chain, stored)

(* What was a branch before a step is one after it. *)
LEMMA BranchStays ==
  ASSUME TreeInv, Next, NEW s, History(s, lastVersion), Branches(chain, s), Branches(stored, s)
  PROVE  History(s, lastVersion') /\ Branches(chain', s) /\ Branches(stored', s)
<1>1. IndexInv /\ IndexInv'
  BY IndexNext DEF TreeInv
<1>2. /\ lastVersion \in Nat /\ lastVersion' \in Nat
      /\ Len(chain) \in Nat /\ Len(stored) \in Nat /\ Len(chain') \in Nat /\ Len(stored') \in Nat
  BY <1>1, LengthOf DEF IndexInv
<1>3. CASE Grows(chain', chain, lastVersion) /\ lastVersion' = lastVersion + 1 /\ stored' = stored
  BY <1>2, <1>3, BranchGrows, HistoryGrows
<1>4. CASE Cut(chain', chain) /\ UNCHANGED <<lastVersion, stored>>
  BY <1>2, <1>4, BranchCut
<1>5. CASE (Cut(stored', chain) \/ Cut(stored', stored)) /\ UNCHANGED <<chain, lastVersion>>
  BY <1>2, <1>5, BranchCut
<1> QED BY <1>1, <1>3, <1>4, <1>5, NodeMoves

LEMMA TreeInit == Init => TreeInv
<1> SUFFICES ASSUME Init PROVE Branches(chain, stored)
  BY IndexInit DEF TreeInv
<1>1. History(chain, 0) /\ stored = chain
  BY HistoryOfGenesis DEF Init
<1> QED BY <1>1, BranchSelf

LEMMA TreeNext == TreeInv /\ [Next]_indexVars => TreeInv'
<1> SUFFICES ASSUME TreeInv, [Next]_indexVars PROVE Branches(chain', stored')
  BY IndexNext DEF TreeInv
<1>1. IndexInv /\ Branches(chain, stored) /\ Branches(stored, chain)
  BY BranchSwap DEF TreeInv
<1>2. CASE UNCHANGED indexVars
  BY <1>1, <1>2 DEF indexVars
<1>3. CASE Next
  <2>1. /\ lastVersion \in Nat /\ History(chain, lastVersion) /\ History(stored, lastVersion)
        /\ Branches(chain, chain) /\ Branches(stored, stored)
    BY <1>1, BranchSelf DEF IndexInv
  <2>2. stored' = stored \/ chain' = chain
    BY <1>1, <1>3, NodeMoves
  <2>3. Branches(chain', stored) /\ Branches(stored', chain)
    BY <1>1, <1>3, <2>1, BranchStays
  <2> QED BY <2>2, <2>3, BranchSwap
<1> QED BY <1>2, <1>3

---------------------------------------------------------------------------
(* A snapshot *)

(* s was the chain at some moment: what the chain has got since is newer    *)
(* than all of it.                                                          *)
Held(s) ==
  /\ History(s, lastVersion) /\ Branches(chain, s) /\ Branches(stored, s)
  /\ \A i \in 1..Len(chain) :
       chain[i].version \in Versions(s) \/ \A j \in 1..Len(s) : s[j].version < chain[i].version

LEMMA HeldFromNow ==
  ASSUME TreeInv
  PROVE  Held(chain)
<1>1. lastVersion \in Nat /\ History(chain, lastVersion) /\ Branches(stored, chain)
  BY BranchSwap DEF TreeInv, IndexInv
<1> QED BY <1>1, BranchSelf DEF Held, Versions

LEMMA HeldStays ==
  ASSUME TreeInv, [Next]_indexVars, NEW s, Held(s)
  PROVE  Held(s)'
<1>1. CASE UNCHANGED indexVars
  BY <1>1 DEF indexVars, Held, Versions
<1>2. CASE Next
  <2>1. History(s, lastVersion)' /\ Branches(chain, s)' /\ Branches(stored, s)'
    BY <1>2, BranchStays DEF Held
  <2>2. /\ lastVersion \in Nat /\ History(s, lastVersion) /\ History(chain, lastVersion)
        /\ Len(chain) \in Nat /\ IndexInv
    BY LengthOf DEF TreeInv, IndexInv, Held
  <2> SUFFICES ASSUME NEW i \in 1..Len(chain')
               PROVE  \/ chain'[i].version \in Versions(s)
                      \/ \A j \in 1..Len(s) : s[j].version < chain'[i].version
    BY <2>1 DEF Held, Versions
  <2>3. CASE Grows(chain', chain, lastVersion) /\ i = Len(chain')
    <3>1. chain'[i].version > lastVersion /\ lastVersion' \in Nat /\ History(chain', lastVersion')
      BY <1>2, <2>3, IndexNext DEF Grows, TreeInv, IndexInv
    <3>2. chain'[i].version \in Nat
      BY <3>1, VersionOf
    <3>3. ASSUME NEW j \in 1..Len(s) PROVE s[j].version < chain'[i].version
      <4>1. s[j].version \in Nat /\ s[j].version <= lastVersion
        BY <2>2, VersionOf
      <4> QED BY <2>2, <3>1, <3>2, <4>1
    <3> QED BY <3>3
  <2>4. CASE Grows(chain', chain, lastVersion) /\ i # Len(chain')
    <3>1. i \in 1..Len(chain) /\ chain'[i] = chain[i]
      BY <2>2, <2>4 DEF Grows
    <3> QED BY <3>1 DEF Held
  <2>5. CASE Cut(chain', chain) \/ chain' = chain
    <3>1. Len(chain') \in Nat
      BY <1>2, IndexNext, LengthOf DEF TreeInv, IndexInv
    <3>2. i \in 1..Len(chain) /\ chain'[i] = chain[i]
      BY <2>2, <2>5, <3>1 DEF Cut
    <3> QED BY <3>2 DEF Held
  <2> QED BY <1>2, <2>2, <2>3, <2>4, <2>5, NodeMoves
<1> QED BY <1>1, <1>2

---------------------------------------------------------------------------
(* The follower of an event stream *)

LEMMA StreamOfNode ==
  /\ E!Init <=> Init
  /\ E!Next <=> Next
  /\ \A s : E!Versions(s) = Versions(s)
  /\ \A player, event : E!Fact(player, event) = Fact(player, event)
<1>1. E!Init <=> Init
  BY DEF E!Init, Init, E!Genesis, Genesis, E!None, None, E!Statuses, Statuses, E!NoEntry, NoEntry
<1>2. E!Execute <=> Execute
  BY DEF E!Execute, Execute, E!Newest, Newest, E!Becomes, Becomes, E!Body, Body,
         E!Bodies, Bodies, E!None, None
<1>3. E!Reorg <=> Reorg
  BY DEF E!Reorg, Reorg
<1>4. E!IndexBatch <=> IndexBatch
  BY DEF E!IndexBatch, IndexBatch, E!IsCanonicalStore, IsCanonicalStore, E!Newest, Newest,
         E!Statuses, Statuses, E!Written, Written, E!IndexedEntry, IndexedEntry, E!Body, Body,
         E!EventKeys, EventKeys, E!StatusOf, StatusOf, E!IsFinished, IsFinished,
         E!NoEntry, NoEntry, E!ForwardEvents, ForwardEvents, E!None, None, E!Fact, Fact,
         E!CreatorEvent, CreatorEvent, E!JoinerEvent, JoinerEvent
<1>5. E!RevertBatch <=> RevertBatch
  BY DEF E!RevertBatch, RevertBatch, E!IsCanonicalStore, IsCanonicalStore, E!Newest, Newest,
         E!Statuses, Statuses, E!Written, Written, E!RevertedEntry, RevertedEntry, E!Body, Body,
         E!RevertedKeys, RevertedKeys, E!EventKeys, EventKeys, E!StatusOf, StatusOf,
         E!IsFinished, IsFinished, E!NoEntry, NoEntry, E!ForwardEvents, ForwardEvents,
         E!None, None, E!Fact, Fact, E!CreatorEvent, CreatorEvent, E!JoinerEvent, JoinerEvent
<1> QED BY <1>1, <1>2, <1>3, <1>4, <1>5 DEF E!Next, Next, E!Versions, Versions, E!Fact, Fact

Places == [version : Nat, game : Games]

(* The entries of the stream that history s tells. *)
Heard(s) ==
  { [version |-> k.version, game |-> k.game] :
      k \in { k \in Told(s) : Fact(k.player, k.event) = stream } }

LEMMA EntriesAreHeard ==
  ASSUME IndexInv
  PROVE  E!Entries = Heard(stored)
<1>1. events = Told(stored)
  BY DEF IndexInv, EventsAreHistory, Told
<1> QED BY <1>1, StreamOfNode DEF E!Entries, Heard

(* An entry is of one batch, and every branch with that batch tells it.     *)
LEMMA HeardFrom ==
  ASSUME NEW top \in Nat, NEW s, History(s, top), NEW e \in Heard(s)
  PROVE  /\ e \in Places
         /\ \E i \in 1..Len(s) :
              /\ e.version = s[i].version
              /\ \A t : (i \in 1..Len(t) /\ \A k \in 1..i : s[k] = t[k]) => e \in Heard(t)
<1>1. PICK k \in Told(s) : /\ Fact(k.player, k.event) = stream
                           /\ e = [version |-> k.version, game |-> k.game]
  BY DEF Heard
<1>2. PICK i \in 2..Len(s), g \in Games :
        k \in EventKeys(g, Body(s[i - 1], g), Body(s[i], g), s[i].version)
  BY ToldBy
<1>3. k.version = s[i].version /\ k.game = g
  BY <1>2 DEF EventKeys
<1>4. i \in 1..Len(s) /\ i - 1 \in 1..i /\ i \in 1..i /\ Len(s) \in Nat
  BY LengthOf
<1>5. s[i].version \in Nat
  BY <1>4, VersionOf
<1>6. ASSUME NEW t, i \in 1..Len(t), \A j \in 1..i : s[j] = t[j]
      PROVE  e \in Heard(t)
  <2>1. i \in 2..Len(t) /\ s[i] = t[i] /\ s[i - 1] = t[i - 1]
    BY <1>4, <1>6
  <2>2. k \in Told(t)
    BY <1>2, <2>1, ToldBy
  <2> QED BY <1>1, <2>2 DEF Heard
<1> QED BY <1>1, <1>3, <1>4, <1>5, <1>6 DEF Places

(* Entries are ordered by the batches that told them, then by their games.  *)
Earlier == { p \in Places \X Places : E!Before(p[1], p[2]) }

LEMMA EarlierOrders ==
  ASSUME NEW S, S \subseteq Places
  PROVE  Orders(Earlier, S)
<1>1. \A e \in S : /\ e = [version |-> e.version, game |-> e.game] /\ e \in Places
                   /\ e.version \in Int /\ e.game \in Int
  <2> TAKE e \in S
  <2>1. e \in Places /\ e = [version |-> e.version, game |-> e.game]
    BY DEF Places
  <2>2. e.version \in Nat /\ e.game \in Games
    BY DEF Places
  <2> QED BY <2>1, <2>2, IndexerAssumption
<1>2. \A e, f \in S : <<e, f>> \in Earlier <=>
        (e.version < f.version \/ (e.version = f.version /\ e.game < f.game))
  BY <1>1 DEF Earlier, E!Before
<1>3. \A e, f \in S : e # f => <<e, f>> \in Earlier \/ <<f, e>> \in Earlier
  <2> SUFFICES ASSUME NEW e \in S, NEW f \in S, e # f
               PROVE  <<e, f>> \in Earlier \/ <<f, e>> \in Earlier
    OBVIOUS
  <2>1. e.version # f.version \/ e.game # f.game
    BY <1>1
  <2> QED BY <1>1, <1>2, <2>1
<1>4. \A e, f, g \in S : <<e, f>> \in Earlier /\ <<f, g>> \in Earlier => <<e, g>> \in Earlier
  BY <1>1, <1>2
<1> QED BY <1>1, <1>2, <1>3, <1>4 DEF Orders

Hits == { e \in E!Entries : E!AfterCursor(e) /\ e.version \in cursorSnapshot }

LEMMA HitsAreFinite ==
  ASSUME IndexInv
  PROVE  Hits \subseteq Places /\ IsFiniteSet(Hits)
<1> DEFINE Pairs == (1..Len(stored)) \X Games
           place == [p \in Pairs |-> [version |-> stored[p[1]].version, game |-> p[2]]]
           All == { place[p] : p \in Pairs }
<1>1. lastVersion \in Nat /\ History(stored, lastVersion) /\ Len(stored) \in Nat
  BY LengthOf DEF IndexInv
<1>2. IsFiniteSet(Pairs)
  <2>1. IsFiniteSet(1..Len(stored))
    BY <1>1, FS_Interval
  <2> QED BY <2>1, ReadersAssumption, FS_Product
<1>3. place \in Surjection(Pairs, All)
  BY DEF Surjection
<1>4. ASSUME NEW e \in Hits PROVE e \in Places /\ e \in All
  <2>1. e \in Heard(stored)
    BY EntriesAreHeard DEF Hits
  <2>2. e \in Places /\ \E i \in 1..Len(stored) : e.version = stored[i].version
    BY <1>1, <2>1, HeardFrom
  <2>3. PICK i \in 1..Len(stored) : e.version = stored[i].version
    BY <2>2
  <2>4. e = place[<<i, e.game>>] /\ <<i, e.game>> \in Pairs
    BY <2>2, <2>3 DEF Places
  <2> QED BY <2>2, <2>4
<1> HIDE DEF All, Pairs, place
<1>5. IsFiniteSet(All)
  BY <1>2, <1>3, FS_Surjection
<1> QED BY <1>4, <1>5, FS_Subset

LEMMA StreamCounts == \A S : E!Cardinality(S) = Cardinality(S)
BY DEF E!Cardinality, Cardinality

(* A page names hits, and a hit it leaves out comes after all it names.     *)
LEMMA StreamPage ==
  ASSUME IndexInv
  PROVE  /\ E!Page \in Seq(Hits) /\ Len(E!Page) \in Nat
         /\ \A e \in Hits : \/ \E i \in 1..Len(E!Page) : E!Page[i] = e
                            \/ \A i \in 1..Len(E!Page) : E!Before(E!Page[i], e)
<1> DEFINE n == Cardinality(Hits)
           Good(s) == s \in [1..n -> Hits]
                      /\ \A i, j \in 1..n : i < j => E!Before(s[i], s[j])
<1>1. Hits \subseteq Places /\ IsFiniteSet(Hits) /\ Orders(Earlier, Hits)
  BY HitsAreFinite, EarlierOrders
<1>2. \A s : Lists(s, Hits, Earlier) <=> Good(s)
  BY <1>1 DEF Lists, Earlier
<1>3. \E s : Good(s)
  BY <1>1, <1>2, OrderedListing
<1>4. E!InOrder(Hits) = CHOOSE s \in [1..n -> Hits] :
                          \A i, j \in 1..n : i < j => E!Before(s[i], s[j])
  BY StreamCounts DEF E!InOrder
<1>5. Good(E!InOrder(Hits))
  BY <1>3, <1>4
<1>6. Lists(E!InOrder(Hits), Hits, Earlier)
  BY <1>2, <1>5
<1>7. StartsWith(E!Page, E!InOrder(Hits), Limit)
  BY DEF E!Page, Hits, StartsWith
<1>8. Limit \in Nat
  BY ReadersAssumption
<1> HIDE DEF Good, n, Hits
<1>9. IsPage(E!Page, Hits, Earlier, Limit)
  BY ONLY <1>1, <1>6, <1>7, <1>8, FirstOfListing
<1> QED BY <1>9 DEF Earlier, IsPage

(* What the follower has is executed, and has no gap even if the store is   *)
(* behind the chain; a request it waits for looks at a snapshot.            *)
FollowInv ==
  /\ seen \in Seq(Places)
  /\ \A i \in 1..Len(seen) : seen[i].version <= lastVersion
  /\ \A e \in Heard(chain) : E!AfterCursor(e) \/ \E i \in 1..Len(seen) : seen[i] = e
  /\ asking => \E s : cursorSnapshot = Versions(s) /\ Held(s)

LEMMA CursorIsLast ==
  ASSUME NEW e
  PROVE  E!AfterCursor(e) <=> seen = <<>> \/ E!Before(seen[Len(seen)], e)
BY DEF E!AfterCursor, E!Last

LEMMA FollowNode ==
  ASSUME TreeInv, FollowInv, [Next]_indexVars, UNCHANGED <<stream, asking, cursorSnapshot, seen>>
  PROVE  FollowInv'
<1>1. IndexInv /\ IndexInv'
  BY IndexNext DEF TreeInv
<1>2. /\ lastVersion \in Nat /\ History(chain, lastVersion) /\ Len(chain) \in Nat
      /\ lastVersion' \in Nat /\ History(chain', lastVersion') /\ Len(chain') \in Nat
  BY <1>1, LengthOf DEF IndexInv
<1>3. \/ Grows(chain', chain, lastVersion) /\ lastVersion' = lastVersion + 1
      \/ (Cut(chain', chain) \/ chain' = chain) /\ lastVersion' = lastVersion
  BY <1>1, NodeMoves DEF indexVars
<1>4. \A i \in 1..Len(seen) : seen[i].version \in Nat /\ seen[i].version <= lastVersion
  <2>1. \A i \in 1..Len(seen) : seen[i] \in Places
    BY DEF FollowInv
  <2> QED BY <2>1 DEF FollowInv, Places
<1>5. \A i \in 1..Len(seen) : seen[i].version <= lastVersion'
  BY <1>2, <1>3, <1>4
<1>6. ASSUME NEW e \in Heard(chain')
      PROVE  E!AfterCursor(e) \/ \E i \in 1..Len(seen) : seen[i] = e
  <2>1. e \in Places
    BY <1>2, HeardFrom
  <2>2. PICK i \in 1..Len(chain') :
          /\ e.version = chain'[i].version
          /\ \A t : (i \in 1..Len(t) /\ \A k \in 1..i : chain'[k] = t[k]) => e \in Heard(t)
    BY <1>2, HeardFrom
  <2>3. CASE i \in 1..Len(chain)
    <3>1. \A k \in 1..i : chain'[k] = chain[k]
      BY <1>2, <1>3, <2>3 DEF Grows, Cut
    <3>2. e \in Heard(chain)
      BY <2>2, <2>3, <3>1
    <3> QED BY <3>2 DEF FollowInv
  <2>4. CASE i \notin 1..Len(chain)
    <3>1. Grows(chain', chain, lastVersion) /\ i = Len(chain')
      BY <1>2, <1>3, <2>2, <2>4 DEF Grows, Cut
    <3>2. e.version > lastVersion /\ e.version \in Nat
      BY <2>1, <2>2, <3>1 DEF Grows, Places
    <3>3. ASSUME seen # <<>> PROVE E!Before(seen[Len(seen)], e)
      <4>1. Len(seen) \in 1..Len(seen)
        BY <3>3 DEF FollowInv
      <4> DEFINE v == seen[Len(seen)].version
      <4>2. v \in Nat /\ v <= lastVersion
        BY <1>4, <4>1
      <4> HIDE DEF v
      <4>3. v < e.version
        BY <1>2, <3>2, <4>2
      <4> QED BY <4>3 DEF E!Before, v
    <3> QED BY <3>3, CursorIsLast
  <2> QED BY <2>3, <2>4
<1>7. \A e : e \in Heard(chain)' <=> e \in Heard(chain')
  BY DEF Heard
<1>8. \A e : E!AfterCursor(e)' <=> E!AfterCursor(e)
  BY DEF E!AfterCursor
<1>9. asking' => \E s : cursorSnapshot' = Versions(s) /\ Held(s)'
  BY HeldStays DEF FollowInv
<1> QED BY <1>5, <1>6, <1>7, <1>8, <1>9 DEF FollowInv, Versions

LEMMA FollowAsk ==
  ASSUME TreeInv, FollowInv, E!Ask
  PROVE  FollowInv'
<1>1. UNCHANGED <<indexVars, stream, seen>> /\ cursorSnapshot' = Versions(chain)
  BY StreamOfNode DEF E!Ask, E!indexVars, indexVars
<1>3. \A e : e \in Heard(chain)' <=> e \in Heard(chain)
  BY <1>1 DEF Heard, indexVars
<1>4. \A e : E!AfterCursor(e)' <=> E!AfterCursor(e)
  BY <1>1 DEF E!AfterCursor
<1>5. Held(chain) /\ cursorSnapshot' = Versions(chain)
  BY <1>1, HeldFromNow
<1>6. \E s : cursorSnapshot' = Versions(s) /\ Held(s)'
  BY <1>1, <1>5 DEF Held, indexVars, Versions
<1> QED BY <1>1, <1>3, <1>4, <1>6 DEF FollowInv, indexVars

(* After a page the follower still has all that is canonical up to its      *)
(* cursor: a batch as old as one the page names, and on the chain now, is   *)
(* in the snapshot, and hence in the store that was scanned.                *)
LEMMA FollowAnswer ==
  ASSUME TreeInv, FollowInv, E!Answer
  PROVE  FollowInv'
<1> DEFINE page == E!Page
           m == Len(page)
           n == Len(seen)
<1>1. UNCHANGED <<indexVars, stream>> /\ seen' = seen \o page /\ asking /\ ~asking'
  BY DEF E!Answer, E!indexVars, indexVars
<1>2. /\ page \in Seq(Hits) /\ m \in Nat
      /\ \A e \in Hits : \/ \E i \in 1..m : page[i] = e
                         \/ \A i \in 1..m : E!Before(page[i], e)
  BY StreamPage DEF TreeInv
<1>3. /\ lastVersion \in Nat /\ History(chain, lastVersion) /\ History(stored, lastVersion)
      /\ Hits \subseteq Places /\ E!Entries = Heard(stored)
  BY HitsAreFinite, EntriesAreHeard DEF TreeInv, IndexInv
<1> HIDE DEF page
<1>4. page \in Seq(Places) /\ seen \in Seq(Places) /\ n \in Nat
  BY <1>2, <1>3 DEF FollowInv
<1>5. /\ seen' \in Seq(Places) /\ Len(seen') = n + m
      /\ \A i \in 1..n : seen'[i] = seen[i]
      /\ \A i \in 1..m : n + i \in 1..(n + m) /\ seen'[n + i] = page[i]
  BY <1>1, <1>2, <1>4
<1>6. \A i \in 1..m : page[i] \in Hits /\ page[i] \in Heard(stored)
  BY <1>2, <1>3 DEF Hits
<1>7. \A i \in 1..m : page[i].version \in Nat /\ page[i].version <= lastVersion
  <2> TAKE i \in 1..m
  <2>1. PICK k \in 1..Len(stored) : page[i].version = stored[k].version
    BY <1>3, <1>6, HeardFrom
  <2> QED BY <1>3, <2>1, VersionOf
<1>8. \A i \in 1..(n + m) : seen'[i].version <= lastVersion
  <2> TAKE i \in 1..(n + m)
  <2>1. CASE i \in 1..n
    BY <1>5, <2>1 DEF FollowInv
  <2>2. CASE i \notin 1..n
    <3>1. i - n \in 1..m /\ i = n + (i - n)
      BY <1>2, <1>4, <2>2
    <3> QED BY <1>5, <1>7, <3>1
  <2> QED BY <2>1, <2>2
<1>9. ASSUME NEW e \in Heard(chain), m > 0, ~E!Before(page[m], e)
      PROVE  \E i \in 1..(n + m) : seen'[i] = e
  <2>1. e \in Places /\ m \in 1..m
    BY <1>2, <1>3, <1>9, HeardFrom
  <2>2. CASE ~E!AfterCursor(e)
    <3>1. PICK i \in 1..n : seen[i] = e
      BY <2>2 DEF FollowInv
    <3> QED BY <1>2, <1>4, <1>5, <3>1
  <2>3. CASE E!AfterCursor(e)
    <3> DEFINE c == page[m]
    <3>1. c \in Hits /\ c \in Heard(stored) /\ c.version \in Nat /\ e.version \in Nat
      BY <1>6, <1>7, <2>1 DEF Places
    <3>2. c.version \in cursorSnapshot
      BY <3>1 DEF Hits
    <3>3. e.version <= c.version
      BY <1>9, <3>1 DEF E!Before
    <3> HIDE DEF c
    <3>4. PICK s : cursorSnapshot = Versions(s) /\ Held(s)
      BY <1>1 DEF FollowInv
    <3>5. History(s, lastVersion) /\ Branches(chain, s) /\ Branches(stored, s)
      BY <3>4 DEF Held
    <3>6. PICK k \in 1..Len(stored) : c.version = stored[k].version
      BY <1>3, <3>1, HeardFrom
    <3>7. k \in 1..Len(s) /\ \A j \in 1..k : stored[j] = s[j]
      BY <1>3, <3>2, <3>4, <3>5, <3>6, BranchKnows
    <3>8. s[k].version = c.version
      BY <3>6, <3>7
    <3>9. PICK i \in 1..Len(chain) :
            /\ e.version = chain[i].version
            /\ \A t : (i \in 1..Len(t) /\ \A j \in 1..i : chain[j] = t[j]) => e \in Heard(t)
      BY <1>3, HeardFrom
    <3>10. e.version \in Versions(s)
      <4>1. ~(s[k].version < chain[i].version)
        BY <3>1, <3>3, <3>8, <3>9
      <4> QED BY <3>4, <3>7, <3>9, <4>1 DEF Held
    <3>11. i \in 1..Len(s) /\ \A j \in 1..i : chain[j] = s[j]
      BY <1>3, <3>5, <3>9, <3>10, BranchKnows
    <3>12. i <= k
      <4>1. s[i].version = e.version /\ i \in Int /\ k \in Int
        BY <3>9, <3>11
      <4>2. k < i => s[k].version < s[i].version
        BY <3>5, <3>7, <3>11 DEF History
      <4> QED BY <3>1, <3>3, <3>8, <4>1, <4>2
    <3>13. i \in 1..Len(stored) /\ \A j \in 1..i : chain[j] = stored[j]
      BY <3>6, <3>7, <3>9, <3>11, <3>12
    <3>14. e \in E!Entries
      BY <1>3, <3>9, <3>13
    <3>15. e \in Hits
      BY <2>3, <3>4, <3>10, <3>14 DEF Hits
    <3>16. PICK j \in 1..m : page[j] = e
      BY <1>2, <1>9, <2>1, <3>15
    <3> QED BY <1>5, <3>16
  <2> QED BY <2>2, <2>3
<1>10. ASSUME NEW e \in Heard(chain)
       PROVE  \/ seen' = <<>> \/ E!Before(seen'[Len(seen')], e)
              \/ \E i \in 1..Len(seen') : seen'[i] = e
  <2>1. CASE m = 0
    <3>1. seen' = seen
      <4>1. page = <<>>
        BY <1>4, <2>1
      <4> QED BY <1>1, <1>4, <4>1
    <3> QED BY <3>1, CursorIsLast DEF FollowInv
  <2>2. CASE m > 0
    <3>1. seen'[Len(seen')] = page[m]
      BY <1>2, <1>5, <2>2
    <3> QED BY <1>5, <1>9, <2>2, <3>1
  <2> QED BY <1>2, <2>1, <2>2
<1>11. \A e : E!AfterCursor(e)' <=> (seen' = <<>> \/ E!Before(seen'[Len(seen')], e))
  BY DEF E!AfterCursor, E!Last, E!Before
<1>12. \A e : e \in Heard(chain)' <=> e \in Heard(chain)
  BY <1>1 DEF Heard, indexVars
<1>13. lastVersion' = lastVersion /\ Len(seen') = n + m
  BY <1>1, <1>5 DEF indexVars
<1> QED BY <1>1, <1>5, <1>8, <1>10, <1>11, <1>12, <1>13 DEF FollowInv

(* What is in the log and canonical is told by the chain. *)
LEMMA FollowHasNoGap ==
  ASSUME TreeInv, FollowInv
  PROVE  StreamHasNoGap
<1>1. /\ lastVersion \in Nat /\ History(stored, lastVersion) /\ History(chain, lastVersion)
      /\ Branches(stored, chain) /\ E!Entries = Heard(stored)
  BY EntriesAreHeard, BranchSwap DEF TreeInv, IndexInv
<1>2. ASSUME NEW e \in E!Entries, e.version \in Versions(chain), ~E!AfterCursor(e)
      PROVE  \E i \in 1..Len(seen) : seen[i] = e
  <2>1. PICK i \in 1..Len(stored) :
          /\ e.version = stored[i].version
          /\ \A t : (i \in 1..Len(t) /\ \A k \in 1..i : stored[k] = t[k]) => e \in Heard(t)
    BY <1>1, HeardFrom
  <2>2. i \in 1..Len(chain) /\ \A k \in 1..i : stored[k] = chain[k]
    BY <1>1, <1>2, <2>1, BranchKnows
  <2>3. e \in Heard(chain)
    BY <2>1, <2>2
  <2> QED BY <1>2, <2>3 DEF FollowInv
<1> QED BY <1>2, StreamOfNode DEF StreamHasNoGap, E!StreamHasNoGap, E!Contains

---------------------------------------------------------------------------
(* The reader of a status bucket *)

LEMMA ListOfNode ==
  /\ G!Init <=> Init
  /\ G!Execute <=> Execute
  /\ G!Reorg <=> Reorg
  /\ G!IndexBatch <=> IndexBatch
  /\ G!RevertBatch <=> RevertBatch
  /\ \A s : G!Versions(s) = Versions(s)
  /\ \A s : G!Newest(s) = Newest(s)
  /\ \A b : G!Written(b) = Written(b)
  /\ \A b, g : G!Body(b, g) = Body(b, g)
  /\ \A b : G!StatusOf(b) = StatusOf(b)
  /\ G!NoEntry = NoEntry
  /\ G!Statuses = Statuses
<1>1. G!Init <=> Init
  BY DEF G!Init, Init, G!Genesis, Genesis, G!None, None, G!Statuses, Statuses, G!NoEntry, NoEntry
<1>2. G!Execute <=> Execute
  BY DEF G!Execute, Execute, G!Newest, Newest, G!Becomes, Becomes, G!Body, Body,
         G!Bodies, Bodies, G!None, None
<1>3. G!Reorg <=> Reorg
  BY DEF G!Reorg, Reorg
<1>4. G!IndexBatch <=> IndexBatch
  BY DEF G!IndexBatch, IndexBatch, G!IsCanonicalStore, IsCanonicalStore, G!Newest, Newest,
         G!Statuses, Statuses, G!Written, Written, G!IndexedEntry, IndexedEntry, G!Body, Body,
         G!EventKeys, EventKeys, G!StatusOf, StatusOf, G!IsFinished, IsFinished,
         G!NoEntry, NoEntry, G!ForwardEvents, ForwardEvents, G!None, None, G!Fact, Fact,
         G!CreatorEvent, CreatorEvent, G!JoinerEvent, JoinerEvent
<1>5. G!RevertBatch <=> RevertBatch
  BY DEF G!RevertBatch, RevertBatch, G!IsCanonicalStore, IsCanonicalStore, G!Newest, Newest,
         G!Statuses, Statuses, G!Written, Written, G!RevertedEntry, RevertedEntry, G!Body, Body,
         G!RevertedKeys, RevertedKeys, G!EventKeys, EventKeys, G!StatusOf, StatusOf,
         G!IsFinished, IsFinished, G!NoEntry, NoEntry, G!ForwardEvents, ForwardEvents,
         G!None, None, G!Fact, Fact, G!CreatorEvent, CreatorEvent, G!JoinerEvent, JoinerEvent
<1> QED
  BY <1>1, <1>2, <1>3, <1>4, <1>5
  DEF G!Versions, Versions, G!Newest, Newest, G!Written, Written, G!Body, Body,
      G!StatusOf, StatusOf, G!IsFinished, IsFinished, G!NoEntry, NoEntry, G!Statuses, Statuses

(* A bucket's game ids, in the order of their keys. *)
Ascending == { p \in Games \X Games : p[1] < p[2] }

Found == { g \in Games : /\ G!After(g)
                         /\ status[bucket][g] # NoEntry
                         /\ status[bucket][g] \in Versions(snapshot) }

LEMMA AscendingOrders ==
  ASSUME NEW S, S \subseteq Games
  PROVE  Orders(Ascending, S)
<1>1. \A g \in S : g \in Int
  BY IndexerAssumption
<1>2. \A g, h \in S : <<g, h>> \in Ascending <=> g < h
  BY DEF Ascending
<1> QED BY <1>1, <1>2 DEF Orders

LEMMA ListCounts == \A S : G!Cardinality(S) = Cardinality(S)
BY DEF G!Cardinality, Cardinality

(* A page names games of the bucket; one it leaves out comes after all it   *)
(* names, and then the page is full.                                        *)
LEMMA GamesPage == IsPage(G!Page, Found, Ascending, Limit)
<1> DEFINE n == Cardinality(Found)
           Good(s) == s \in [1..n -> Found] /\ \A i, j \in 1..n : i < j => s[i] < s[j]
<1>1. Found \subseteq Games /\ IsFiniteSet(Found) /\ Orders(Ascending, Found)
  <2>1. Found \in SUBSET Games
    BY DEF Found
  <2> QED BY <2>1, ReadersAssumption, FS_Subset, AscendingOrders
<1>2. \A s : Lists(s, Found, Ascending) <=> Good(s)
  BY <1>1 DEF Lists, Ascending
<1>3. \E s : Good(s)
  BY <1>1, <1>2, OrderedListing
<1>4. G!InOrder(Found) = CHOOSE s \in [1..n -> Found] :
                           \A i, j \in 1..n : i < j => s[i] < s[j]
  BY ListCounts DEF G!InOrder
<1>5. Good(G!InOrder(Found))
  BY <1>3, <1>4
<1>6. Lists(G!InOrder(Found), Found, Ascending)
  BY <1>2, <1>5
<1>7. StartsWith(G!Page, G!InOrder(Found), Limit)
  BY ListOfNode DEF G!Page, G!IsCanonical, Found, StartsWith
<1>8. Limit \in Nat
  BY ReadersAssumption
<1> HIDE DEF Good, n, Found
<1> QED BY ONLY <1>1, <1>6, <1>7, <1>8, FirstOfListing

(* The status index entry of a game in the bucket it is listed under.       *)
LEMMA EntryTells ==
  ASSUME IndexInv, NEW s \in Statuses, NEW g \in Games, status[s][g] # NoEntry
  PROVE  /\ StatusOf(Body(Newest(stored), g)) = s
         /\ \E i \in 1..Len(stored) : /\ status[s][g] = stored[i].version
                                      /\ g \in Written(stored[i])
                                      /\ StatusOf(Body(stored[i], g)) = s
<1>1. StatusIsCurrent
  BY DEF IndexInv
<1>2. StatusOf(Body(Newest(stored), g)) = s
  BY <1>1 DEF StatusIsCurrent
<1>3. PICK i \in 1..Len(stored) :
        /\ status[s][g] = stored[i].version
        /\ g \in Written(stored[i])
        /\ \A j \in i..Len(stored) : StatusOf(Body(stored[j], g)) = s
  BY <1>1, <1>2 DEF StatusIsCurrent
<1>4. i \in i..Len(stored)
  BY LengthOf DEF IndexInv
<1> QED BY <1>2, <1>3, <1>4

(* A game goes through the buckets in one direction. *)
NotBehind(x, y) == y \in Statuses => x \in Statuses /\ G!Stage[x] >= G!Stage[y]

Progress(s) ==
  \A i \in 2..Len(s), g \in Games :
    NotBehind(StatusOf(Body(s[i], g)), StatusOf(Body(s[i - 1], g)))

LEMMA StatusOfBody ==
  ASSUME NEW b \in Bodies
  PROVE  /\ b.state \in {"None", "Open", "Playing"} \cup Results
         /\ StatusOf(b) \in Statuses \cup {"None"}
         /\ b.state = "None" => b = None
<1>1. b.state \in {"None", "Open", "Playing"} \cup Results
  BY DEF Bodies, None
<1>2. b.state = "None" => b = None
  BY IndexerAssumption DEF Bodies, None
<1> QED BY <1>1, <1>2 DEF StatusOf, IsFinished, Statuses

LEMMA BecomesForward ==
  ASSUME NEW g \in Games, NEW old \in Bodies, NEW new \in Bodies, Becomes(g, old, new)
  PROVE  NotBehind(StatusOf(new), StatusOf(old))
<1>1. /\ old.state \in {"None", "Open", "Playing"} \cup Results
      /\ new.state \in {"Open", "Playing"} \cup Results
      /\ Results \subseteq {"First", "Second", "Draw"}
  BY StatusOfBody, IndexerAssumption DEF Becomes
<1>2. CASE old.state = "None"
  BY <1>1, <1>2 DEF StatusOf, IsFinished, Statuses, NotBehind
<1>3. CASE old.state = "Open"
  <2>1. new.state # "Open"
    BY <1>3 DEF Becomes
  <2> QED BY <1>1, <1>3, <2>1 DEF StatusOf, IsFinished, Statuses, NotBehind, G!Stage
<1>4. CASE old.state = "Playing"
  <2>1. new.joiner = old.joiner
    BY <1>4 DEF Becomes
  <2>2. old.joiner \in Players
    BY <1>4, IndexerAssumption DEF Bodies, None
  <2>3. new.state # "Open"
    BY <2>1, <2>2, IndexerAssumption DEF Bodies, None
  <2> QED BY <1>1, <1>4, <2>3 DEF StatusOf, IsFinished, Statuses, NotBehind, G!Stage
<1>5. CASE old.state \in Results
  <2>1. old.state # "None" /\ old.state # "Open" /\ old.state # "Playing"
    BY <1>1, <1>5
  <2> QED BY <2>1 DEF Becomes
<1> QED BY <1>1, <1>2, <1>3, <1>4, <1>5

(* Bodies of a branch. *)
LEMMA BodyOf ==
  ASSUME NEW s, NEW top \in Nat, History(s, top), NEW i \in 1..Len(s), NEW g \in Games
  PROVE  Body(s[i], g) \in Bodies
BY BatchesOf DEF History, Body

LEMMA ExecuteForward ==
  ASSUME IndexInv, Execute, Progress(chain)
  PROVE  Progress(chain')
<1> DEFINE version == lastVersion + 1
           before == Newest(chain)
           n == Len(chain)
<1>1. lastVersion \in Nat /\ History(chain, lastVersion) /\ n \in Nat /\ n > 0
  BY LengthOf DEF IndexInv
<1>2. PICK writes \in SUBSET Games \ {{}} :
        \E new \in [writes -> Bodies] :
          /\ \A g \in writes : Becomes(g, Body(before, g), new[g])
          /\ chain' = Append(chain,
               [version |-> version,
                state   |-> [g \in Games |->
                               IF g \in writes THEN [body |-> new[g], version |-> version]
                               ELSE before.state[g]]])
  BY DEF Execute
<1>3. PICK new \in [writes -> Bodies] :
          /\ \A g \in writes : Becomes(g, Body(before, g), new[g])
          /\ chain' = Append(chain,
               [version |-> version,
                state   |-> [g \in Games |->
                               IF g \in writes THEN [body |-> new[g], version |-> version]
                               ELSE before.state[g]]])
  BY <1>2
<1> DEFINE b == [version |-> version,
                 state   |-> [g \in Games |->
                                IF g \in writes THEN [body |-> new[g], version |-> version]
                                ELSE before.state[g]]]
<1>4. ASSUME NEW g \in Games
      PROVE  NotBehind(StatusOf(Body(b, g)), StatusOf(Body(before, g)))
  <2>1. Body(before, g) \in Bodies
    BY <1>1, BodyOf DEF Newest
  <2>2. CASE g \in writes
    <3>1. Body(b, g) = new[g] /\ new[g] \in Bodies /\ Becomes(g, Body(before, g), new[g])
      BY <1>3, <2>2 DEF Body
    <3> QED BY <2>1, <3>1, BecomesForward
  <2>3. CASE g \notin writes
    <3>1. Body(b, g) = Body(before, g)
      BY <2>3 DEF Body
    <3> QED BY <3>1 DEF NotBehind, G!Stage, Statuses
  <2> QED BY <2>2, <2>3
<1>5. chain' = Append(chain, b) /\ before = chain[n]
  BY <1>3 DEF Newest
<1> HIDE DEF b, before
<1>6. /\ Len(chain') = n + 1 /\ chain'[n + 1] = b
      /\ \A i \in 1..n : chain'[i] = chain[i]
  <2>1. chain \in Seq(Batch \cup {b})
    BY <1>1 DEF History
  <2> QED BY <1>1, <1>5, <2>1
<1> SUFFICES ASSUME NEW i \in 2..Len(chain'), NEW g \in Games
             PROVE  NotBehind(StatusOf(Body(chain'[i], g)), StatusOf(Body(chain'[i - 1], g)))
  BY DEF Progress
<1>7. CASE i = n + 1
  <2>1. chain'[i] = b /\ chain'[i - 1] = before
    BY <1>1, <1>5, <1>6, <1>7
  <2> QED BY <1>4, <2>1
<1>8. CASE i # n + 1
  <2>1. i \in 2..n /\ chain'[i] = chain[i] /\ chain'[i - 1] = chain[i - 1]
    BY <1>1, <1>6, <1>8
  <2> QED BY <2>1 DEF Progress
<1> QED BY <1>7, <1>8

LEMMA ProgressStays ==
  ASSUME IndexInv, Progress(chain), [Next]_indexVars
  PROVE  Progress(chain')
<1>1. CASE Execute
  BY <1>1, ExecuteForward
<1>2. CASE chain' = chain
  BY <1>2
<1>3. CASE Cut(chain', chain)
  <2>1. Len(chain) \in Nat /\ Len(chain') \in Nat
    BY IndexNext, LengthOf DEF IndexInv
  <2> SUFFICES ASSUME NEW i \in 2..Len(chain'), NEW g \in Games
               PROVE  NotBehind(StatusOf(Body(chain'[i], g)), StatusOf(Body(chain'[i - 1], g)))
    BY DEF Progress
  <2>2. i \in 2..Len(chain) /\ chain'[i] = chain[i] /\ chain'[i - 1] = chain[i - 1]
    BY <1>3, <2>1 DEF Cut
  <2> QED BY <2>2 DEF Progress
<1> QED BY <1>1, <1>2, <1>3, NodeMoves DEF indexVars

(* The node makes a step, and not one that reverts a batch that wrote g. *)
Spares(g) == Execute \/ Reorg \/ IndexBatch \/ (RevertBatch /\ g \notin Written(Newest(stored)))

(* Such a step does not put the game back. *)
LEMMA StoreForward ==
  ASSUME IndexInv, Progress(chain), NEW g \in Games, Spares(g)
  PROVE  NotBehind(StatusOf(Body(Newest(stored'), g)), StatusOf(Body(Newest(stored), g)))
<1>0. lastVersion \in Nat /\ History(chain, lastVersion) /\ History(stored, lastVersion)
  BY DEF IndexInv
<1>1. /\ stored \in Seq(Batch) /\ chain \in Seq(Batch)
      /\ Len(stored) \in Nat /\ Len(stored) > 0
  BY <1>0, LengthOf DEF History
<1>2. CASE stored' = stored
  BY <1>2 DEF NotBehind, Statuses, G!Stage
<1>3. CASE IndexBatch
  <2> DEFINE n == Len(stored)
  <2>1. /\ IsCanonicalStore /\ n < Len(chain)
        /\ stored' = Append(stored, chain[n + 1])
    BY <1>3 DEF IndexBatch
  <2>2. stored = SubSeq(chain, 1, n)
    BY <2>1 DEF IsCanonicalStore
  <2>3. n + 1 \in 2..Len(chain) /\ stored[n] = chain[n] /\ (n + 1) - 1 = n
    <3>1. n + 1 \in 2..Len(chain) /\ (n + 1) - 1 = n
      BY <1>1, <2>1
    <3>2. \A i \in 1..n : SubSeq(chain, 1, n)[i] = chain[i]
      BY <1>1, <2>1
    <3> QED BY <1>1, <2>2, <3>1, <3>2
  <2>4. chain[n + 1] \in Batch
    BY <1>1, <2>3
  <2>5. Newest(stored') = chain[n + 1] /\ Newest(stored) = chain[n]
    <3>1. Len(stored') = n + 1 /\ stored'[n + 1] = chain[n + 1]
      BY <1>1, <2>1, <2>4
    <3> QED BY <2>3, <3>1 DEF Newest
  <2> QED BY <2>3, <2>5 DEF Progress
<1>4. CASE RevertBatch /\ g \notin Written(Newest(stored))
  <2> DEFINE n == Len(stored) - 1
  <2>1. stored' = SubSeq(stored, 1, n) /\ ~IsCanonicalStore /\ n \in 1..Len(stored)
    BY <1>0, <1>4, RevertShortens DEF RevertBatch
  <2>2. Newest(stored') = stored[n] /\ Newest(stored) = stored[n + 1] /\ n + 1 \in 2..Len(stored)
        /\ (n + 1) - 1 = n
    BY <1>1, <2>1 DEF Newest
  <2>3. Follows(stored[n + 1], stored[n])
    BY <1>0, <2>2 DEF History
  <2>4. Body(stored[n + 1], g) = Body(stored[n], g)
    BY <1>4, <2>2, <2>3 DEF Follows, Written, Body
  <2> QED BY <2>2, <2>4 DEF NotBehind, Statuses, G!Stage
<1> QED BY <1>2, <1>3, <1>4 DEF Spares, Execute, Reorg

(* Such a step leaves the game's entry its version, or takes it out.        *)
LEMMA EntryKept ==
  ASSUME IndexInv, NEW s \in Statuses, NEW g \in Games, Spares(g),
         status[s][g] # NoEntry, status'[s][g] # NoEntry
  PROVE  status'[s][g] = status[s][g]
<1>1. CASE status' = status
  BY <1>1
<1>2. CASE IndexBatch
  <2> DEFINE before == Newest(stored)
             batch == chain[Len(stored) + 1]
  <2>1. status'[s][g] = IF g \notin Written(batch) THEN status[s][g]
                        ELSE IndexedEntry(s, g, Body(before, g), Body(batch, g), batch.version)
    BY <1>2 DEF IndexBatch
  <2>2. StatusOf(Body(before, g)) = s
    BY EntryTells
  <2> QED BY <2>1, <2>2 DEF IndexedEntry
<1>3. CASE RevertBatch /\ g \notin Written(Newest(stored))
  BY <1>3 DEF RevertBatch
<1> QED BY <1>1, <1>2, <1>3 DEF Spares, Execute, Reorg

LEMMA VersionsAreNat ==
  ASSUME NEW s, NEW top \in Nat, History(s, top)
  PROVE  NoEntry \notin Versions(s)
BY VersionOf DEF Versions, NoEntry

---------------------------------------------------------------------------
(* The invariant of the walk, in four parts *)

Has(s, x) == \E i \in 1..Len(s) : s[i] = x

WalkInv ==
  /\ bucket \in Statuses
  /\ phase \in {"start", "scan", "read", "last", "done"}
  /\ listed \in Seq(Games)
  /\ toRead \in Seq(Games)
  /\ served \in Seq([game : Games, status : Statuses])
  /\ present \subseteq Games
  /\ phase \in {"start", "scan", "done"} => toRead = <<>>
  /\ phase \in {"scan", "read", "last"} => Held(snapshot)

(* Whatever has been findable since the walk began is found, or will be.    *)
WholeInv ==
  /\ phase = "read" => listed # <<>>
  /\ G!Watching => \A g \in present : status[bucket][g] \in Versions(chain)
  /\ phase = "scan" => \A g \in present \ reverted : status[bucket][g] \in Versions(snapshot)
  /\ \A g \in present \ reverted : G!After(g) \/ Has(listed, g)
  /\ phase \in {"last", "done"} => \A g \in present \ reverted : Has(listed, g)

(* A game of the page is not put back behind its bucket. *)
TimelyInv ==
  /\ Progress(chain)
  /\ \A k \in 1..Len(toRead) :
       toRead[k] \in reverted \/ NotBehind(StatusOf(Body(Newest(stored), toRead[k])), bucket)
  /\ ServedIsNotBehind

ListInv == TreeInv /\ WalkInv /\ ListedAreCanonical /\ WholeInv /\ TimelyInv

LEMMA ListNodeStep ==
  ASSUME G!NodeStep
  PROVE  /\ Next /\ phase # "done"
         /\ UNCHANGED <<bucket, phase, snapshot, listed, toRead, served>>
         /\ reverted \subseteq reverted'
         /\ G!Watching => \A g : g \in reverted' \/ Spares(g)
         /\ present' = IF G!Watching THEN { g \in present : status'[bucket'][g] \in Versions(chain') }
                       ELSE present
<1>1. /\ phase # "done"
      /\ UNCHANGED <<bucket, phase, snapshot, listed, toRead, served>>
      /\ \/ (Execute \/ Reorg \/ IndexBatch) /\ reverted' = reverted
         \/ RevertBatch /\ reverted' = IF G!Watching THEN reverted \cup Written(Newest(stored))
                                       ELSE reverted
  BY ListOfNode DEF G!NodeStep, G!readerVars
<1>2. present' = IF G!Watching THEN { g \in present : status'[bucket'][g] \in Versions(chain') }
                 ELSE present
  BY DEF G!NodeStep, G!Listable, G!Versions, Versions
<1> QED BY <1>1, <1>2 DEF Next, Spares

LEMMA ListStills ==
  ASSUME G!TakeSnapshot \/ G!Scan \/ G!ReadBody \/ G!Respond
  PROVE  UNCHANGED <<indexVars, bucket, reverted>>
BY DEF G!TakeSnapshot, G!Scan, G!ReadBody, G!Respond, G!indexVars, indexVars

LEMMA ScannedPage ==
  ASSUME WalkInv
  PROVE  /\ G!Page \in Seq(Games) /\ Len(G!Page) \in Nat
         /\ \A i \in 1..Len(G!Page) : G!Page[i] \in Found
         /\ (listed \o G!Page) \in Seq(Games)
         /\ Len(listed \o G!Page) = Len(listed) + Len(G!Page)
         /\ \A i \in 1..Len(listed) : (listed \o G!Page)[i] = listed[i]
         /\ \A i \in 1..Len(G!Page) : (listed \o G!Page)[Len(listed) + i] = G!Page[i]
<1> DEFINE page == G!Page
<1>1. page \in Seq(Found) /\ Len(page) \in Nat
  BY GamesPage DEF IsPage
<1>2. Found \subseteq Games
  BY DEF Found
<1> HIDE DEF page
<1>3. page \in Seq(Games) /\ \A i \in 1..Len(page) : page[i] \in Found
  BY <1>1, <1>2
<1>4. listed \in Seq(Games)
  BY DEF WalkInv
<1>5. /\ (listed \o page) \in Seq(Games)
      /\ Len(listed \o page) = Len(listed) + Len(page)
      /\ \A i \in 1..Len(listed) : (listed \o page)[i] = listed[i]
      /\ \A i \in 1..Len(page) : (listed \o page)[Len(listed) + i] = page[i]
  BY <1>3, <1>4
<1> QED BY <1>1, <1>3, <1>5 DEF page

LEMMA HeldKeeps ==
  ASSUME UNCHANGED indexVars, NEW s, Held(s)
  PROVE  Held(s)'
BY DEF indexVars, Held, Versions

LEMMA WalkNext ==
  ASSUME TreeInv, WalkInv, G!ListNext
  PROVE  WalkInv'
<1>1. CASE G!NodeStep
  <2>1. /\ Next /\ UNCHANGED <<bucket, phase, snapshot, listed, toRead, served>>
        /\ present' \subseteq present
    BY <1>1, ListNodeStep
  <2>2. phase \in {"scan", "read", "last"} => Held(snapshot)'
    BY <2>1, HeldStays DEF WalkInv
  <2> QED BY <2>1, <2>2 DEF WalkInv, Held, Versions
<1>2. CASE G!TakeSnapshot
  <2>1. /\ phase = "start" /\ snapshot' = chain /\ phase' = "scan"
        /\ UNCHANGED <<indexVars, bucket, listed, toRead, served>>
        /\ present' \subseteq present \cup Games
    BY <1>2, ListStills DEF G!TakeSnapshot
  <2>2. Held(chain) /\ UNCHANGED indexVars
    BY <2>1, HeldFromNow
  <2>3. Held(snapshot)'
    BY <2>1, <2>2 DEF Held, Versions, indexVars
  <2> QED BY <2>1, <2>3 DEF WalkInv
<1>3. CASE G!Scan
  <2>1. /\ phase = "scan" /\ phase' \in {"last", "read"}
        /\ listed' = listed \o G!Page /\ toRead' = G!Page
        /\ UNCHANGED <<indexVars, bucket, snapshot, served, present>>
    BY <1>3, ListStills DEF G!Scan
  <2>2. listed' \in Seq(Games) /\ toRead' \in Seq(Games)
    BY <2>1, ScannedPage
  <2>3. Held(snapshot)'
    BY <2>1 DEF WalkInv, Held, Versions, indexVars
  <2> QED BY <2>1, <2>2, <2>3 DEF WalkInv
<1>4. CASE G!ReadBody
  <2> DEFINE g == Head(toRead)
             s == StatusOf(Body(Newest(stored), g))
  <2>1. /\ toRead # <<>> /\ toRead' = Tail(toRead)
        /\ served' = IF s = "None" THEN served ELSE Append(served, [game |-> g, status |-> s])
        /\ UNCHANGED <<indexVars, bucket, phase, snapshot, listed, present>>
    BY <1>4, ListOfNode, ListStills DEF G!ReadBody
  <2>2. g \in Games /\ toRead' \in Seq(Games)
    BY <2>1 DEF WalkInv
  <2>3. s \in Statuses \cup {"None"}
    <3>1. lastVersion \in Nat /\ History(stored, lastVersion)
      BY DEF TreeInv, IndexInv
    <3>2. Newest(stored) = stored[Len(stored)] /\ Len(stored) \in 1..Len(stored)
      BY <3>1, LengthOf DEF Newest
    <3> QED BY <2>2, <3>1, <3>2, BodyOf, StatusOfBody
  <2> HIDE DEF g, s
  <2>4. served' \in Seq([game : Games, status : Statuses])
    <3>1. CASE s = "None"
      BY <2>1, <3>1 DEF WalkInv
    <3>2. CASE s # "None"
      <4>1. [game |-> g, status |-> s] \in [game : Games, status : Statuses]
        BY <2>2, <2>3, <3>2
      <4>2. served' = Append(served, [game |-> g, status |-> s])
        BY <2>1, <3>2
      <4> QED BY <4>1, <4>2 DEF WalkInv
    <3> QED BY <3>1, <3>2
  <2>5. phase \notin {"start", "scan", "done"}
    BY <2>1 DEF WalkInv
  <2>6. phase' \in {"scan", "read", "last"} => Held(snapshot)'
    BY <2>1 DEF WalkInv, Held, Versions, indexVars
  <2> QED BY <2>1, <2>2, <2>4, <2>5, <2>6 DEF WalkInv
<1>5. CASE G!Respond
  <2>1. /\ toRead = <<>> /\ phase' \in {"start", "done"} /\ served' = <<>>
        /\ UNCHANGED <<indexVars, bucket, listed, toRead, present>>
    BY <1>5, ListStills DEF G!Respond
  <2> QED BY <2>1 DEF WalkInv
<1> QED BY <1>1, <1>2, <1>3, <1>4, <1>5 DEF G!ListNext

WroteInto(b, g, s) == \E i \in 1..Len(s) : g \in Written(s[i]) /\ StatusOf(Body(s[i], g)) = b

LEMMA ListedMeans ==
  /\ ListedAreCanonical <=> \A k \in 1..Len(toRead) : WroteInto(bucket, toRead[k], snapshot)
  /\ ListedAreCanonical' <=> \A k \in 1..Len(toRead') : WroteInto(bucket', toRead'[k], snapshot')
BY ListOfNode DEF ListedAreCanonical, G!ListedAreCanonical, WroteInto

LEMMA TailOf ==
  ASSUME NEW S, NEW s \in Seq(S), s # <<>>
  PROVE  /\ Len(Tail(s)) = Len(s) - 1 /\ Len(s) \in Nat /\ 1 \in 1..Len(s) /\ Head(s) = s[1]
         /\ \A i \in 1..Len(Tail(s)) : i + 1 \in 1..Len(s) /\ Tail(s)[i] = s[i + 1]
OBVIOUS

(* What a page shows under a bucket was written into it by a batch of the   *)
(* snapshot, also when the store is on another branch.                      *)
LEMMA CanonNext ==
  ASSUME TreeInv, WalkInv, ListedAreCanonical, G!ListNext
  PROVE  ListedAreCanonical'
<1>1. CASE G!NodeStep
  BY <1>1, ListNodeStep, ListedMeans
<1>2. CASE G!TakeSnapshot \/ G!Respond
  <2>1. toRead' = <<>>
    BY <1>2 DEF G!TakeSnapshot, G!Respond, WalkInv
  <2> QED BY <2>1, ListedMeans
<1>3. CASE G!Scan
  <2>1. phase = "scan" /\ toRead' = G!Page /\ UNCHANGED <<bucket, snapshot>>
    BY <1>3 DEF G!Scan
  <2> SUFFICES ASSUME NEW k \in 1..Len(toRead')
               PROVE  WroteInto(bucket, toRead'[k], snapshot)
    BY <2>1, ListedMeans
  <2> DEFINE g == toRead'[k]
  <2>2. g \in Found
    BY <2>1, ScannedPage
  <2>3. g \in Games /\ status[bucket][g] # NoEntry /\ status[bucket][g] \in Versions(snapshot)
    BY <2>2 DEF Found
  <2> HIDE DEF g
  <2>4. bucket \in Statuses /\ Held(snapshot) /\ IndexInv /\ lastVersion \in Nat
    BY <2>1 DEF WalkInv, TreeInv, IndexInv
  <2>5. PICK i \in 1..Len(stored) : /\ status[bucket][g] = stored[i].version
                                    /\ g \in Written(stored[i])
                                    /\ StatusOf(Body(stored[i], g)) = bucket
    BY <2>3, <2>4, EntryTells
  <2>6. History(stored, lastVersion) /\ History(snapshot, lastVersion) /\ Branches(stored, snapshot)
    BY <2>4 DEF Held, IndexInv
  <2>7. i \in 1..Len(snapshot) /\ i \in 1..i /\ \A j \in 1..i : stored[j] = snapshot[j]
    <3>1. i \in 1..Len(snapshot) /\ \A j \in 1..i : stored[j] = snapshot[j]
      BY <2>3, <2>4, <2>5, <2>6, BranchKnows
    <3> QED BY <3>1
  <2> QED BY <2>5, <2>7 DEF WroteInto, g
<1>4. CASE G!ReadBody
  <2>1. toRead # <<>> /\ toRead' = Tail(toRead) /\ UNCHANGED <<bucket, snapshot>>
    BY <1>4 DEF G!ReadBody
  <2>2. toRead \in Seq(Games)
    BY DEF WalkInv
  <2> QED BY <2>1, <2>2, TailOf, ListedMeans
<1> QED BY <1>1, <1>2, <1>3, <1>4 DEF G!ListNext

LEMMA CursorIsLastGame ==
  /\ \A g : G!After(g) <=> listed = <<>> \/ g > listed[Len(listed)]
  /\ \A g : G!After(g)' <=> listed' = <<>> \/ g > listed'[Len(listed')]
BY DEF G!After, G!Last

(* A game that could be found all the while is on a page the cursor has     *)
(* passed: the node cannot have moved it to an id behind the cursor, nor    *)
(* given its entry a version that is not in the page's snapshot.            *)
LEMMA WholeNext ==
  ASSUME TreeInv, WalkInv, WholeInv, G!ListNext
  PROVE  WholeInv'
<1>0. /\ IndexInv /\ IndexInv' /\ bucket \in Statuses /\ present \subseteq Games
      /\ lastVersion \in Nat /\ lastVersion' \in Nat
      /\ History(chain, lastVersion) /\ History(chain', lastVersion')
  <2>1. [Next]_indexVars
    BY ListStills, ListNodeStep DEF G!ListNext
  <2>2. IndexInv /\ IndexInv'
    BY <2>1, IndexNext DEF TreeInv
  <2> QED BY <2>2 DEF WalkInv, IndexInv
<1>1. CASE G!NodeStep
  <2>1. /\ UNCHANGED <<bucket, phase, snapshot, listed, toRead, served>>
        /\ reverted \subseteq reverted'
        /\ G!Watching => \A g : g \in reverted' \/ Spares(g)
        /\ present' = IF G!Watching THEN { g \in present : status'[bucket'][g] \in Versions(chain') }
                      ELSE present
    BY <1>1, ListNodeStep
  <2>2. present' \ reverted' \subseteq present \ reverted
    BY <2>1
  <2>3. G!Watching' <=> G!Watching
    BY <2>1 DEF G!Watching
  <2>4. G!Watching' => \A g \in present' : status'[bucket'][g] \in Versions(chain')
    BY <2>1, <2>3
  <2>5. ASSUME phase = "scan", NEW g \in present' \ reverted'
        PROVE  status'[bucket][g] \in Versions(snapshot)
    <3>1. G!Watching
      BY <2>5 DEF G!Watching
    <3>2. /\ g \in Games /\ g \in present \ reverted /\ Spares(g)
          /\ status'[bucket][g] \in Versions(chain') /\ status[bucket][g] \in Versions(chain)
      BY <1>0, <2>1, <2>2, <2>5, <3>1 DEF WholeInv
    <3>3. status'[bucket][g] # NoEntry /\ status[bucket][g] # NoEntry
      BY <1>0, <3>2, VersionsAreNat
    <3>4. status'[bucket][g] = status[bucket][g]
      BY <1>0, <3>2, <3>3, EntryKept
    <3> QED BY <2>5, <3>2, <3>4 DEF WholeInv
  <2>6. \A g : G!After(g)' <=> G!After(g)
    BY <2>1, CursorIsLastGame
  <2> QED BY <2>1, <2>2, <2>4, <2>5, <2>6 DEF WholeInv, Has, Versions
<1>2. CASE G!TakeSnapshot
  <2>1. /\ phase = "start" /\ snapshot' = chain /\ phase' = "scan"
        /\ UNCHANGED <<indexVars, bucket, listed, reverted>>
        /\ present' = IF listed = <<>> THEN { g \in Games : G!Listable(g) } ELSE present
    BY <1>2, ListStills DEF G!TakeSnapshot
  <2>2. \A g \in present' : status[bucket][g] \in Versions(chain)
    <3>1. CASE listed = <<>>
      BY <2>1, <3>1, ListOfNode DEF G!Listable
    <3>2. CASE listed # <<>>
      BY <2>1, <3>2 DEF WholeInv, G!Watching
    <3> QED BY <3>1, <3>2
  <2>3. \A g \in present' \ reverted' : G!After(g)' \/ Has(listed', g)
    BY <2>1, CursorIsLastGame DEF WholeInv
  <2> QED BY <2>1, <2>2, <2>3 DEF WholeInv, Versions, indexVars
<1>3. CASE G!Scan
  <2> DEFINE page == G!Page
             m == Len(page)
             n == Len(listed)
  <2>1. /\ phase = "scan" /\ phase' = IF m < Limit THEN "last" ELSE "read"
        /\ listed' = listed \o page
        /\ UNCHANGED <<indexVars, bucket, snapshot, present, reverted>>
    BY <1>3, ListStills DEF G!Scan
  <2>2. /\ page \in Seq(Games) /\ m \in Nat /\ n \in Nat
        /\ listed' \in Seq(Games) /\ Len(listed') = n + m
        /\ \A i \in 1..n : listed'[i] = listed[i]
        /\ \A i \in 1..m : listed'[n + i] = page[i]
    BY <2>1, ScannedPage DEF WalkInv
  <2>3. \A g \in Found : \/ \E i \in 1..m : page[i] = g
                         \/ m = Limit /\ \A i \in 1..m : <<page[i], g>> \in Ascending
    BY GamesPage DEF IsPage
  <2>4. Limit \in Nat \ {0} /\ Games \subseteq Nat
    BY ReadersAssumption, IndexerAssumption
  <2> HIDE DEF page
  <2>5. \A g : Has(listed, g) => Has(listed', g)
    BY <2>2 DEF Has
  <2>6. \A i \in 1..m : Has(listed', page[i])
    <3> TAKE i \in 1..m
    <3>1. n + i \in 1..(n + m)
      BY <2>2
    <3> QED BY <2>2, <3>1 DEF Has
  <2>7. ASSUME NEW g \in present \ reverted, ~Has(listed', g)
        PROVE  g \in Found /\ m = Limit /\ g > listed'[Len(listed')]
    <3>1. g \in Games /\ G!After(g) /\ status[bucket][g] \in Versions(snapshot)
      BY <1>0, <2>1, <2>5, <2>7 DEF WholeInv
    <3>2. Held(snapshot)
      BY <2>1 DEF WalkInv
    <3>3. g \in Found
      BY <1>0, <3>1, <3>2, VersionsAreNat DEF Found, Held
    <3>4. ~(\E i \in 1..m : page[i] = g)
      BY <2>6, <2>7
    <3>5. m = Limit /\ \A i \in 1..m : <<page[i], g>> \in Ascending
      BY <2>3, <3>3, <3>4
    <3>6. m \in 1..m
      BY <2>4, <3>5
    <3>7. listed'[Len(listed')] = page[m] /\ page[m] \in Nat /\ g \in Nat
      <4>1. listed'[Len(listed')] = page[m]
        BY <2>2, <3>6
      <4>2. page[m] \in Games
        BY <2>2, <3>6
      <4> QED BY <2>4, <3>1, <4>1, <4>2
    <3>8. page[m] < g
      BY <3>5, <3>6 DEF Ascending
    <3> QED BY <3>3, <3>5, <3>7, <3>8
  <2>8. \A g \in present' \ reverted' : G!After(g)' \/ Has(listed', g)
    BY <2>1, <2>7, CursorIsLastGame
  <2>9. phase' \in {"last", "done"} => \A g \in present' \ reverted' : Has(listed', g)
    BY <2>1, <2>2, <2>4, <2>7
  <2>10. phase' = "read" => listed' # <<>>
    <3> SUFFICES ASSUME phase' = "read" PROVE listed' # <<>>
      OBVIOUS
    <3>1. m >= Limit
      BY <2>1, <2>2, <2>4
    <3>2. Len(listed') > 0
      BY <2>2, <2>4, <3>1
    <3> QED BY <3>2
  <2>11. G!Watching' => \A g \in present' : status'[bucket'][g] \in Versions(chain')
    BY <2>1 DEF WholeInv, G!Watching, indexVars
  <2> QED BY <2>1, <2>8, <2>9, <2>10, <2>11 DEF WholeInv, Versions
<1>4. CASE G!ReadBody
  <2>1. UNCHANGED <<indexVars, bucket, phase, snapshot, listed, present, reverted>>
    BY <1>4, ListStills DEF G!ReadBody
  <2>2. \A g : G!After(g)' <=> G!After(g)
    BY <2>1, CursorIsLastGame
  <2> QED BY <2>1, <2>2 DEF WholeInv, Has, Versions, indexVars, G!Watching
<1>5. CASE G!Respond
  <2>1. /\ phase \in {"read", "last"} /\ phase' = IF phase = "last" THEN "done" ELSE "start"
        /\ UNCHANGED <<indexVars, bucket, listed, present, reverted>>
    BY <1>5, ListStills DEF G!Respond
  <2>2. G!Watching
    BY <2>1 DEF G!Watching
  <2>3. \A g : G!After(g)' <=> G!After(g)
    BY <2>1, CursorIsLastGame
  <2> QED BY <2>1, <2>2, <2>3 DEF WholeInv, Has, Versions, indexVars
<1> QED BY <1>1, <1>2, <1>3, <1>4, <1>5 DEF G!ListNext

LEMMA ServedMeans ==
  /\ ServedIsNotBehind <=>
       \A i \in 1..Len(served) : served[i].game \in reverted
                                 \/ G!Stage[served[i].status] >= G!Stage[bucket]
  /\ ServedIsNotBehind' <=>
       \A i \in 1..Len(served') : served'[i].game \in reverted'
                                  \/ G!Stage[served'[i].status] >= G!Stage[bucket']
BY DEF ServedIsNotBehind, G!ServedIsNotBehind, G!Stage

LEMMA NotBehindOn ==
  ASSUME NEW x, NEW y, NEW z, NotBehind(x, y), NotBehind(y, z)
  PROVE  NotBehind(x, z)
<1>1. \A s \in Statuses : G!Stage[s] \in Int
  BY DEF G!Stage, Statuses
<1> QED BY <1>1 DEF NotBehind

(* A game of the page may go on to a later bucket before its body is read,  *)
(* but goes back only if a batch that wrote it is reverted.                 *)
LEMMA TimelyNext ==
  ASSUME TreeInv, WalkInv, TimelyInv, G!ListNext
  PROVE  TimelyInv'
<1>1. IndexInv /\ bucket \in Statuses /\ toRead \in Seq(Games)
  BY DEF TreeInv, WalkInv
<1>2. Progress(chain)'
  <2>1. [Next]_indexVars
    BY ListStills, ListNodeStep DEF G!ListNext
  <2>2. Progress(chain')
    BY <1>1, <2>1, ProgressStays DEF TimelyInv
  <2> QED BY <2>2 DEF Progress
<1>3. CASE G!NodeStep
  <2>1. /\ UNCHANGED <<bucket, phase, toRead, served>>
        /\ reverted \subseteq reverted'
        /\ G!Watching => \A g : g \in reverted' \/ Spares(g)
    BY <1>3, ListNodeStep
  <2>2. ASSUME NEW k \in 1..Len(toRead), toRead[k] \notin reverted'
        PROVE  NotBehind(StatusOf(Body(Newest(stored'), toRead[k])), bucket)
    <3>1. toRead # <<>> /\ toRead[k] \in Games
      BY <1>1
    <3>2. G!Watching
      BY <3>1 DEF WalkInv, G!Watching
    <3>3. NotBehind(StatusOf(Body(Newest(stored), toRead[k])), bucket) /\ Spares(toRead[k])
      BY <2>1, <2>2, <3>2 DEF TimelyInv
    <3> QED BY <1>1, <3>1, <3>3, StoreForward, NotBehindOn DEF TimelyInv
  <2>3. ServedIsNotBehind'
    BY <2>1, ServedMeans DEF TimelyInv
  <2> QED BY <1>2, <2>1, <2>2, <2>3 DEF TimelyInv, NotBehind, G!Stage, Newest
<1>4. CASE G!TakeSnapshot
  <2>1. /\ UNCHANGED <<indexVars, bucket, reverted, toRead, served>>
    BY <1>4, ListStills DEF G!TakeSnapshot
  <2>2. ServedIsNotBehind'
    BY <2>1, ServedMeans DEF TimelyInv
  <2> QED BY <1>2, <2>1, <2>2 DEF TimelyInv, NotBehind, G!Stage, Newest, indexVars
<1>5. CASE G!Scan
  <2>1. toRead' = G!Page /\ UNCHANGED <<indexVars, bucket, reverted, served>>
    BY <1>5, ListStills DEF G!Scan
  <2>2. ASSUME NEW k \in 1..Len(toRead')
        PROVE  NotBehind(StatusOf(Body(Newest(stored), toRead'[k])), bucket)
    <3>1. toRead'[k] \in Found
      BY <2>1, ScannedPage
    <3>2. StatusOf(Body(Newest(stored), toRead'[k])) = bucket
      BY <1>1, <3>1, EntryTells DEF Found
    <3> QED BY <3>2 DEF NotBehind, Statuses, G!Stage
  <2>3. ServedIsNotBehind'
    BY <2>1, ServedMeans DEF TimelyInv
  <2> QED BY <1>2, <2>1, <2>2, <2>3 DEF TimelyInv, NotBehind, G!Stage, Newest, indexVars
<1>6. CASE G!ReadBody
  <2> DEFINE g == Head(toRead)
             s == StatusOf(Body(Newest(stored), g))
  <2>1. /\ toRead # <<>> /\ toRead' = Tail(toRead)
        /\ served' = IF s = "None" THEN served ELSE Append(served, [game |-> g, status |-> s])
        /\ UNCHANGED <<indexVars, bucket, reverted>>
    BY <1>6, ListOfNode, ListStills DEF G!ReadBody
  <2>2. g \in reverted \/ NotBehind(s, bucket)
    BY <1>1, <2>1, TailOf DEF TimelyInv
  <2>3. \A k \in 1..Len(toRead') :
          toRead'[k] \in reverted \/ NotBehind(StatusOf(Body(Newest(stored), toRead'[k])), bucket)
    BY <1>1, <2>1, TailOf DEF TimelyInv
  <2> HIDE DEF g, s
  <2>4. ServedIsNotBehind'
    <3>1. CASE served' = served
      BY <2>1, <3>1, ServedMeans DEF TimelyInv
    <3>2. CASE served' = Append(served, [game |-> g, status |-> s])
      <4> DEFINE r == [game |-> g, status |-> s]
                 n == Len(served)
                 Rows == [game : Games, status : Statuses]
      <4>1. /\ n \in Nat /\ Len(served') = n + 1 /\ served'[n + 1] = r
            /\ \A i \in 1..n : served'[i] = served[i]
        <5>1. served \in Seq(Rows)
          BY DEF WalkInv
        <5> HIDE DEF Rows, r
        <5>2. served \in Seq(Rows \cup {r})
          BY <5>1
        <5>3. served' = Append(served, r)
          BY <3>2 DEF r
        <5> QED BY <5>2, <5>3
      <4>2. r.game \in reverted \/ G!Stage[r.status] >= G!Stage[bucket]
        BY <1>1, <2>2 DEF NotBehind
      <4> HIDE DEF r
      <4>3. \A i \in 1..(n + 1) : served'[i].game \in reverted
                                  \/ G!Stage[served'[i].status] >= G!Stage[bucket]
        <5> TAKE i \in 1..(n + 1)
        <5>1. CASE i = n + 1
          BY <4>1, <4>2, <5>1
        <5>2. CASE i # n + 1
          BY <4>1, <5>2, ServedMeans DEF TimelyInv
        <5> QED BY <5>1, <5>2
      <4> QED BY <2>1, <4>1, <4>3, ServedMeans
    <3> QED BY <2>1, <3>1, <3>2
  <2> QED BY <1>2, <2>1, <2>3, <2>4 DEF TimelyInv, NotBehind, G!Stage, Newest, indexVars
<1>7. CASE G!Respond
  <2>1. /\ served' = <<>> /\ UNCHANGED <<indexVars, bucket, reverted, toRead>>
    BY <1>7, ListStills DEF G!Respond
  <2>2. ServedIsNotBehind'
    BY <2>1, ServedMeans
  <2> QED BY <1>2, <2>1, <2>2 DEF TimelyInv, NotBehind, G!Stage, Newest, indexVars
<1> QED BY <1>3, <1>4, <1>5, <1>6, <1>7 DEF G!ListNext

---------------------------------------------------------------------------
(* Both readers *)

(* Nobody walks the pages of a bucket. *)
Rests ==
  /\ bucket = "Open" /\ phase = "done"
  /\ listed = <<>> /\ toRead = <<>> /\ served = <<>> /\ present = {}

ReadersInv == ListInv /\ FollowInv /\ (reader = "events" => Rests)

LEMMA RestIsFine == TreeInv /\ Progress(chain) /\ Rests => ListInv
<1> SUFFICES ASSUME TreeInv, Progress(chain), Rests PROVE ListInv
  OBVIOUS
<1>1. WalkInv
  BY DEF Rests, WalkInv, Statuses
<1>2. ListedAreCanonical
  BY ListedMeans DEF Rests
<1>3. WholeInv
  BY DEF Rests, WholeInv
<1>4. TimelyInv
  BY ServedMeans DEF Rests, TimelyInv
<1> QED BY <1>1, <1>2, <1>3, <1>4 DEF ListInv

LEMMA ReadersStart == ReadersInit => ReadersInv
<1> SUFFICES ASSUME ReadersInit PROVE ReadersInv
  OBVIOUS
<1>1. Init
  BY ListOfNode, StreamOfNode DEF ReadersInit, G!ListInit, E!StreamInit
<1>2. TreeInv
  BY <1>1, TreeInit
<1>3. Progress(chain)
  <2>1. Len(chain) = 1
    BY <1>1 DEF Init
  <2>2. 2..1 = {}
    OBVIOUS
  <2> QED BY <2>1, <2>2 DEF Progress
<1>4. FollowInv
  <2>1. seen = <<>> /\ asking = FALSE
    BY DEF ReadersInit, E!StreamInit
  <2>2. \A e : E!AfterCursor(e)
    BY <2>1, CursorIsLast
  <2> QED BY <2>1, <2>2 DEF FollowInv
<1>5. CASE reader = "events" /\ Rests
  BY <1>2, <1>3, <1>4, <1>5, RestIsFine DEF ReadersInv
<1>6. CASE reader = "games" /\ G!ListInit
  <2>1. /\ bucket \in Statuses /\ phase = "start" /\ present = Games
        /\ listed = <<>> /\ toRead = <<>> /\ served = <<>>
    BY <1>6, ListOfNode DEF G!ListInit
  <2>2. WalkInv
    BY <2>1 DEF WalkInv
  <2>3. ListedAreCanonical
    BY <2>1, ListedMeans
  <2>4. WholeInv
    <3>1. \A g : G!After(g)
      BY <2>1, CursorIsLastGame
    <3> QED BY <2>1, <3>1 DEF WholeInv, G!Watching
  <2>5. TimelyInv
    BY <1>3, <2>1, ServedMeans DEF TimelyInv
  <2> QED BY <1>2, <1>4, <1>6, <2>2, <2>3, <2>4, <2>5 DEF ReadersInv, ListInv
<1> QED BY <1>5, <1>6 DEF ReadersInit, Rests

LEMMA ReadersStep ==
  ReadersInv /\ [ReadersNext]_<<indexVars, reader, listVars, streamVars>> => ReadersInv'
<1> SUFFICES ASSUME ReadersInv, [ReadersNext]_<<indexVars, reader, listVars, streamVars>>
             PROVE  ReadersInv'
  OBVIOUS
<1>1. /\ TreeInv /\ WalkInv /\ ListedAreCanonical /\ WholeInv /\ TimelyInv /\ FollowInv
      /\ IndexInv /\ Progress(chain)
  BY DEF ReadersInv, ListInv, TreeInv, TimelyInv
<1>2. CASE GamesRead
  <2>1. reader' = "games" /\ G!ListNext /\ UNCHANGED <<stream, asking, cursorSnapshot, seen>>
    BY <1>2 DEF GamesRead, streamVars
  <2>2. [Next]_indexVars
    BY <2>1, ListStills, ListNodeStep DEF G!ListNext
  <2>3. TreeInv' /\ FollowInv'
    BY <1>1, <2>1, <2>2, TreeNext, FollowNode
  <2>4. WalkInv' /\ ListedAreCanonical' /\ WholeInv' /\ TimelyInv'
    BY <1>1, <2>1, WalkNext, CanonNext, WholeNext, TimelyNext
  <2> QED BY <2>1, <2>3, <2>4 DEF ReadersInv, ListInv
<1>3. CASE EventsRead
  <2>1. reader' = "events" /\ Rests /\ Rests' /\ E!StreamNext
    BY <1>3 DEF EventsRead, ReadersInv, listVars, Rests
  <2>2. \/ [Next]_indexVars /\ UNCHANGED <<stream, asking, cursorSnapshot, seen>>
        \/ E!Ask
        \/ E!Answer
    BY <2>1, StreamOfNode DEF E!StreamNext, E!NodeStep
  <2>3. [Next]_indexVars
    BY <2>2 DEF E!Ask, E!Answer, E!indexVars, indexVars
  <2>4. TreeInv' /\ FollowInv'
    BY <1>1, <2>2, <2>3, TreeNext, FollowNode, FollowAsk, FollowAnswer
  <2>5. Progress(chain)'
    <3>1. Progress(chain')
      BY <1>1, <2>3, ProgressStays
    <3> QED BY <3>1 DEF Progress
  <2>6. (TreeInv /\ Progress(chain) /\ Rests)' => ListInv'
    BY RestIsFine, PTL
  <2> QED BY <2>1, <2>4, <2>5, <2>6 DEF ReadersInv
<1>4. CASE UNCHANGED <<indexVars, reader, listVars, streamVars>>
  <2>1. UNCHANGED <<indexVars, reader>> /\ UNCHANGED listVars /\ UNCHANGED streamVars
    BY <1>4
  <2>2. TreeInv' /\ FollowInv'
    BY <1>1, <2>1, TreeNext, FollowNode DEF streamVars
  <2>3. WalkInv'
    BY <1>1, <2>1 DEF WalkInv, listVars, Held, Versions, indexVars
  <2>4. ListedAreCanonical'
    BY <1>1, <2>1, ListedMeans DEF listVars
  <2>5. WholeInv'
    <3>1. \A g : G!After(g)' <=> G!After(g)
      BY <2>1, CursorIsLastGame DEF listVars
    <3> QED BY <1>1, <2>1, <3>1 DEF WholeInv, listVars, indexVars, Has, Versions, G!Watching
  <2>6. TimelyInv'
    <3>1. ServedIsNotBehind'
      BY <1>1, <2>1, ServedMeans DEF TimelyInv, listVars
    <3> QED BY <1>1, <2>1, <3>1 DEF TimelyInv, listVars, indexVars, Progress, NotBehind, G!Stage,
                                    Newest
  <2> QED BY <2>1, <2>2, <2>3, <2>4, <2>5, <2>6 DEF ReadersInv, ListInv, Rests, listVars
<1> QED BY <1>2, <1>3, <1>4 DEF ReadersNext

(* The inductive invariant: chain, store and every snapshot a reader holds    *)
(* are branches of one tree, and each reader has what it should have so far.  *)
THEOREM ReadersInvariant == ReadersSpec => []ReadersInv
BY ReadersStart, ReadersStep, PTL DEF ReadersSpec

(* StreamHasNoGap: a follower has every canonical entry at or below its       *)
(* cursor, whatever reorgs happen between its snapshot and its scan.          *)
THEOREM FollowerMissesNothing == ReadersSpec => []StreamHasNoGap
<1>1. ReadersInv => StreamHasNoGap
  BY FollowHasNoGap DEF ReadersInv, ListInv
<1> QED BY <1>1, ReadersInvariant, PTL

(* ListedAreCanonical: a page of games names only canonical entries of its    *)
(* bucket, also when the store is still on an orphaned branch.                *)
THEOREM PagesAreCanonical == ReadersSpec => []ListedAreCanonical
<1>1. ReadersInv => ListedAreCanonical
  BY DEF ReadersInv, ListInv
<1> QED BY <1>1, ReadersInvariant, PTL

(* UntouchedGamesAreListed: a game canonical in the bucket throughout a walk  *)
(* is on one of its pages, whatever batches write it meanwhile.               *)
THEOREM WalksAreComplete == ReadersSpec => []UntouchedGamesAreListed
<1>1. ReadersInv => UntouchedGamesAreListed
  <2> SUFFICES ASSUME ReadersInv, phase = "done", NEW g \in present \ reverted
               PROVE  g \in G!Range(listed)
    BY DEF UntouchedGamesAreListed, G!UntouchedGamesAreListed
  <2>1. PICK i \in 1..Len(listed) : listed[i] = g
    BY DEF ReadersInv, ListInv, WholeInv, Has
  <2>2. listed \in Seq(Games)
    BY DEF ReadersInv, ListInv, WalkInv
  <2> QED BY <2>1, <2>2 DEF G!Range
<1> QED BY <1>1, ReadersInvariant, PTL

(* ServedIsNotBehind: the body served with a listed game is in the bucket     *)
(* asked for or in a later one, unless the game was reverted meanwhile.       *)
THEOREM BodiesAreNotBehind == ReadersSpec => []ServedIsNotBehind
<1>1. ReadersInv => ServedIsNotBehind
  BY DEF ReadersInv, ListInv, TimelyInv
<1> QED BY <1>1, ReadersInvariant, PTL

=============================================================================
