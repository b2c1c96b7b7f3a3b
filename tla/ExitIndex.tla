----------------------------- MODULE ExitIndex ------------------------------
(***************************************************************************)
(* The node's index of settled exits (TicTacToeExitIndexer of              *)
(* node/src/exit_index.rs over the keyspace of node/src/da_store.rs).      *)
(*                                                                         *)
(* L1 settles bundles of exits, settles what the runner has no bundle for  *)
(* (without exits, or with exits it has not paired), and spends the leaves *)
(* of a settled family one claim at a time; a reorg takes the newest of    *)
(* these transactions back.  The runner reports each of them to a hook of  *)
(* the indexer, in order; a hook changes the mirror in memory at once and  *)
(* the store through a write batch committed after it returns.  A restart  *)
(* loses the mirror; reseed reads it back from the store.                  *)
(*                                                                         *)
(* A permission root is the row of leaves it commits to (PermissionTree),  *)
(* a transaction is its place in the order in which they were mined, and   *)
(* an outpoint is the transaction that created it.                         *)
(***************************************************************************)
EXTENDS Integers, Sequences

CONSTANTS
  Families,     \* bundles with exits
  Leaves,       \* Leaves[f]: the exit leaves of bundle f
  EmptyLeaf,    \* an emptied or padding slot
  NoRoot,       \* the zero permission commitment
  Unpaired,     \* commitments of exits whose bundle the runner does not have
  SeedFirst,    \* TRUE: no hook runs between a restart and reseed
  PairingFirst, \* TRUE: reverts of settlements may land before those of claims
  MaxTx,        \* bound: transactions ever mined
  MaxReorgs,    \* bound: reorgs
  MaxRestarts   \* bound: restarts

ASSUME ExitAssumption ==
  /\ \A f \in Families : Len(Leaves[f]) \in Nat \ {0}
  /\ NoRoot \notin Families \cup Unpaired
  /\ SeedFirst \in BOOLEAN /\ PairingFirst \in BOOLEAN
  /\ MaxTx \in Nat /\ MaxReorgs \in Nat /\ MaxRestarts \in Nat

VARIABLES
  l1,        \* the canonical transactions, oldest first
  calls,     \* hook calls the runner still has to make
  records,   \* mirror: live family records by root
  latest,    \* mirror: the latest-settlement row
  store,     \* the index keyspace: records, spent marks, latest row
  batch,     \* the store as the open write batch will leave it, or NoBatch
  seeded,    \* reseed has run in this process
  mined, reorgs, restarts  \* counters of the bounds

l1Vars == <<l1, mined, reorgs>>
memory == <<records, latest, seeded>>
vars == <<l1, calls, records, latest, store, batch, seeded, mined, reorgs, restarts>>

---------------------------------------------------------------------------
Put(map, key, value) ==
  [k \in DOMAIN map \cup {key} |-> IF k = key THEN value ELSE map[k]]
Drop(map, key) == [k \in DOMAIN map \ {key} |-> map[k]]
Nothing == [k \in {} |-> 0]

(* The slots of the padded tree: at least one branch, a power of two. *)
Capacity(n) == CHOOSE c \in {2, 4, 8, 16} : n <= c /\ (c = 2 \/ n > c \div 2)

(* The padded root over the leaves that are not emptied. *)
Root(leaves, emptied) ==
  [i \in 1..Capacity(Len(leaves)) |->
     IF i \in 1..Len(leaves) \ emptied THEN leaves[i] ELSE EmptyLeaf]

(* Two bundles are told apart by the root of what is left of their leaves.   *)
(* It excludes two bundles that come down to the same leaves at the same      *)
(* places: the index keys its records by this root (put_exit_record), so the  *)
(* record of one would replace that of the other.                             *)
RootsTell ==
  \A f, g \in Families :
    \A E \in SUBSET (1..Len(Leaves[f])), F \in SUBSET (1..Len(Leaves[g])) :
      (E # 1..Len(Leaves[f]) /\ Root(Leaves[f], E) = Root(Leaves[g], F)) => f = g /\ E = F

NoRow == [permission_root |-> NoRoot, txid |-> 0]
NoBatch == [records |-> Nothing, marks |-> Nothing, latest |-> NoRow, open |-> FALSE]

Init ==
  /\ l1 = <<>>
  /\ calls = <<>>
  /\ records = Nothing
  /\ latest = NoRow
  /\ store = [records |-> Nothing, marks |-> Nothing, latest |-> NoRow]
  /\ batch = NoBatch
  /\ seeded = FALSE
  /\ mined = 0 /\ reorgs = 0 /\ restarts = 0

---------------------------------------------------------------------------
(* L1 *)

IsSettled(f) == \E i \in 1..Len(l1) : l1[i].kind = "Exits" /\ l1[i].family = f
IsClaim(e, f) == e.kind = "Claim" /\ e.family = f
IsClaimed(f, leaf) == \E i \in 1..Len(l1) : IsClaim(l1[i], f) /\ l1[i].leaf = leaf
Emptied(f) == { leaf \in 1..Len(Leaves[f]) : IsClaimed(f, leaf) }

(* The transaction that holds the family's permission output. *)
Anchor(f) ==
  LET mine == { i \in 1..Len(l1) : l1[i].kind # "Observed" /\ l1[i].family = f }
  IN  l1[CHOOSE i \in mine : \A j \in mine : j <= i].tx

Apply(e) == [hook |-> "apply", tx |-> e]
Revert(e) == [hook |-> "revert", tx |-> e]

Mine(e) ==
  /\ mined < MaxTx
  /\ mined' = mined + 1
  /\ l1' = Append(l1, e)
  /\ calls' = Append(calls, Apply(e))
  /\ UNCHANGED <<reorgs, memory, store, batch, restarts>>

SettleExits(f) ==
  /\ ~IsSettled(f)
  /\ Mine([kind |-> "Exits", family |-> f, tx |-> mined + 1])

(* A settlement the runner has no bundle for: without exits its permission  *)
(* commitment is zero.                                                      *)
SettleObserved(root) ==
  Mine([kind |-> "Observed", tx |-> mined + 1, permission_spk_hash |-> root])

(* A claim spends the permission output, empties one leaf and, unless it    *)
(* was the last one, creates the next output.                               *)
Claim(f, leaf) ==
  /\ IsSettled(f)
  /\ leaf \in 1..Len(Leaves[f]) \ Emptied(f)
  /\ Mine([kind |-> "Claim", family |-> f, tx |-> mined + 1, leaf |-> leaf,
           spent_outpoint |-> Anchor(f),
           old_root |-> Root(Leaves[f], Emptied(f)),
           new_root |-> Root(Leaves[f], Emptied(f) \cup {leaf})])

Backwards(s) == [i \in 1..Len(s) |-> s[Len(s) + 1 - i]]

(* The elements at some of the places of a sequence, in order (SelectSeq      *)
(* without an operator parameter).                                            *)
AtPlaces(s, places) ==
  LET upTo[n \in 0..Len(s)] ==
        IF n = 0 THEN <<>>
        ELSE IF n \in places THEN Append(upTo[n - 1], s[n]) ELSE upTo[n - 1]
  IN  upTo[Len(s)]

Only(s, kinds) == AtPlaces(s, { i \in 1..Len(s) : s[i].kind \in kinds })
Reverts(s) == [i \in 1..Len(s) |-> Revert(s[i])]

(* A reorg takes the newest transactions back, newest first; a settlement's *)
(* revert may overtake those of the claims above it.                        *)
Reorg ==
  /\ reorgs < MaxReorgs
  /\ reorgs' = reorgs + 1
  /\ \E n \in 0..(Len(l1) - 1) :
       LET gone == Backwards(SubSeq(l1, n + 1, Len(l1)))
       IN  /\ l1' = SubSeq(l1, 1, n)
           /\ \/ calls' = calls \o Reverts(gone)
              \/ /\ PairingFirst
                 /\ calls' = calls \o Reverts(Only(gone, {"Exits", "Observed"}))
                                   \o Reverts(Only(gone, {"Claim"}))
  /\ UNCHANGED <<mined, memory, store, batch, restarts>>

---------------------------------------------------------------------------
(* Hooks *)

(* put_*, delete_* on the open write batch. *)
Write(newRecords, newMarks, newLatest) ==
  batch' = [records |-> newRecords, marks |-> newMarks, latest |-> newLatest, open |-> TRUE]

RecordFor(e) ==
  [settlement_txid |-> e.tx, daa_score |-> e.tx, unclaimed |-> Len(Leaves[e.family]),
   leaves |-> Leaves[e.family], emptied |-> <<>>]

FreshRoot(f) == Root(Leaves[f], {})

(* The first settlement of a bundle. *)
OnExitsCommitted(e) ==
  LET root == FreshRoot(e.family)
      row  == [permission_root |-> e.family, txid |-> e.tx]
  IN  /\ records' = Put(records, root, RecordFor(e))
      /\ latest' = row
      /\ Write(Put(store.records, root, RecordFor(e)), store.marks, row)

(* The settlement of a bundle whose earlier one was reverted: its record is *)
(* built afresh.                                                            *)
OnExitsRecommitted(e) == OnExitsCommitted(e)

(* No exits: the last known permission root is carried forward.             *)
ObservedRoot(e) ==
  IF e.permission_spk_hash = NoRoot THEN latest.permission_root ELSE e.permission_spk_hash

OnSettlementObservedUnmirrored(e) ==
  /\ Write(store.records, store.marks, [permission_root |-> ObservedRoot(e), txid |-> e.tx])
  /\ UNCHANGED <<records, latest>>

OnSettlementObservedAsGiven(e) ==
  LET row == [permission_root |-> e.permission_spk_hash, txid |-> e.tx]
  IN  /\ latest' = row
      /\ Write(store.records, store.marks, row)
      /\ UNCHANGED records

OnSettlementObserved(e) ==
  LET row == [permission_root |-> ObservedRoot(e), txid |-> e.tx]
  IN  /\ latest' = row
      /\ Write(store.records, store.marks, row)
      /\ UNCHANGED records

Holds(rec, leaf) == \E i \in 1..Len(rec.emptied) : rec.emptied[i].leaf_index = leaf

Mark(e) == <<e.old_root, e.leaf>>

EmptiedBy(rec, e) ==
  [rec EXCEPT !.emptied = Append(@, [leaf_index |-> e.leaf, spend_txid |-> e.tx]),
              !.unclaimed = @ - 1]

(* The claim's continuation is the record's new anchor. *)
Advanced(rec, e) == [EmptiedBy(rec, e) EXCEPT !.settlement_txid = e.tx]

Moved(map, e, rec) == Put(Drop(map, e.old_root), e.new_root, rec)

OnPermissionSpent(e) ==
  LET marks == Put(store.marks, Mark(e), e.tx)
  IN  /\ UNCHANGED latest
      /\ \/ /\ e.old_root \notin DOMAIN records
            /\ Write(Drop(store.records, e.old_root), marks, store.latest)
            /\ UNCHANGED records
         \/ /\ e.old_root \in DOMAIN records
            /\ LET rec == records[e.old_root]
               IN  \/ /\ rec.unclaimed = 0 \/ Holds(rec, e.leaf)
                      /\ Write(store.records, marks, store.latest)
                      /\ UNCHANGED records
                   \/ /\ rec.unclaimed > 1 /\ ~Holds(rec, e.leaf)
                      /\ records' = Moved(records, e, Advanced(rec, e))
                      /\ Write(Moved(store.records, e, Advanced(rec, e)), marks, store.latest)
                   \/ /\ rec.unclaimed = 1 /\ ~Holds(rec, e.leaf)
                      /\ records' = Put(records, e.old_root, EmptiedBy(rec, e))
                      /\ Write(Put(store.records, e.old_root, EmptiedBy(rec, e)),
                               marks, store.latest)

WasSpent(rec, e) ==
  \E i \in 1..Len(rec.emptied) :
    rec.emptied[i].leaf_index = e.leaf /\ rec.emptied[i].spend_txid = e.tx

Carries(root, e) == root \in DOMAIN records /\ WasSpent(records[root], e)

(* The claim's mark, wherever it stands, leaves the record. *)
Restored(rec, e) ==
  LET others == { i \in 1..Len(rec.emptied) :
                    rec.emptied[i].leaf_index # e.leaf \/ rec.emptied[i].spend_txid # e.tx }
  IN  [rec EXCEPT !.emptied = AtPlaces(@, others), !.unclaimed = @ + 1]

RewoundKeepsAnchor(rec, e) == Restored(rec, e)

(* The anchor before the claim was the output it spent. *)
Rewound(rec, e) == [Restored(rec, e) EXCEPT !.settlement_txid = e.spent_outpoint]

UnmarkedIfKnown(e) ==
  IF Carries(e.old_root, e) \/ Carries(e.new_root, e) THEN Drop(store.marks, Mark(e))
  ELSE store.marks

Unmarked(e) == Drop(store.marks, Mark(e))

OnPermissionSpendReverted(e) ==
  /\ UNCHANGED latest
  /\ \/ /\ ~Carries(e.old_root, e) /\ ~Carries(e.new_root, e)
        /\ Write(store.records, Unmarked(e), store.latest)
        /\ UNCHANGED records
     \/ /\ Carries(e.old_root, e)
        /\ LET rec == Restored(records[e.old_root], e)
           IN  /\ records' = Put(records, e.old_root, rec)
               /\ Write(Put(store.records, e.old_root, rec), Unmarked(e), store.latest)
     \/ /\ ~Carries(e.old_root, e) /\ Carries(e.new_root, e)
        /\ LET rec == Rewound(records[e.new_root], e)
           IN  /\ records' = Put(Drop(records, e.new_root), e.old_root, rec)
               /\ Write(Put(Drop(store.records, e.new_root), e.old_root, rec),
                        Unmarked(e), store.latest)

LiveRootsFresh(f) == {}

(* The records of a family, wherever its claims have moved it. *)
LiveRoots(f) == { r \in DOMAIN records : records[r].leaves = Leaves[f] }

OnExitsReverted(e) ==
  /\ \E key \in IF LiveRoots(e.family) = {} THEN { FreshRoot(e.family) }
                                            ELSE LiveRoots(e.family) :
       /\ records' = Drop(records, key)
       /\ Write(Drop(store.records, key), store.marks, store.latest)
  /\ UNCHANGED latest

(* The runner calls the hook of the oldest report.  The revert of a         *)
(* settlement without a bundle has no hook.                                  *)
Hook ==
  /\ calls # <<>> /\ ~batch.open
  /\ SeedFirst => seeded
  /\ LET e == Head(calls).tx
     IN  IF Head(calls).hook = "apply"
         THEN \/ e.kind = "Exits" /\ (OnExitsCommitted(e) \/ OnExitsRecommitted(e))
              \/ e.kind = "Observed" /\ OnSettlementObserved(e)
              \/ e.kind = "Claim" /\ OnPermissionSpent(e)
         ELSE \/ e.kind = "Exits" /\ OnExitsReverted(e)
              \/ /\ e.kind = "Observed"
                 /\ Write(store.records, store.marks, store.latest)
                 /\ UNCHANGED <<records, latest>>
              \/ e.kind = "Claim" /\ OnPermissionSpendReverted(e)
  /\ UNCHANGED <<l1Vars, calls, store, seeded, restarts>>

Commit ==
  /\ batch.open
  /\ store' = [records |-> batch.records, marks |-> batch.marks, latest |-> batch.latest]
  /\ batch' = NoBatch
  /\ calls' = Tail(calls)
  /\ UNCHANGED <<l1Vars, memory, restarts>>

---------------------------------------------------------------------------
(* Restarts *)

(* A record of the store enters the mirror unless a hook of this process    *)
(* wrote its root; the row only when no hook has served one.                *)
Reseed ==
  /\ ~seeded
  /\ seeded' = TRUE
  /\ records' = [r \in DOMAIN store.records \cup DOMAIN records |->
                   IF r \in DOMAIN records THEN records[r] ELSE store.records[r]]
  /\ latest' = IF latest = NoRow THEN store.latest ELSE latest
  /\ UNCHANGED <<l1Vars, calls, store, batch, restarts>>

(* The memory is lost, and so is an open write batch: its report is made    *)
(* again.  The runner may also catch up from an earlier point of the        *)
(* canonical chain and report what the store already has once more.         *)
Restart ==
  /\ restarts < MaxRestarts
  /\ restarts' = restarts + 1
  /\ records' = Nothing
  /\ latest' = NoRow
  /\ batch' = NoBatch
  /\ seeded' = FALSE
  /\ \/ UNCHANGED calls
     \/ /\ \A i \in 1..Len(calls) : calls[i].hook = "apply"
        /\ \E n \in 0..(Len(l1) - Len(calls)) :
             calls' = [i \in 1..(Len(l1) - n) |-> Apply(l1[n + i])]
  /\ UNCHANGED <<l1Vars, store>>

Next ==
  \/ \E f \in Families : SettleExits(f)
  \/ \E root \in Unpaired \cup {NoRoot} : SettleObserved(root)
  \/ \E f \in Families : \E leaf \in 1..Len(Leaves[f]) : Claim(f, leaf)
  \/ Reorg
  \/ Hook
  \/ Commit
  \/ Reseed
  \/ Restart

Spec == Init /\ [][Next]_vars

---------------------------------------------------------------------------
(* Properties *)

(* Every report has been worked off by a running indexer. *)
Quiet == seeded /\ calls = <<>>

ClaimsOf(f) == AtPlaces(l1, { i \in 1..Len(l1) : IsClaim(l1[i], f) })
SettlementOf(f) == l1[CHOOSE i \in 1..Len(l1) : l1[i].kind = "Exits" /\ l1[i].family = f]

(* What the canonical chain says of a settled family: the terminal claim     *)
(* creates no output, so it changes neither the root nor the anchor.         *)
Expected(f) ==
  LET claims == ClaimsOf(f)
      size   == Len(Leaves[f])
      moves  == IF Len(claims) < size THEN Len(claims) ELSE size - 1
      paid   == SettlementOf(f).tx
  IN  [root   |-> Root(Leaves[f], { claims[i].leaf : i \in 1..moves }),
       record |-> [settlement_txid |-> IF moves = 0 THEN paid ELSE claims[moves].tx,
                   daa_score |-> paid,
                   unclaimed |-> size - Len(claims),
                   leaves |-> Leaves[f],
                   emptied |-> [i \in 1..Len(claims) |->
                                  [leaf_index |-> claims[i].leaf, spend_txid |-> claims[i].tx]]]]

Settled == { f \in Families : IsSettled(f) }

(* Once the reports are worked off, the records served are those of the      *)
(* canonical chain: each settled family once, under its current root, with   *)
(* its live permission output, its unclaimed leaves and its claims in        *)
(* order, after any reorgs, restarts and catch-up reports; an orphaned       *)
(* family is not served ("so remaining leaves stay claimable; reorg reverts  *)
(* invert the advance, and orphaned settlements hide until their             *)
(* re-confirmation re-anchors them", node/src/exit_index.rs:5-8).            *)
ServedIsCanonical ==
  Quiet => /\ DOMAIN store.records = { Expected(f).root : f \in Settled }
           /\ \A f \in Settled : store.records[Expected(f).root] = Expected(f).record

(* The spent marks left are those of the canonical claims                    *)
(* (mark_leaf_spent, unmark_leaf_spent).                                     *)
MarksAreCanonical ==
  Quiet => LET claims == { l1[i] : i \in { i \in 1..Len(l1) : l1[i].kind = "Claim" } }
           IN  /\ DOMAIN store.marks = { Mark(e) : e \in claims }
               /\ \A e \in claims : store.marks[Mark(e)] = e.tx

(* The mirror is write-through: with the open batch committed, or without    *)
(* one, the store holds the records and the row of the mirror, so a restart  *)
(* loses nothing (reseed).                                                   *)
MirrorIsStore ==
  seeded => IF batch.open THEN batch.records = records /\ batch.latest = latest
            ELSE store.records = records /\ store.latest = latest

EmitsExits(e) ==
  e.kind = "Exits" \/ (e.kind = "Observed" /\ e.permission_spk_hash # NoRoot)
Commitment(e) == IF e.kind = "Exits" THEN e.family ELSE e.permission_spk_hash

(* A settlement without exits "leaves the covenant's permission tree         *)
(* unchanged, so the last known root is the honest value to serve"           *)
(* (node/src/exit_index.rs:115-117), while an observed settlement that       *)
(* emitted exits "carries its own fresh permission commitment" (:785): the   *)
(* row an observed settlement leaves has the commitment of the newest        *)
(* settlement of the chain that emitted exits.                               *)
CarriedRootIsHonest ==
  (Quiet /\ l1 # <<>> /\ l1[Len(l1)].kind = "Observed") =>
    LET exits == { i \in 1..Len(l1) : EmitsExits(l1[i]) }
    IN  store.latest =
          [txid |-> l1[Len(l1)].tx,
           permission_root |->
             IF exits = {} THEN NoRoot
             ELSE Commitment(l1[CHOOSE i \in exits : \A j \in exits : j <= i])]

(* The same where no reorg took a settlement back. *)
CarriedRootIsHonestAhead == reorgs = 0 => CarriedRootIsHonest

(* "Each exit family keeps one live ExitRecord that advances to the claim's   *)
(* continuation on every permission spend, so remaining leaves stay          *)
(* claimable" (node/src/exit_index.rs:4-5), and "a family settled before     *)
(* this process keeps advancing on its next spend instead of hiding"         *)
(* (:41-42): a settled family with leaves left is served under its live      *)
(* permission output.                                                        *)
RemainingLeavesStayClaimable ==
  Quiet => \A f \in { f \in Settled : Expected(f).record.unclaimed > 0 } :
             \E r \in DOMAIN store.records :
               store.records[r].settlement_txid = Expected(f).record.settlement_txid

=============================================================================
