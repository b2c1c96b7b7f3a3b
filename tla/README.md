# vprog-tictactoe in TLA+

A verification development of the staked tic-tac-toe program of this repository: TLA+ models of
its parts, TLC configurations that check them on small instances, and TLAPS proofs of the results
that should hold for every instance. Paths below are relative to the repository's root; `game.rs`
and `user.rs` alone mean `guest/src/program/action/game.rs` and `.../action/user.rs`.

## The system

Players stake coins on tic-tac-toe matches. Every operation is an L1 transaction that carries a
list of *actions* and *signers*; a guest program executes the actions on *resources* (users,
games, one config), and its execution is proved and settled on L1. A node indexes what the guest
did and serves it; a web client builds and submits transactions from what the node serves.

| component | state | operations | interacts with |
|---|---|---|---|
| rules and match (`rules.rs`, `resources/game.rs`, `game.rs`) | one `GameBody`: score, clock stamp, two queues of pre-commits, board | CreateGame, JoinGame, Turn (with its cascade of queued moves), Timeout | called by the run loop; pays through the ledger when a match ends |
| pre-commit ring (`PendingQueue`) | four cells, head, count | push, pop, peek, clear | part of a game |
| ledger actions (`action/*.rs`) | balances, locks, statistics, stakes, the config | Transfer, UpdateUserLock, Deposit, Withdraw, Init, Update, stakes and settlement | run loop, L1 outputs in, L1 exits out |
| run loop and signers (`run.rs`, `runtime/`) | pending signers, unlockers, consumed outputs, per-slot lifecycle | resolve signers, apply the actions in order, fail or succeed | framework commits or discards |
| resource combinators (`resources/ext.rs`, `user.rs`, `config.rs`) | bytes of a resource, declared access | view, modify, init, set lock | every action |
| deposit policy | none | which user an L1 output credits, minimum to create one | Deposit, Transfer |
| codecs (`action.rs`, `action/encode.rs`, `ix.rs`, `lock_codec.rs`) | none | decode and encode actions, signers, locks | run loop, clients |
| browser encoder (`encoder-wasm/`) | none | build and sign the carrier of an action, or a claim | web client, claim example |
| indexer (`node/src/indexer.rs`) | status and player indexes over versioned resources | apply a diff, revert it on a reorg, scan | scheduler, data API |
| exit index (`node/src/exit_index.rs`, `da_store.rs`) | exit records, spent marks, claim frontier, a mirror in memory | exits committed, settled, spent, and the reverts of each; reseed at start | observer callbacks, data API |
| data API and node wiring (`da.rs`, `main.rs`, `config.rs`) | none of their own | read handlers, start-up order | indexer, exit index |
| scenario driver (`driver/src/`) | the step it has come to | a scripted match on a devnet | L1 |
| claim example (`driver/examples/claim.rs`) | the view it fetched | claim one exit of player A and wait for the payout | data API, L1 |
| web client (`web/src/`) | optimistic local moves, polled state, wallet | enter a match, dispatch turns, claim exits | data API, L1 |

### What is hard, and what makes each part correct

* **Match.** One Turn may play many queued moves, drop stale ones and close several rounds; a
  Timeout closes a round and starts the same cascade; Turns of two players and Timeouts of third
  parties come in any order, several in one block (same clock value). Correct when queues are FIFO
  and lossless, no seat's queued move waits while it is that seat's turn, boards stay legal, and
  the result is announced at the first moment it is certain.
* **Ring.** Wrap-around, full and empty, stale bytes behind the cursors. Correct when it is a
  bounded FIFO.
* **Ledger and run loop.** Actions of one transaction see each other's effects, signers are
  resolved once and lazily while locks rotate, any action may fail after it wrote. Correct when
  value is conserved, a debit or a rotation opened the lock of that moment, writes were declared,
  a match that is played can always be settled and the statistics tell the games.
* **Indexer and its scans.** Reorgs roll the canonical chain back while the store still holds what
  it committed; reads are spread over several moments. Correct when both indexes say what the
  stored history says, and a reader sees only canonical entries and misses none that stood still.
* **Exit index.** Reorgs, restarts, a mirror and a store that change at different moments, hooks
  that run before reseed. Correct when what is served is what the canonical L1 chain says.
* **Codecs and builders.** Every index in an instruction is a position in a list sorted by hashes,
  computed on one side and read on the other. Correct when the guest reads what the client meant.
* **Clients.** They act on state they read earlier, and L1's acceptance of a carrier says nothing of
  the guest's. Correct when an entry fails only because it was overtaken, a legal turn never fails,
  and the script reaches its end by the order of its carriers alone.
* **Claims.** Claimers race for one permission output and one pool. Correct when each leaf is paid
  once, whoever claims, and what is left stays claimable.
* **Locks.** Keys of several resources are collected in one list over several rounds. Correct when a
  lock opens for those who signed for this resource, all of them and nobody else.

`PROJECT.json` lists these as hazards, each at its line, with the property that watches it or
the reason there is none yet.

## Modules

| module | models | kind |
|---|---|---|
| `Game` | `rules.rs`, `GameBody`, the pure part of `game.rs` | operators on one game value, no variables |
| `Series` | what a match promises: a series decided at the first certain moment | abstract specification |
| `Match` | one match through time: JoinGame, Turn, Timeout, the clock, changes of `turn_ttl` | state machine over `Game`; implements `Series` |
| `Fifo` | what the queue promises | abstract specification |
| `PendingRing` | `PendingQueue` | state machine; implements `Fifo` |
| `Ledger` | `run.rs` and the value, lock and config side of every action | state machine |
| `Indexer` | `index_diff`, `revert_diff` under the canonical chain and the store that follows it | state machine |
| `GameList` | `scan_games_by_status`, `get_games` | reader over `Indexer` |
| `EventStream` | `scan_player_events` and its cursor | reader over `Indexer` |
| `Readers` | the two readers over one node | composes `Indexer`, `GameList`, `EventStream` |
| `ExitIndex` | the hooks of `exit_index.rs`, reseed, restarts, L1 | state machine |
| `PermissionTree` | `exit_views` of `da_store.rs` | pure algorithm over one family |
| `Claims` | the claim example and the claim rows of the browser against L1 | state machine over `PermissionTree` |
| `Wire` | the encoders and decoders of actions, signers and locks, the access lists | operators |
| `Carriers` | the payloads of the driver, the transaction builders of the browser | operators over `Wire` |
| `Lane` | driver, browser and others sending carriers to the guest that executes them | composes `Carriers`, `Ledger`, `Game` |
| `Auth` | signer resolution, buckets, locks and their storage, with multisig | state machine |
| `MCMatch`, `MCLedger`, `MCReaders`, `MCExitIndex`, `MCClaims`, `MCLane`, `MCAuth` | boards, signer sets, games, leaves, configurations for TLC | model-checking instances |
| `FoldProofs` | induction over numbers and finite sets, sums over sets, sorted pages | lemmas the other proofs use |
| `MatchProofs` (with the ring), `LedgerProofs`, `AuthProofs`, `ReadersProofs` (with the indexer), `ExitIndexProofs`, `ClaimsProofs` (with the tree), `LaneProofs` (the codec, the lane) | theorems | proofs |

### Game and Match

A game is a record with the fields of `GameBody` except the stake, which `Ledger` has. The queues
are sequences (justified by `PendingRing`). A handler becomes a guard `Can...` (its `Err`
returns) and an operator that gives the state it leaves. `drain_pending` is a loop; an iteration
is `DrainOne`, which leaves the game alone once the loop has ended, so iterating it past the
end is harmless. Each other iteration pops one of at most `2 * PENDING_CAP` entries, so
`DrainPending` is eight iterations; that eight suffice is proved (`DrainPendingDrains`), from the
assumption `PENDING_CAP \in 1..4`. Iterating by composition rather than by a recursive operator
keeps the module within reach of the prover. `Winner` chooses any mark with a line where the code
takes the first line in table order; `LiveBoard` shows that the choice never exists.

`Match` has one variable for the game, one for the chain clock (the DAA score, non-decreasing,
shared by the transactions of a block) and one for the config's `turn_ttl`. Its initial states
are what a CreateGame leaves. A transaction of several actions is a sequence of steps at one
clock value. Signatures and declared access only restrict the steps and are in `Ledger`; here
every player may move whenever the game lets it.

### Ledger

`store` holds the committed resources, `work` the copy a running transaction changes, `tx` the
transaction: signers still pending, unlockers resolved so far, declared access, the value each of
its outputs pays to the covenant, the outputs already credited, the exits emitted. `Begin` loads
a transaction; each action step first runs a round of `resolve_pending` (`Ready`, `Verifies`,
`Auth`), then the handler; `Commit` publishes, `Reject` and `Fails` lead to `Rollback`. The eager
round before the first action is the round of the first action, since nothing happens in between.
A handler that fails after it wrote leaves its partial writes in `work` until the rollback
(`Fails`); one that fails before is a `Reject`, which is possible at any time.

Abstractions: a user is named by the lock it is born with (its address is a hash of it) and a
game by its creator and the creator's `games_started`, which is what `derive_game_resource`
hashes; hashes are injective. Locks are Schnorr keys or the open lock; multisig locks are in
`Auth`. The slot lifecycle New/Live is the `live` flag (no action tears a resource down, so
Deleted never occurs). Boards are not in `Ledger`: a Turn or a Timeout of a playing game leaves it
playing or ends it with any result, a superset of what `Match` allows, and the settlement follows
in the same step; `Lane` puts the boards back. `held` is the value the covenant received for credited deposits less the exits
of committed transactions. Outputs that reach the covenant without a credited deposit stay outside
`held`; nobody on L2 owns them. A failing exit sink (`withdraw: emit failed`) is a `Reject`.
A transaction commits after at least one action; the code accepts one without any, which changes
nothing.

### Indexer, GameList, EventStream and Readers

The framework executes batches, each under a version never used again, and appends them to the
canonical chain (`Execute`, `Reorg`); the store follows one batch at a time, reverting orphaned
batches newest first (`IndexBatch`, `RevertBatch`), and the indexer's hook runs once for each game
the batch wrote. A batch is its version and the state it leaves: the body of each game, reduced to
what the index reads (state, joiner; the creator is fixed by the game's id), and the version that
wrote it. `status` holds the entries of the three buckets, `events` the keys of the event log. One
batch may take a game from nothing to finished, as the guest may within one block.

`GameList` is a caller of `/api/games?status=`: each page takes a snapshot of the chain, scans the
index, then reads the bodies one at a time from the live store; the caller goes on, with the last
id as cursor, until a page comes back short; pages and cursor are those of the scan (a game whose
body is gone by then is missing from the response, not from the page). One scan sees one state of the index (RocksDB
iterators read a snapshot). The status of a page and of a body may differ, because nothing ties the
reads together. `present` and `reverted` only observe. `EventStream` follows one player's log in
the same way. `Readers` puts either of them beside the node.

### ExitIndex, PermissionTree and Claims

`l1` is the canonical chain of settlements and claims, `calls` the reports the runner still has to
make, `records` and `latest` the mirror, `store` the keyspace, `batch` what the open write batch
will leave. A hook changes the mirror at once and stages its writes; `Commit` publishes them
before the next report. `Reorg` takes any number of transactions back and reports it either newest
first or, with `PairingFirst`, with the settlements' reverts before those of the claims, which
is the order the comment at `exit_index.rs:199` provides for. `SettleObserved` is a settlement the
runner has no bundle for: its commitment is zero when it emits no exits, and one of `Unpaired` when it
emits exits. The index has no record of those exits, and their claims are left out. `Restart` loses mirror and batch; the
interrupted report is made again, and the runner may replay the chain from any earlier point. `Reseed` is one step because
it holds the mirror's lock, and may fall anywhere if `SeedFirst` is false, which is what
`main.rs:30-45` allows. A root is the row of leaves it commits to; a transaction mined again has a new id. The index of an
outpoint moves with its transaction id and is left out, as are amounts and partial deducts.

`PermissionTree` replaces that abstraction by the tree: hashes are terms, `Siblings` and
`FullClaimRoot` follow `exit_views` level by level. The reference, `RootWithout`, is the root of the
tree over the leaves that are left, as `PermissionTreeView::from_leaves` builds it when none is
claimed. The code folds one path at a time, over siblings it picked level by level; `EveryLeafClaimable`
compares that with the reference in every state of `Claims`.

`Claims` is one settled family on L1: `chain` is its claims, its current root, the pool of delegate
outputs and the purses of the clients; `leaves`, `emptied` and `root` are what the node has indexed
of it, which may lag behind. Each client goes through the code's awaits one at a time: the view it
fetched, the pool, its purse, the submission. L1's script check, mempool and blocks are external and
taken as the code uses them: a claim names the permission output, the path of its leaf and the
outputs it spends, and enters the mempool if those are unspent. The output of the n-th claim is
called n, since a family has one at a time. The two claims differ as the code does: the example
takes the largest delegates that suffice, the browser takes all; the example waits for its payout,
the browser marks its row. Delegate change and purse change come back as outputs of their own.

### Wire, Carriers and Lane

In `Wire` a carrier's instruction stream is a sequence of fields with their width and value. A
decoder that meets another width fails, where the code would read across field boundaries; no
property is about what it would read. `ActionBody` lists the fields of each action in the order
`decode_action` reads them, and the encoders list them in theirs: they are separate definitions, as
they are in the code. `rank` is the order of the resource ids, which are hashes: any order may occur.
`Carriers` is one operator for each payload builder of `scenario.rs` and each transaction builder of
`ops.rs`; the L1 side of a transaction (funding, change, fee, mass) is left out but for the value of
the deposit output.

`Lane` extends `Ledger` with the boards (`table` and its working copy `playing`, kept by the
operators of `Game`), the mempool and the clients. The mempool is a bag: a client may send the same
carrier twice before L1 accepts either, and both are executed. `Accept` decodes the carrier and starts the
ledger's transaction; each `Handle...` is the decoded action applied to both halves; `GuestRejects`
happens when the next action does not apply, which `Applicable` decides by ENABLED: here a
transaction that can go on does go on. The driver's script sends the next carrier when L1 has accepted the
last one; `ScriptGivesUp` is the end of its retries. The browser reads the account (`FetchAccount`)
and submits later (`SubmitEntry`), turns one at a time. A carrier in the mempool also carries what
its sender meant (`meant`, `about`), which only the properties read. Reorgs are not in `Lane`.

### Auth

The same run loop as `Ledger`, with less value and more locks: a lock is a tag and a body, stored
behind the fixed fields of a user or config, parsed whenever it is viewed. Signers are of the kinds
of `signer_variants.rs`, pointers (which wait until their resource bears a lock) and witnesses
(which do not). `resolve_pending` sorts its buckets with an unstable sort, so `Sorted` is the set of
all orders it may produce, and with two entries for one resource the lookup may come upon either.
Bodies are sequences of small numbers instead of bytes; a threshold, a count and ascending keys are
checked as the codec does. Withdraw and the game actions are left out: they unlock users in the same
way as Transfer and write no lock.

## Runs

All bounds are CONSTANTS; the comment beside each names it as a bound.

| run | shows | instance and why it is enough |
|---|---|---|
| `match_rounds` | `TypeOK`, `QueueDrained`, `ResultIsCertain`, `LiveBoard`, `QueuesAreFifo`, `OnlyAnnouncedCells`, `NoLostPrecommit`, and that `Match` implements `Series` | four cells, three lines on which either seat can win and a round can be drawn; queues of the code's capacity, so they fill up and one Turn cascades over several rounds; 1 to 3 rounds, so clinches, draws and last rounds occur; `U8_MAX = 3` puts the counters at their limit |
| `match_ends` | `EndsClean`, `RepeatedTimeoutRejects`, `JoinedMatchEnds` (liveness) | `turn_ttl` changes between 2 and a value whose deadline overflows `U64_MAX = 30`; `MaxNow = 24` leaves each ply of two rounds its longest wait, so the bound never stops the clock before the match ends |
| `pending_ring` | `PendingRing` implements `Fifo` | the code's four slots and three values, complete |
| `ledger_money` | `TypeOK`, `Conserved`, `CanSettle`, `StatsTell` | two users, two games each, a supply equal to `U64_MAX = 4`, so every checked addition is at its limit; one action per transaction, everything signed and writable |
| `ledger_tx` | `CurrentLockOpened`, `WritesAreDeclared` | two actions per transaction, zero to two signers of both kinds, lock rotations, and every access list with one resource read-only or absent |
| `ledger_read_only_config` | a comment the code contradicts (below) | as `ledger_tx` |
| `readers` | `TypeOK`, `StatusIsCurrent`, `EventsAreHistory` of `Indexer`; `ListedAreCanonical`, `UntouchedGamesAreListed`, `ServedIsNotBehind` of `GameList`; `StreamHasNoGap` of `EventStream` | two games, every batch content, three versions, reorgs to any depth: entries that stay in their bucket, move, come back and are written again; pages of one: a walk spans several pages with commits and reverts between every two reads, a cursor survives the removal of its own entry |
| `exit_index` | `ServedIsCanonical`, `MarksAreCanonical`, `MirrorIsStore`, `CarriedRootIsHonestAhead` | a family of two leaves and one of one, five transactions, one reorg, one restart: settle, claim all, revert and settle again, with a replay in between; observed settlements with and without a commitment of their own |
| `exit_index_late_seed` | comments the code contradicts (below) | two transactions and one restart, with hooks allowed before reseed |
| `claims` | `EveryLeafClaimable`, `PaysEachLeafOnce`, `CompleteMeansPaid`, `QuietRowsClaim` | families of one, two, three and five leaves (trees padded at one and at two levels, leaves of equal amount, two leaves of one client); a pool of three outputs which another spender may take from; a purse of one output and one of two, of which one has the amount of a leaf; a fee that fits and one that does not fit every purse |
| `lane` | `MeantIsRead`, `ScriptDrains`, `FreshEntryApplies`, `LegalTurnApplies` | the code's nine cells; three orders of ids, of which one is another read backwards, so that every pair of ids occurs in both orders; six scenarios: a remainder that reaches the minimum withdrawal, one that a transfer keeps below it, a pot below it, a match longer than the script, a number of rounds that wraps to one; the whole script beside up to three carriers of the browser and one of others |
| `auth` | `UnlockIsSigned`, `SignersSuffice`, `SlotsStayAddressed` | a config and two users born with multisig locks, one that takes both of two keys and one that takes its only key; signers for each of the three in every kind, wrong keys and both orders, together and apart; two actions per transaction, so that a second round meets locks the first action wrote |

Deadlock checking is off where the system may stop: a finished match takes no more transactions,
a client that has exited sends no more, and the node's models end when their bounds on versions or
transactions are used up. `Auth` can always begin another transaction, and its run checks that.
Symmetry is over the users, in runs without liveness, and no definition tells two users apart.

The supply bound in `Ledger` stands for a fact about L1: the coins that exist, hence the value in
the covenant, fit a u64. `CanSettle` rests on it; without it the pot of a match could overflow.

**Fairness.** `JoinedMatchEnds` assumes that time passes (`WF` on `Tick`: blocks keep coming)
and that an expired turn is eventually swept. Timeout needs no signature, so anyone may send it, but
it must attach both players' users (`game.rs:206-208`), and no client of this repository sends it:
the sweeper is whoever wants the pot. Nothing is assumed of the players' own turns. The property is
stated for behaviours in which the `turn_ttl` finally lets a turn expire; with one near `u64::MAX`
the deadline overflows, Timeout fails and the match waits for a config Update. An open game that
nobody joins keeps its stake for good: no action cancels it. The other runs state no liveness:
what their clients must reach is stated on states (`ScriptDrains`: when the script has sent all and
L1 has executed all, the match is settled and the money withdrawn).

**Mutants.** Each property of a passing run is paired in `PROJECT.json` with a mutant: a
definition followed, in its module, by a suffix that names a plausible bug (`DrainOneLastFirst`,
`DrainOneStopsAtStale`, ...) defined just before the true one. With the mutant in its place the
run reports the property violated. No specification uses a mutant.

## Proofs

| theorem | for every value of the constants |
|---|---|
| `MatchProofs!RingType` | the cursors stay in the array |
| `MatchProofs!RingIsFifo` | the ring implements the queue, for any capacity |
| `MatchProofs!DrainPendingDrains` | the cascade, run to its end, leaves no move to apply and keeps the match invariant |
| `MatchProofs!MatchType`, `MatchDrained`, `MatchCertain`, `MatchEndsClean` | `TypeOK`, `QueueDrained`, `ResultIsCertain`, `EndsClean` |
| `MatchProofs!MatchIsSeries` | `Match` implements `Series` (`IsSeries`) |
| `MatchProofs!MatchTimesOutOnce` | `RepeatedTimeoutRejects` |
| `MatchProofs!MatchLiveBoard` | `LiveBoard`, for every board and every set of lines |
| `MatchProofs!MatchQueuesAreFifo`, `MatchLosesNoPrecommit`, `MatchPlaysAnnouncedCells` | `QueuesAreFifo`, `NoLostPrecommit`, `OnlyAnnouncedCells` |
| `LedgerProofs!LedgerType`, `LedgerLocks`, `LedgerWrites` | `TypeOK`, `CurrentLockOpened`, `WritesAreDeclared` |
| `LedgerProofs!LedgerMoney`, `LedgerConserves`, `LedgerSettles`, `LedgerStats` | the money's invariant; `Conserved`, `CanSettle`, `StatsTell`, for any number of users and games |
| `LaneProofs!StreamIsRead` | the guest reads a well-formed payload back as it was encoded, for any number of actions and signers |
| `LaneProofs!LaneReads` | `MeantIsRead`, for every order of the ids and every number of carriers |
| `LaneProofs!LaneInvariant`, `LaneIsLedger`, `LaneLedger` | boards and ledger agree; `Lane` takes only steps of `AnySpec`, so what is proved of the ledger holds of decoded carriers |
| `AuthProofs!AuthSlots`, `AuthUnlocks`, `AuthSignersSuffice` | `SlotsStayAddressed`, `UnlockIsSigned`, `SignersSuffice` |
| `ReadersProofs!IndexType`, `StatusFollowsStore`, `EventsFollowStore` | `TypeOK`, `StatusIsCurrent`, `EventsAreHistory` of `Indexer` |
| `ReadersProofs!FollowerMissesNothing` | `StreamHasNoGap`, for any page size and any number of reorgs |
| `ReadersProofs!PagesAreCanonical`, `WalksAreComplete`, `BodiesAreNotBehind` | `ListedAreCanonical`, `UntouchedGamesAreListed`, `ServedIsNotBehind` |
| `ExitIndexProofs!MirrorIsWrittenThrough` | `MirrorIsStore`, if no hook precedes reseed |
| `ExitIndexProofs!ReportsFollowChain` | what the runner still has to report is a suffix of the chain behind the newest revert |
| `ExitIndexProofs!CarriedRootsAreHonest` | `CarriedRootIsHonestAhead`, if no hook precedes reseed |
| `ExitIndexProofs!MarksFollowClaims` | `MarksAreCanonical`, if no two families ever share a root |
| `ExitIndexProofs!RecordsFollowChain` | `ServedIsCanonical`, for any number of families, claims, reorgs and restarts, if no hook precedes reseed and no two families ever share a root |
| `ClaimsProofs!LeavesStayClaimable` | `EveryLeafClaimable`, for a family of any number of leaves |
| `ClaimsProofs!ClaimsInvariant`, `EachLeafPaidOnce`, `CompleteIsPaid` | the invariant of the claims; `PaysEachLeafOnce`, `CompleteMeansPaid` |
| `ClaimsProofs!RowsCanBeClaimed` | `QuietRowsClaim`, if the deposits cover every family and a sompi more |

*Ring.* `RingTypeOK` is inductive. For the refinement a push must write the slot after the last
queued entry (`SlotWraps`, `TailIsFree`: two entries less than one lap apart have different
slots) and a pop must shift every index by one.

*Match.* None of its properties is inductive. `MatchInv` adds to the types that a score which
does not decide the match has rounds left (`Closed`, `Sound`: the decided states are exactly
those `match_outcome` names, so that the u8 sum of the counters never wraps) and that the queue of the seat
to move is empty. `CoreInv`, without the last part, is kept by a move, a closed round and one
iteration of the cascade; `DrainOneSettles` shows that an iteration either finds the cascade
ended or consumes an entry; eight of them therefore end it. `OutcomeIsCertain` relates
`match_outcome` to the definition of certainty in `Series`, which quantifies over every way to
play the remaining rounds.

*Match as a series.* `Continues` relates a match to what one transaction has made of it so far: the
same players and number of rounds, a stamp that is the old one or the chain's, a score that only
grows, and, if the match has ended, a score one round earlier that still was open. A move, a pop and
a forfeit continue, and continuing is transitive as long as the match is played (`ContinuesOn`), so
the whole cascade is one step of `Series` (`SeriesSteps`) even when it closes several rounds. The
same relation gives `EndsClean`, and, with a stamp that starts at the chain's clock,
`RepeatedTimeoutRejects`.

*Board and queues.* `Live` is `LiveBoard` of a game value. The mark of the seat to move is X when the
marks are level and O when X is ahead (`MoverMark`), so a move keeps the balance, and a move that
leaves a line or a full board closes the round and clears the board (`ApplyMoveLives`). For the
action properties `Cascades` relates a game to what a turn of one cell and some iterations of
the cascade have made of it: each queue has lost a prefix (`Drops`), and while the round is the same
every lost head names a taken cell and every new mark is the turn's or was in its owner's queue.
One more iteration keeps the relation (`CascadeGoesOn`); the round counter only grows, so a cascade
that has closed a round never comes back to the old one.

*Ledger.* `LedgerInv` adds to the types that between transactions `work` is `store`, that every
unlocker came from a signer the transaction carries with the same key, that resources the
transaction did not declare writable still have their committed value in `work`, and that a
game being played or finished has a joiner. `CurrentLockOpened` and `WritesAreDeclared` follow step by step.

All theorems of the ledger are proved of `AnySpec`, in which an action may carry any amount of a u64, any lock,
any signers and any declared access, and hence of `Spec`, whose constants choose some of them.

*The money.* `MoneyInv` says of the committed resources, and of a running transaction's copy of them, that
they tell one story (`Told`): who is not there yet has nothing, a user's games are numbered from 0,
a game has its two players, and the counters are the cardinalities of the games finished and
won. To this it adds what the covenant holds. For a running transaction that is `Covered`: what users own and have at stake
is what was held, plus the outputs credited so far, less the exits emitted; and all its outputs
together still fit the supply. Each handler changes one or two terms of a sum over the users or the
games (`SumChange`), so each step is an equation between a few numbers. That settlement fits the u64 is then a consequence: the
two balances and the pot are a part of a sum bounded by the supply (`SumPart`), and a counter is bounded
by the number of games.

*Codec.* A decoder is a chain of reads, each taking a field from the front of what the last one left. Such a chain is
determined by its buffer (`ReadingIsChain`), so it is enough to exhibit one: for each action, the
rows left when its fields are peeled off one by one (`InitDecodes` to `TimeoutDecodes`), whatever follows it in the
stream. A list is a chain of entries over what remains of the flattened rows (`ListRead`), and the
regions of a payload follow one another the same way (`StreamIsRead`).

*Lane.* For `MeantIsRead` each builder must be shown to say what its client means (`Says`: `InitSays` to
`SweepWithPlayersSays`). Where two entries are sorted by a comparison this is two cases (`PairPoints`); in a longer list the
place of an id is the number of ids below it, and no two ids have the same (`PlacesDiffer`, `SortedPoints`). This
needs that ids differ in rank, that is, that no two resource ids collide. What a
builder is given must be in range too, and the browser takes it from the state it reads: a stake from the game, the opponent
from the board. So the invariant must hold the ledger's (`MoneyInv`) and say that board and ledger
entry of a game tell the same state and players (`BoardsAgree`), although two pieces of code write
them: a board keeps its players and, unless it ends, its state over a move, a closed round and the
whole cascade (`KeepsSeats`), and a handler that does not fail leaves both alike (`PutsFits`, `PlaysFits`). Of
the running transaction it says that the actions left have arguments their handlers take (`TodoFine`). With
this each step of `Lane` is one of `AnySpec` (`LaneStep`).

*Auth.* `AuthInv` says of the committed resources and of the running transaction's copy what
`SlotsStayAddressed` says of the former. One resource is written at a time (`WriteInPlace`): a birth
lock, a changed balance, a rotated lock and a config each belong where they are put, and only a
resource that parses as a user acts (`ActorThere`). For `UnlockIsSigned`, `TxBacked` says that every
entry of either bucket, and every signer still pending, goes back to a signer of the transaction. A round is
a fold over the pending signers (`RoundOf`), so this is an induction over the sets of their positions;
each signer adds to a bucket only keys it has itself (`ResolveOneBacked`), and no order the unstable sort may choose adds
one (`SortedBacked`).

`SignersSuffice` is the converse, and about order: nothing that was signed is lost. `GatherInv` says of
each resource that either all keys for it are in the bucket, in the order of the wire (`Gathered`), or all of
its signers still wait, in that order, and the bucket has none of it (`Awaited`). A round keeps the second
while the resource bears no lock (`RoundKeeps`), and turns it into the first as soon as it does (`RoundGathers`). The latter
holds because `append_multisig_contrib` looks at the last entry only and a section's resource indexes
never descend: between two signers of a resource there is none of another, so while more are to come its
entry is the last (`OnlyLast`). Whoever waits keeps the section's order (`Waiting`), so this is true of a later round
too. A resource that pointers and witnesses sign for together (`Mixed`) can be in neither state, and that is the case
the property leaves out.

*Indexer.* A `History` is a chain of batches from the empty state with growing versions, in which
a batch keeps what it does not write and every game's version is that of a batch still there.
Chain and store are histories (`HistoryPrefix` for reorgs and reverts, `HistoryAppend` for
batches, `CommitExtends` because a canonical store is a prefix of the chain). The entry of a game
survives a commit that leaves it in its bucket (`EntryOutlivesBatch`) and a revert that does not
touch it; a restored entry carries the version of a batch that `History` says is still stored.
For the log, `NewestTells`: what a batch told is disjoint from what the earlier ones told, so
taking it out restores the log exactly.

*Readers.* Chain, store and every snapshot a reader holds are branches of one tree: where two of them
have a batch of the same version, they agree up to it (`Branches`). A batch takes a new version,
a reorg and a revert only cut, so the node keeps this by itself (`NodeMoves`). A follower then has every
canonical event up to its cursor, even while the store is behind or still on the orphaned branch: an
event the snapshot knows comes from a batch on both branches, hence an event of the reader's snapshot that is
not after the cursor was served (`FollowInv`). For the walk, `WholeInv` says of each phase that a game present
throughout and not reverted has been listed or lies after the cursor, and `TimelyInv` that a game only ever
moves on through the buckets along the chain (`Progress`), so that a body read later is not behind.
A page is the first `Limit` of a sorted set; that such a list has, in order, just what it should is
`FirstOfListing`, by induction over the set.

*Exit index.* Before reseed the mirror is empty and no batch is open; afterwards every hook writes
the same to mirror and batch (`HookWritesThrough`), which needs that dropping an absent key changes
nothing where a spend hides an unknown family. The theorem assumes `SeedFirst`, and
`exit_index_late_seed` shows what happens without.

*Reports.* `CallsInv`: the reports after the newest revert are those of the newest transactions of the chain, in
order; without a reorg there is no revert at all. A restart, which prepends a replay from any earlier
point, keeps this, since what it prepends ends where the rest begins. On this rest the other two. Without a reorg the stored row has the commitment of the
last settlement that emitted exits among the transactions reported, or is about to get a later one (`AheadInv`). A mark is settled by the
last report about its key (`MarkTold`): if it is an application, its claim is on the chain; if it
is a revert, no claim of that key is. `MarksAreCanonical` is the case without reports. It needs that
the chain never has two claims with one key, hence the hypothesis `RootsDiffer`: a mark is keyed by
the root of the leaves and the index in them, and families with the same leaves would share it
(a hazard in `PROJECT.json`). The instance of `exit_index` satisfies it.

*Records.* The chain tells a story of each family (`Stories`): whether it is settled, by which transaction, and its
claims so far. A record stands at a place of a story (`Stands`): the root, anchor, unclaimed leaves and spends
after the first j claims. The last claim leaves the root as it was, so two places may share a root, but no others do.
While replayed reports are worked off the records are not those of any one moment: a settlement reported again puts
a second record of its family beside the advanced one, and a claim reported again moves it up or
takes it out. So the invariant says only that every record stands somewhere *between* two moments and that no family settled
by the first of them is missing (`Between`); where the two moments are one, the records are the canonical ones.
An application moves the first moment on and keeps the second (`ApplyKeeps`). A revert needs the two to be one and takes both
back (`RevertKeeps`), and they are one exactly when the reports before it are worked off. Hence the invariant is about
the future (`ServedInv`): after any first part of the reports that ends past the newest revert, the records will lie
between the moment this part has come to and the newest one (`Meets`). A new transaction is an application more at the end
(`MeetsMine`), a commit cuts the first report off (`MeetsCommit`), a restart inserts applications that start from an
earlier moment (`MeetsRestart`), and a reorg puts its reverts where the moments are one (`MeetsReorg`). In order, the
reverts walk the stories back along the chain (`WalkInOrder`). With the settlements first they go through stories
of no chain: the families still settled keep all their claims while others vanish, and a claim of a vanished family
finds no record (`WalkSettlements`, `WalkClaims`). The hypothesis `RootsTell` is `RootsDiffer` with,
in one family, different roots for different leaves left; `MCExitIndex` assumes it, so TLC has checked it of the instance.

*Tree.* `FoldClimbs` goes up the levels: if two rows of slots differ at most in slot i, then the trees
over them differ at each level at most where the path of i passes, and there the tree over the second
row has what the fold over the first tree's siblings has come to. With the same row twice
this is the root the leaf folds to; with the leaf's slot emptied it is `full_claim_roots`
(`LeafFolds`). Hashes are terms, so trees with equal roots have equal slots (`RootsTell`, down the levels).

*Claims.* The leaves and roots on L1 only grow (`ChainOK`: each claim takes a leaf that was left and
leaves the root over the rest). What the index, the feed or a client holds is the family after the first
k claims for some k (`Known`), which no step of anybody else changes: the family only extends
(`Extends`, `FirstKept`). A claim in the mempool is of the output as it is (`TxOK`), because the output is named by the
number of claims and a block that takes one claim removes every other. So a claim that is accepted was
built from the family as it is, however old the client's reads are (`AcceptedOK`), and a block
moves an exact amount (`ConfirmMoney`). A submitted row is of the present root only if its claim waits or lost its delegates
(`RowsOK`); once its claim or another's is confirmed the root, hence the row, is another one. `RowsCanBeClaimed` needs
that the pool can pay: `PoolCovers` says that the deposits exceed every family by the one sompi
that `OthersSpend` may take. On L2 this is `Conserved` of `Ledger` (exits never exceed what the covenant
received); the instance of `claims` satisfies it.

*Induction.* The prover cannot instantiate the library's induction theorems. `FoldProofs` states
induction about sets instead: a set of numbers that has 0 and every successor has all numbers
(`NatSetInduction`, from a least counterexample), a set of subsets that has each whose proper subsets it has,
has the whole (`SubsetInduction`). From these follow that a sum over a set is defined, and how it
changes with one term (`SumDef` to `SumPart`), and what a sorted page holds.

Assumptions are the named ASSUMEs of the modules: the board is finite and its lines are not empty, capacity
is at most the code's four, the no-user id is no user, the supply fits a u64, the signer sets and access
lists are well formed, signers sections and locks that enter the program have passed their decoders, a
family has a leaf, a claiming client owns an output and deposits are told apart from it; the scenarios of
`Lane` give ids different ranks and amounts of a u64, with a stake whose pot fits one. TLC evaluates them
in the runs.

*Only model-checked:* liveness and whatever needs ENABLED (`Lane` decides by it whether the guest
can go on), hence `JoinedMatchEnds` and `ScriptDrains`, `FreshEntryApplies`, `LegalTurnApplies`.

## Where code and comments disagree

Two disagreements are runs, listed as findings:

* `resources/ext.rs:4-6` says that all action writes pass through its access-checked combinators.
  `write_new_state` of `action/config.rs` writes through `data_mut` without the check
  (`ledger_read_only_config`).
* `exit_index.rs:41-42` and `main.rs:43-44` say that reseed keeps families from hiding; it runs
  after `start_runner`, and a claim reported in between hides its family for good
  (`exit_index_late_seed`).

The others are where a passing run states a property more narrowly than the comment it quotes, or the
model keeps what a comment denies; undoing the narrowing shows the disagreement:

* `game.rs:305-307` says that a repeated Timeout in one transaction is rejected. `Init` and
  `Update` accept `turn_ttl = 0`, and then it is not (`RepeatedTimeoutRejects` without its
  `turn_ttl > 0`, with 0 among the `Ttls`).
* `game.rs:30-31` says that a failed check of CreateGame leaves nothing behind. The game slot's
  writable check follows the debit; the transaction's rollback hides it, which is why `Fails` of
  `Ledger` keeps the partial writes of a failed handler until `Rollback`.
* `indexer.rs:334-336` says which games a walk over the pages may miss: those created after it
  began. A revert rewrites the entry of a restored game under another version, and a reader with
  an older snapshot misses a game that stood in its bucket all along (`UntouchedGamesAreListed`
  without `\ reverted`).
* `docs/demo/reference.md:80` describes a status filter. The filter is that of the index; the body
  served may already have a later status (`ServedIsNotBehind` with `=` for `>=`).
* `exit_index.rs:4-8` promises one live record per family. Records are keyed by the root of their
  leaves, so families with the same leaves share one, without any reorg
  (`RemainingLeavesStayClaimable` with equal `Leaves`).
* `exit_index.rs:44-46` calls a superseded key that reseed adds again inert. It makes
  `on_exits_reverted` choose between two records, and an orphaned family stays served
  (`ServedIsCanonical` with `SeedFirst = FALSE`).
* `exit_index.rs:115-117` calls the last known root the honest one to carry forward. A reorg of the
  settlement it came from does not take it back (`CarriedRootIsHonest` in `exit_index`).
* `auth_context.rs:13-16` and `run.rs:177-181` say that a resource has one entry of multisig
  contributions. A witness is resolved in the round in which it is read, a pointer waits until its
  resource bears a lock: for a resource born in between, the two land in separate entries and the
  lock stays closed though all have signed (`SignersSuffice` without `~Mixed`).
* `scenario.rs:11` says that the script settles the match. It plays one round; with
  `TTFLOW_ROUNDS` above one the match goes on when the script has ended (`ScriptDrains` without the
  `Rounds = 1` of `Viable`).

## Not modelled, and why

* *Reorgs* in `Lane` and `Claims`: what the node does under one is in `Indexer` and `ExitIndex`; a
  client has no code for it and acts again on what it reads.
* *Withdraw and the games* in `Auth`: they are in `Ledger` and `Lane`, with single-key locks; they open
  a user's lock as Transfer does.
* *Cryptography and L1 rules*: signatures, script execution, hashing, mass and fees enter as what they
  guarantee.
* *The web client's* premove queue, activity log, wallet storage and rendering: local to one browser
  tab. Its turns, entries and claims are in `Lane` and `Claims`.
* *The data API's* other handlers, HTTP and wRPC transport, start-up flags: they read one value and
  return it, or fail.
* *The examples* `demo-l1`, `probe` and `wrpc-miner`, the ELF and host build: tools around the system
  that keep none of its state.

What would come next is the read set of a client in `Lane` under reorgs, and the liveness properties in a prover that has
fairness.
