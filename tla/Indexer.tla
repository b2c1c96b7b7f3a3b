------------------------------ MODULE Indexer ------------------------------
(***************************************************************************)
(* The node's two secondary indexes over the game store (TicTacToeIndexer  *)
(* of node/src/indexer.rs): the status index, one entry per game in its    *)
(* bucket, and the log of player events.                                   *)
(*                                                                         *)
(* The framework executes batches; each gets a version of its own, writes  *)
(* some games and becomes canonical.  An L1 reorg rolls the canonical      *)
(* chain back and may continue it with new versions; a version is never    *)
(* reused.  The store follows the chain one batch at a time: a batch that  *)
(* is no longer canonical is reverted, newest first, before a new one is   *)
(* committed, and the indexer's hook runs once per written game in the     *)
(* write batch of that commit or revert.  In between, the store holds      *)
(* versions that are not canonical, which is what the scans filter by.     *)
(***************************************************************************)
EXTENDS Integers, Sequences

CONSTANTS
  Games,      \* game ids, in the order of their bytes
  Players,
  Nobody,     \* the joiner of a game that has none
  Creator,    \* Creator[g]: the player whose id is hashed into g
  Results,    \* final states that are tried
  MaxVersion  \* bound: versions ever executed

ASSUME IndexerAssumption ==
  /\ Games \subseteq Nat
  /\ Nobody \notin Players
  /\ Creator \in [Games -> Players]
  /\ Results \subseteq {"First", "Second", "Draw"}
  /\ MaxVersion \in Nat

VARIABLES
  chain,        \* the canonical chain: batches, oldest first
  lastVersion,  \* the newest version ever executed
  stored,       \* the batches whose writes the store holds
  status,       \* status index: bucket, game -> version or NoEntry
  events        \* player event log: keys

indexVars == <<chain, lastVersion, stored, status, events>>

---------------------------------------------------------------------------
(* What the index reads of a game body; an absent body is None. *)
None == [state |-> "None", joiner |-> Nobody]

Bodies == { None, [state |-> "Open", joiner |-> Nobody] }
            \cup [state : {"Playing"} \cup Results, joiner : Players]

Statuses == {"Open", "Playing", "Finished"}

NoEntry == -1

IsFinished(body) == body.state \in Results

(* status_of, and "None" for no game. *)
StatusOf(body) == IF IsFinished(body) THEN "Finished" ELSE body.state

CreatorEvent == [First |-> "Won", Second |-> "Lost", Draw |-> "Draw"]
JoinerEvent == [First |-> "Lost", Second |-> "Won", Draw |-> "Draw"]

Fact(player, event) == [player |-> player, event |-> event]

ForwardEventsNoJoiner(g, old, new) ==
  (IF old = None THEN { Fact(Creator[g], "Created") } ELSE {})
    \cup (IF old.joiner = Nobody THEN { Fact(new.joiner, "Joined") } ELSE {})

(* The facts a game's transition from old to new adds to the log. *)
ForwardEvents(g, old, new) ==
  (IF old = None /\ new # None THEN { Fact(Creator[g], "Created") } ELSE {})
    \cup (IF old.joiner = Nobody /\ new.joiner # Nobody
          THEN { Fact(new.joiner, "Joined") } ELSE {})
    \cup (IF ~IsFinished(old) /\ IsFinished(new)
          THEN { Fact(Creator[g], CreatorEvent[new.state]),
                 Fact(new.joiner, JoinerEvent[new.state]) } ELSE {})

EventKeys(g, old, new, version) ==
  { [player |-> f.player, event |-> f.event, version |-> version, game |-> g] :
      f \in ForwardEvents(g, old, new) }

---------------------------------------------------------------------------
(* A batch is known by its version and by the state it leaves: each game's *)
(* body and the version that wrote it last.                                *)
Genesis == [version |-> 0, state |-> [g \in Games |-> [body |-> None, version |-> 0]]]

Newest(batches) == batches[Len(batches)]
Body(batch, g) == batch.state[g].body
Written(batch) == { g \in Games : batch.state[g].version = batch.version }
Versions(batches) == { batches[i].version : i \in 1..Len(batches) }

Init ==
  /\ chain = <<Genesis>>
  /\ lastVersion = 0
  /\ stored = <<Genesis>>
  /\ status = [s \in Statuses |-> [g \in Games |-> NoEntry]]
  /\ events = {}

(* What the actions of one batch can make of a game. *)
Becomes(g, old, new) ==
  /\ new # None
  /\ new.joiner # Creator[g]
  /\ CASE old.state = "None" -> TRUE
       [] old.state = "Open" -> new.state # "Open"
       [] old.state = "Playing" -> new.joiner = old.joiner
       [] OTHER -> FALSE

(* A batch executes on top of the canonical chain. *)
Execute ==
  /\ lastVersion < MaxVersion
  /\ LET version == lastVersion + 1
         before  == Newest(chain)
     IN  /\ \E writes \in SUBSET Games \ {{}} :
              \E new \in [writes -> Bodies] :
                /\ \A g \in writes : Becomes(g, Body(before, g), new[g])
                /\ chain' = Append(chain,
                     [version |-> version,
                      state   |-> [g \in Games |->
                                     IF g \in writes THEN [body |-> new[g], version |-> version]
                                     ELSE before.state[g]]])
         /\ lastVersion' = version
  /\ UNCHANGED <<stored, status, events>>

(* An L1 reorg takes the newest batches off the canonical chain. *)
Reorg ==
  /\ \E n \in 1..(Len(chain) - 1) : chain' = SubSeq(chain, 1, n)
  /\ UNCHANGED <<lastVersion, stored, status, events>>

IsCanonicalStore == Len(stored) <= Len(chain) /\ stored = SubSeq(chain, 1, Len(stored))

---------------------------------------------------------------------------
(* The status index after index_diff: an entry moves when, and only when,  *)
(* its game changes bucket.                                                *)
IndexedEntryRefreshed(s, g, old, new, version) ==
  IF s = StatusOf(new) THEN version ELSE NoEntry

IndexedEntry(s, g, old, new, version) ==
  IF StatusOf(old) = StatusOf(new) THEN status[s][g]
  ELSE IF s = StatusOf(new) THEN version
  ELSE IF s = StatusOf(old) THEN NoEntry
  ELSE status[s][g]

(* Commit of the next canonical batch: index_diff for every game it wrote. *)
IndexBatch ==
  /\ IsCanonicalStore
  /\ Len(stored) < Len(chain)
  /\ LET before == Newest(stored)
         batch  == chain[Len(stored) + 1]
     IN  /\ stored' = Append(stored, batch)
         /\ status' = [s \in Statuses |-> [g \in Games |->
                         IF g \notin Written(batch) THEN status[s][g]
                         ELSE IndexedEntry(s, g, Body(before, g), Body(batch, g),
                                           batch.version)]]
         /\ events' = events \cup
              UNION { EventKeys(g, Body(before, g), Body(batch, g), batch.version) :
                        g \in Written(batch) }
  /\ UNCHANGED <<chain, lastVersion>>

(* The status index after revert_diff: whatever the game had is cleared,   *)
(* and the restored body is entered with the version that wrote it.        *)
RevertedEntryUnlessMoved(s, g, written, restored, version) ==
  IF StatusOf(written) = StatusOf(restored) THEN status[s][g]
  ELSE IF s = StatusOf(restored) THEN version ELSE NoEntry

RevertedEntrySwapped(s, g, written, restored, version) ==
  IF s = StatusOf(written) THEN version ELSE NoEntry

RevertedEntry(s, g, written, restored, version) ==
  IF s = StatusOf(restored) THEN version ELSE NoEntry

RevertedKeysForward(g, written, restored, version) == EventKeys(g, written, restored, version)

RevertedKeys(g, written, restored, version) == EventKeys(g, restored, written, version)

(* Revert of the newest stored batch, no longer canonical: revert_diff for *)
(* every game it wrote.                                                    *)
RevertBatch ==
  /\ ~IsCanonicalStore
  /\ LET batch    == Newest(stored)
         restored == stored[Len(stored) - 1]
     IN  /\ stored' = SubSeq(stored, 1, Len(stored) - 1)
         /\ status' = [s \in Statuses |-> [g \in Games |->
                         IF g \notin Written(batch) THEN status[s][g]
                         ELSE RevertedEntry(s, g, Body(batch, g), Body(restored, g),
                                            restored.state[g].version)]]
         /\ events' = events \
              UNION { RevertedKeys(g, Body(batch, g), Body(restored, g), batch.version) :
                        g \in Written(batch) }
  /\ UNCHANGED <<chain, lastVersion>>

Next == Execute \/ Reorg \/ IndexBatch \/ RevertBatch

Spec == Init /\ [][Next]_indexVars

---------------------------------------------------------------------------
(* Properties *)

(* Both indexes have the shape of their keyspaces. *)
TypeOK ==
  /\ status \in [Statuses -> [Games -> {NoEntry} \cup 0..MaxVersion]]
  /\ events \subseteq [player : Players, event : {"Created", "Joined", "Won", "Lost", "Draw"},
                       version : 1..MaxVersion, game : Games]
  /\ lastVersion \in 0..MaxVersion

(* Through any commits and reverts, a game has one entry, in the bucket of   *)
(* its stored body, and its version is a stored one that wrote the game,     *)
(* since when the game has not left the bucket: so the entry is visible      *)
(* exactly as long as the game's stay in the bucket is canonical             *)
(* (index_diff, revert_diff).                                                *)
StatusIsCurrent ==
  \A g \in Games :
    LET s == StatusOf(Body(Newest(stored), g))
    IN  /\ \A t \in Statuses \ {s} : status[t][g] = NoEntry
        /\ s \in Statuses =>
             \E i \in 1..Len(stored) :
               /\ status[s][g] = stored[i].version
               /\ g \in Written(stored[i])
               /\ \A j \in i..Len(stored) : StatusOf(Body(stored[j], g)) = s

(* The log is the stored history, no more and no less: reverting a batch     *)
(* takes out exactly the facts it put in, also when one batch created,       *)
(* joined and finished a game (forward_events, revert_diff).                 *)
EventsAreHistory ==
  events = UNION { UNION { EventKeys(g, Body(stored[i - 1], g), Body(stored[i], g),
                                     stored[i].version) : g \in Games } :
                     i \in 2..Len(stored) }

=============================================================================
