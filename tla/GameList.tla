------------------------------ MODULE GameList ------------------------------
(***************************************************************************)
(* A reader of the status index: the pages of scan_games_by_status, each   *)
(* with a canonical-chain snapshot of its own, and the body reads of       *)
(* GET /api/games (get_games of node/src/da.rs).  Snapshot, scan and each  *)
(* body read are separate steps; batches are executed, rolled back,        *)
(* committed and reverted between them.  One scan sees one state of the    *)
(* index.                                                                  *)
(***************************************************************************)
EXTENDS Indexer, SequencesExt

CONSTANTS
  Limit   \* games per page

VARIABLES
  bucket,    \* the status asked for
  phase,     \* what the handler does next
  snapshot,  \* the canonical chain the page filters by
  listed,    \* games the pages have returned so far
  toRead,    \* games of the page whose body is still to be read
  served,    \* the games of the page's response, with their status
  present,   \* observed: games a scan would have found at every moment so far
  reverted   \* observed: written by a batch that was reverted meanwhile

readerVars == <<bucket, phase, snapshot, listed, toRead, served>>
vars == <<indexVars, readerVars, present, reverted>>

(* A scan with a snapshot of this very moment would find the game. *)
Listable(g) == status[bucket][g] \in Versions(chain)

ListInit ==
  /\ Init
  /\ bucket \in Statuses
  /\ phase = "start"
  /\ snapshot = <<>>
  /\ listed = <<>>
  /\ toRead = <<>>
  /\ served = <<>>
  /\ present = Games
  /\ reverted = {}

(* The observation starts with the snapshot of the first page. *)
Watching == ~(phase = "start" /\ listed = <<>>)

(* The node works on while the reader waits. *)
NodeStep ==
  /\ phase # "done"
  /\ UNCHANGED readerVars
  /\ \/ (Execute \/ Reorg \/ IndexBatch) /\ UNCHANGED reverted
     \/ RevertBatch /\ reverted' = IF Watching THEN reverted \cup Written(Newest(stored))
                                                ELSE reverted
  /\ present' = IF Watching THEN { g \in present : Listable(g)' } ELSE present

(* store.canonical_chain().snapshot() *)
TakeSnapshot ==
  /\ phase = "start"
  /\ snapshot' = chain
  /\ phase' = "scan"
  /\ present' = IF listed = <<>> THEN { g \in Games : Listable(g) } ELSE present
  /\ UNCHANGED <<indexVars, bucket, listed, toRead, served, reverted>>

(* The cursor is exclusive. *)
After(g) == listed = <<>> \/ g > Last(listed)

IsCanonicalAny(version) == version > 0

IsCanonical(version) == version \in Versions(snapshot)

(* One bucket is read in the order of its keys. *)
InOrder(ids) ==
  CHOOSE s \in [1..Cardinality(ids) -> ids] :
    \A i, j \in 1..Cardinality(ids) : i < j => s[i] < s[j]

(* The page: ids ascending, canonical versions only, at most Limit. *)
Page ==
  LET hits == { g \in Games : /\ After(g)
                              /\ status[bucket][g] # NoEntry
                              /\ IsCanonical(status[bucket][g]) }
      all  == InOrder(hits)
  IN  SubSeq(all, 1, IF Len(all) < Limit THEN Len(all) ELSE Limit)

Scan ==
  /\ phase = "scan"
  /\ listed' = listed \o Page
  /\ toRead' = Page
  /\ phase' = IF Len(Page) < Limit THEN "last" ELSE "read"
  /\ UNCHANGED <<indexVars, bucket, snapshot, served, present, reverted>>

(* latest_body of the next id; a body that is gone is left out. *)
ReadBody ==
  /\ toRead # <<>>
  /\ LET g == Head(toRead)
         s == StatusOf(Body(Newest(stored), g))
     IN  served' = IF s = "None" THEN served ELSE Append(served, [game |-> g, status |-> s])
  /\ toRead' = Tail(toRead)
  /\ UNCHANGED <<indexVars, bucket, phase, snapshot, listed, present, reverted>>

(* The response; the caller goes on until a page comes back short. *)
Respond ==
  /\ phase \in {"read", "last"}
  /\ toRead = <<>>
  /\ phase' = IF phase = "last" THEN "done" ELSE "start"
  /\ snapshot' = <<>>
  /\ served' = <<>>
  /\ UNCHANGED <<indexVars, bucket, listed, toRead, present, reverted>>

ListNext == NodeStep \/ TakeSnapshot \/ Scan \/ ReadBody \/ Respond

---------------------------------------------------------------------------
(* Properties *)

(* A page names only games that a batch on the page's own canonical chain    *)
(* wrote into that bucket: entries of orphaned batches the store still holds *)
(* are not shown (CanonicalChainSnapshot::is_canonical).                     *)
ListedAreCanonical ==
  \A k \in 1..Len(toRead) :
    \E i \in 1..Len(snapshot) :
      toRead[k] \in Written(snapshot[i]) /\ StatusOf(Body(snapshot[i], toRead[k])) = bucket

(* A game that a scan would have found at every moment of the walk is        *)
(* listed, however many batches write it meanwhile, unless one of them is    *)
(* reverted (index_diff leaves the entry of a game that keeps its bucket).   *)
UntouchedGamesAreListed == phase = "done" => present \ reverted \subseteq Range(listed)

(* The order in which a game goes through the buckets. *)
Stage == [Open |-> 1, Playing |-> 2, Finished |-> 3]

(* The body served with a listed game is read after the index and from the   *)
(* live store, so its status may differ from the one asked for; it is that   *)
(* status or a later one, unless the game was reverted meanwhile             *)
(* (latest_body after scan_games_by_status in get_games).                    *)
ServedIsNotBehind ==
  \A i \in 1..Len(served) :
    served[i].game \in reverted \/ Stage[served[i].status] >= Stage[bucket]

=============================================================================
