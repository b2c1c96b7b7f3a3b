----------------------------- MODULE EventStream -----------------------------
(***************************************************************************)
(* A follower of one player's event stream: it keeps asking for the page   *)
(* after the last entry it has seen (scan_player_events and its cursor in  *)
(* node/src/indexer.rs).  The chain is read before the store, as in        *)
(* get_games, and the node works on between the two.                       *)
(***************************************************************************)
EXTENDS Indexer, SequencesExt

CONSTANTS
  Limit   \* entries per page

VARIABLES
  stream,    \* the (player, event) followed
  asking,    \* a request has taken its snapshot and not yet scanned
  snapshot,  \* canonical versions at that moment
  seen       \* entries received, in order; the last one is the cursor

vars == <<indexVars, stream, asking, snapshot, seen>>

StreamInit ==
  /\ Init
  /\ stream \in [player : Players, event : {"Created", "Joined", "Won", "Lost", "Draw"}]
  /\ asking = FALSE
  /\ snapshot = {}
  /\ seen = <<>>

NodeStep ==
  /\ Next
  /\ UNCHANGED <<stream, asking, snapshot, seen>>

Ask ==
  /\ ~asking
  /\ asking' = TRUE
  /\ snapshot' = Versions(chain)
  /\ UNCHANGED <<indexVars, stream, seen>>

(* The order of the keys of one stream. *)
Before(e, f) == e.version < f.version \/ (e.version = f.version /\ e.game < f.game)

AfterVersion(e) == seen = <<>> \/ Last(seen).version < e.version

AfterCursor(e) == seen = <<>> \/ Before(Last(seen), e)

Entries == { [version |-> k.version, game |-> k.game] :
               k \in { k \in events : Fact(k.player, k.event) = stream } }

InOrder(entries) ==
  CHOOSE s \in [1..Cardinality(entries) -> entries] :
    \A i, j \in 1..Cardinality(entries) : i < j => Before(s[i], s[j])

Page ==
  LET hits == { e \in Entries : AfterCursor(e) /\ e.version \in snapshot }
      all  == InOrder(hits)
  IN  SubSeq(all, 1, IF Len(all) < Limit THEN Len(all) ELSE Limit)

Answer ==
  /\ asking
  /\ seen' = seen \o Page
  /\ asking' = FALSE
  /\ snapshot' = {}
  /\ UNCHANGED <<indexVars, stream>>

StreamNext == NodeStep \/ Ask \/ Answer

---------------------------------------------------------------------------
(* Properties *)

(* The follower never skips an entry for good: whatever is canonical at or   *)
(* below its cursor it has received, although reorgs take entries away       *)
(* behind the cursor and put others in (scan_player_events, versions grow    *)
(* across reorgs).                                                           *)
StreamHasNoGap ==
  \A e \in Entries : e.version \in Versions(chain) /\ ~AfterCursor(e) => Contains(seen, e)

=============================================================================
