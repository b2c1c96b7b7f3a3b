------------------------------ MODULE Readers ------------------------------
(***************************************************************************)
(* The two readers of the indexes over one node: either a caller walks the *)
(* pages of a status bucket (GameList) or a follower reads the event       *)
(* stream of one player (EventStream), while the node executes, commits,   *)
(* reverts and reorganises batches (Indexer).                              *)
(***************************************************************************)
EXTENDS Indexer, FiniteSets

CONSTANTS
  Limit   \* games or entries per page

ASSUME ReadersAssumption ==
  /\ Limit \in Nat \ {0}
  /\ IsFiniteSet(Games)

VARIABLES
  reader,                                                   \* which of the two reads
  bucket, phase, snapshot, listed, toRead, served,          \* GameList
  present, reverted,
  stream, asking, cursorSnapshot, seen                      \* EventStream

G == INSTANCE GameList
E == INSTANCE EventStream WITH snapshot <- cursorSnapshot

listVars == <<bucket, phase, snapshot, listed, toRead, served, present, reverted>>
streamVars == <<stream, asking, cursorSnapshot, seen>>

ReadersInit ==
  \/ /\ reader = "games"
     /\ G!ListInit
     /\ stream = Fact(Nobody, "Created")
     /\ asking = FALSE
     /\ cursorSnapshot = {}
     /\ seen = <<>>
  \/ /\ reader = "events"
     /\ E!StreamInit
     /\ bucket = "Open"
     /\ phase = "done"
     /\ snapshot = <<>>
     /\ listed = <<>>
     /\ toRead = <<>>
     /\ served = <<>>
     /\ present = {}
     /\ reverted = {}

GamesRead == reader = "games" /\ G!ListNext /\ UNCHANGED <<reader, streamVars>>
EventsRead == reader = "events" /\ E!StreamNext /\ UNCHANGED <<reader, listVars>>

ReadersNext == GamesRead \/ EventsRead

ReadersSpec == ReadersInit /\ [][ReadersNext]_<<indexVars, reader, listVars, streamVars>>

---------------------------------------------------------------------------
(* Properties *)

(* A page of games names only canonical entries of its bucket                *)
(* (scan_games_by_status).                                                   *)
ListedAreCanonical == G!ListedAreCanonical

(* A game canonical in the bucket throughout a walk is on one of its pages   *)
(* (after_game, index_diff).                                                 *)
UntouchedGamesAreListed == G!UntouchedGamesAreListed

(* The body served with a listed game is not behind the bucket asked for     *)
(* (get_games).                                                              *)
ServedIsNotBehind == G!ServedIsNotBehind

(* A follower of a stream has every canonical entry at or below its cursor   *)
(* (scan_player_events).                                                     *)
StreamHasNoGap == E!StreamHasNoGap

=============================================================================
