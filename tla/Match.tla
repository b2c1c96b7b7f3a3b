------------------------------- MODULE Match -------------------------------
(***************************************************************************)
(* One match from its creation to its end: the transactions that touch it  *)
(* (JoinGame, Turn, Timeout), the chain clock they read, and the config    *)
(* field `turn_ttl` an Update may change under it.                         *)
(*                                                                         *)
(* The clock `now` is the DAA score of the chain block a transaction is    *)
(* merged in: it never decreases and several transactions may share one    *)
(* value.  Transactions of the two players and of a third party who sweeps *)
(* expired turns arrive in any order.                                      *)
(***************************************************************************)
EXTENDS Game

CONSTANTS
  RoundTotals,  \* values of CreateGame's `rounds` that are tried
  Ttls,         \* values of the config's turn_ttl that are tried
  MaxNow,       \* bound: the clock stops there
  MaxAge        \* bound: the clock runs at most this far past the last play

ASSUME MatchAssumption ==
  /\ RoundTotals \subseteq 1..U8_MAX
  /\ Ttls \subseteq 0..U64_MAX
  /\ MaxNow \in 0..U64_MAX
  /\ MaxAge \in Nat

VARIABLES game, now, turn_ttl

vars == <<game, now, turn_ttl>>

Init ==
  /\ \E creator \in Users, mark \in Marks, rounds \in RoundTotals :
       game = NewGame(creator, mark, rounds)
  /\ now = 0
  /\ turn_ttl \in Ttls

JoinGame(joiner) ==
  /\ game.state = "Open"
  /\ joiner # game.players[0]
  /\ game' = Join(game, joiner, now)
  /\ UNCHANGED <<now, turn_ttl>>

Turn(mover, cell) ==
  /\ \E seat \in Seats :
       /\ game.players[seat] = mover
       /\ CanPlayTurn(game, seat, cell)
       /\ game' = PlayTurn(game, seat, cell, now)
  /\ UNCHANGED <<now, turn_ttl>>

Timeout ==
  /\ CanForfeit(game, turn_ttl, now)
  /\ game' = ForfeitRound(game, now)
  /\ UNCHANGED <<now, turn_ttl>>

(* The part of a config Update a match can notice. *)
UpdateTtl(ttl) ==
  /\ turn_ttl' = ttl
  /\ UNCHANGED <<game, now>>

Tick ==
  /\ ~IsFinished(game)
  /\ now < MaxNow
  /\ now < game.last_move_at + MaxAge
  /\ now' = now + 1
  /\ UNCHANGED <<game, turn_ttl>>

Next ==
  \/ \E joiner \in Users : JoinGame(joiner)
  \/ \E mover \in Users, cell \in Cells : Turn(mover, cell)
  \/ Timeout
  \/ \E ttl \in Ttls : UpdateTtl(ttl)
  \/ Tick

Spec == Init /\ [][Next]_vars

(* An expired turn is swept: Timeout needs no player's signature, so anyone  *)
(* may send it.  This is WF_vars(Timeout) with the enabling condition        *)
(* written out (CanForfeit is the only guard of Timeout, and a forfeit       *)
(* always changes the score).                                                *)
ExpiredTurnsAreSwept ==
  []<>~CanForfeit(game, turn_ttl, now) \/ []<><<Timeout>>_vars

(* Time passes and expired turns are swept; nothing is assumed of the two    *)
(* players.                                                                  *)
FairSpec == Spec /\ WF_vars(Tick) /\ ExpiredTurnsAreSwept

---------------------------------------------------------------------------
(* Properties *)

(* Every field keeps the width and range of its wire layout, and no queue    *)
(* outgrows its ring (GameBody, PendingQueue::push).                         *)
TypeOK ==
  /\ game \in GameBody
  /\ \A s \in Seats : Len(game.pending[s]) <= PENDING_CAP
  /\ now \in 0..U64_MAX
  /\ turn_ttl \in Ttls

(* The cascade of a Turn or a Timeout leaves no pre-commit behind that could *)
(* be applied: between transactions the seat to move has an empty queue, so  *)
(* an explicit turn never overtakes its author's own queue and a seat is     *)
(* never forfeited while its next move is already queued (drain_pending).    *)
QueueDrained ==
  game.state = "Playing" => game.pending[ToMove(game)] = <<>>

Count(mark) == Cardinality({c \in Cells : game.board[c] = mark})

(* A board that is still played on holds no completed line and has an open   *)
(* cell, X is level with O or one ahead whatever mix of live moves, queued   *)
(* moves and dropped stale moves produced it, and a game that is not played  *)
(* has a clear board (apply_move, close_round).                              *)
LiveBoard ==
  /\ \A m \in Marks : ~HasLine(game.board, m)
  /\ \E c \in Cells : game.board[c] = "Empty"
  /\ Count("X") - Count("O") \in {0, 1}
  /\ game.state # "Playing" => game.board = EmptyBoard

Score == [first |-> game.round_wins[0], second |-> game.round_wins[1], drawn |-> game.draws]

S == INSTANCE Series WITH MaxTotal <- U8_MAX, phase <- game.state,
                          total <- game.rounds_total, score <- Score

(* The match is over exactly when no way of playing the remaining rounds     *)
(* could change who wins it, with the result those ways agree on; and never  *)
(* more rounds are closed than the match has, so the u8 counters and their   *)
(* u8 sum cannot wrap (match_outcome, end_match_if_decided).                 *)
ResultIsCertain ==
  /\ S!Played(Score) <= game.rounds_total
  /\ IsFinished(game) => S!Certain(Score, game.rounds_total, game.state)
  /\ ~IsFinished(game) => S!Open(Score, game.rounds_total)

(* The clock a Timeout is measured from never runs ahead of the chain and    *)
(* starts at the join; an unfinished game without a joiner is not played;    *)
(* a finished one leaves no pre-commits for anyone (apply_join_game,         *)
(* clear_pending).                                                           *)
EndsClean ==
  /\ game.last_move_at <= now
  /\ (game.players[1] = NoUser) = (game.state = "Open")
  /\ game.players[0] # game.players[1]
  /\ game.state # "Playing" => game.pending = NoPending

(* A queue is consumed in the order its owner committed: a step that does    *)
(* not end the match removes a prefix of each queue, or appends one entry at *)
(* the end of one (PendingQueue push and pop, drain_pending).                *)
QueuesAreFifo ==
  [][ ~IsFinished(game)' =>
        \A s \in Seats :
          \/ \E k \in 0..Len(game.pending[s]) :
               game'.pending[s] = SubSeq(game.pending[s], k + 1, Len(game.pending[s]))
          \/ \E c \in Cells : game'.pending[s] = Append(game.pending[s], c)
    ]_vars

(* While a round lasts, every mark that appears was announced by the seat    *)
(* that owns it: it comes from that seat's queue, except for the one cell of *)
(* the explicit turn, which belongs to the seat that was to move; and no     *)
(* mark is ever taken off the board (commit_explicit, drain_pending).        *)
OnlyAnnouncedCells ==
  [][ (game.state = "Playing" /\ game'.state = "Playing" /\ Round(game)' = Round(game)) =>
        LET owner(c)  == CHOOSE s \in Seats :
                           game'.board[c] = MarkForSeat(game.creator_mark, Round(game), s)
            placed    == {c \in Cells : game'.board[c] # game.board[c]}
            queued(c) == \E i \in 1..Len(game.pending[owner(c)]) : game.pending[owner(c)][i] = c
        IN  /\ \A c \in placed : game.board[c] = "Empty"
            /\ \A c, d \in placed : ~queued(c) /\ ~queued(d) => c = d
            /\ \A c \in placed : ~queued(c) => owner(c) = ToMove(game)
    ]_vars

(* No accepted pre-commit is lost: one that leaves its queue while the round *)
(* lasts is on the board, or named a cell that is taken (drain_pending drops *)
(* stale heads and nothing else).                                            *)
NoLostPrecommit ==
  [][ (game.state = "Playing" /\ game'.state = "Playing" /\ Round(game)' = Round(game)) =>
        \A s \in Seats :
          LET popped == Len(game.pending[s]) - Len(game'.pending[s])
          IN  \A i \in 1..popped : game'.board[game.pending[s][i]] # "Empty"
    ]_vars

(* A second Timeout of the same transaction, or of the same block, forfeits  *)
(* nothing: "The claim itself stamps `last_move_at`, so the fresh round's    *)
(* clock starts at the claim: a same-tx repeat sees `now < deadline` and     *)
(* rejects" (action/game.rs:306-307), whatever the cascade of the first one  *)
(* played, if the turn_ttl is not zero.                                      *)
RepeatedTimeoutRejects ==
  [][ Timeout /\ turn_ttl > 0 => ~CanForfeit(game, turn_ttl, now)' ]_vars

(* A match is a series: created open, started once, its result announced at  *)
(* the first certain moment and kept forever, whatever cascade crossed round *)
(* boundaries in between.                                                    *)
IsSeries == S!SeriesSpec

(* Neither player can keep a joined match from ending by not moving, once    *)
(* the turn_ttl stays at values that let a turn expire: a deadline beyond    *)
(* u64 (checked_add in forfeit_round) suspends Timeout only until the config *)
(* is updated.                                                               *)
JoinedMatchEnds ==
  <>[](turn_ttl <= MaxAge) => (game.state = "Playing" ~> IsFinished(game))

=============================================================================
