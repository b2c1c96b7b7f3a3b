------------------------------- MODULE Game -------------------------------
(***************************************************************************)
(* One staked tic-tac-toe match, as a value and the pure operations on it: *)
(* rules.rs, the queue and body of resources/game.rs, and the part of      *)
(* action/game.rs that works under a `modify_game` borrow.  Nothing here   *)
(* has a variable: Match drives one game value through time, and the       *)
(* theorems of MatchProofs are about these operators.                      *)
(*                                                                         *)
(* A definition that is followed by another with the same parameters and a *)
(* prefix of its name is that definition with a plausible bug: the runs'   *)
(* properties are shown to notice each of them (README, "Mutants").        *)
(*                                                                         *)
(* A check that makes a handler return Err is an operator Can...; the      *)
(* operator that follows it is the state the handler leaves when the       *)
(* checks hold.                                                            *)
(***************************************************************************)
EXTENDS Integers, Sequences, FiniteSets

CONSTANTS
  Cells,        \* board indexes: 0..8 in the code
  Lines,        \* the winning lines, each a set of cells: LINES in the code
  PENDING_CAP,  \* capacity of one seat's queue of pre-commits: 4 in the code
  U8_MAX,       \* greatest u8: 255 in the code
  U64_MAX,      \* greatest u64: 2^64 - 1 in the code
  Users,        \* ids of user resources
  NoUser        \* the all-zero id in an empty joiner seat

ASSUME GameAssumption ==
  /\ IsFiniteSet(Cells)
  /\ Cells # {}
  /\ Lines \subseteq ((SUBSET Cells) \ {{}})
  /\ PENDING_CAP \in 1..4
  /\ U8_MAX \in Nat \ {0}
  /\ U64_MAX \in Nat \ {0}
  /\ NoUser \notin Users

Seats == {0, 1}
Marks == {"X", "O"}
Finals == {"First", "Second", "Draw"}
States == {"Open", "Playing"} \cup Finals

GameBody == [ state        : States,
              creator_mark : Marks,
              rounds_total : 1..U8_MAX,
              round_wins   : [Seats -> 0..U8_MAX],
              draws        : 0..U8_MAX,
              last_move_at : 0..U64_MAX,
              players      : [Seats -> Users \cup {NoUser}],
              pending      : [Seats -> Seq(Cells)],
              board        : [Cells -> Marks \cup {"Empty"}] ]

EmptyBoard == [c \in Cells |-> "Empty"]
NoPending == [s \in Seats |-> <<>>]

(* write_game: every field that is not an argument has a forced birth value. *)
NewGame(creator, mark, rounds) ==
  [ state        |-> "Open",
    creator_mark |-> mark,
    rounds_total |-> rounds,
    round_wins   |-> [s \in Seats |-> 0],
    draws        |-> 0,
    last_move_at |-> 0,
    players      |-> [s \in Seats |-> IF s = 0 THEN creator ELSE NoUser],
    pending      |-> NoPending,
    board        |-> EmptyBoard ]

IsFinished(g) == g.state \in Finals

---------------------------------------------------------------------------
(* rules.rs *)

(* Addition of two u8 values, which wraps in the guest's release build. *)
Add8(a, b) == IF a + b > U8_MAX THEN a + b - (U8_MAX + 1) ELSE a + b

Plies(board) == Cardinality({c \in Cells : board[c] # "Empty"})

Holds(board, mark, line) == \A c \in line : board[c] = mark

HasLine(board, mark) == \E line \in Lines : Holds(board, mark, line)

(* The code returns the holder of the first completed line in LINES order.  *)
(* The order never matters: a board a move is played on holds no line       *)
(* (Match!LiveBoard), so after the move at most the mover's mark holds one. *)
Winner(board) ==
  IF \E m \in Marks : HasLine(board, m)
  THEN CHOOSE m \in Marks : HasLine(board, m)
  ELSE "None"

BoardFull(board) == Plies(board) = Cardinality(Cells)

Opposite(mark) == IF mark = "X" THEN "O" ELSE "X"

MarkForSeat(creator_mark, round, seat) ==
  IF (seat = 0) = (round % 2 = 0) THEN creator_mark ELSE Opposite(creator_mark)

SeatToMove(creator_mark, round, board) ==
  LET mark == IF Plies(board) % 2 = 0 THEN "X" ELSE "O"
  IN  IF MarkForSeat(creator_mark, round, 0) = mark THEN 0 ELSE 1

Remaining(rounds_total, round_wins, draws) ==
  LET completed == round_wins[0] + round_wins[1] + draws
  IN  IF completed < rounds_total THEN rounds_total - completed ELSE 0

MatchOutcomeTooEarly(rounds_total, round_wins, draws) ==
  LET left == Remaining(rounds_total, round_wins, draws)
  IN  IF round_wins[0] > round_wins[1] /\ round_wins[0] >= round_wins[1] + left THEN "First"
      ELSE IF round_wins[1] > round_wins[0] + left THEN "Second"
      ELSE IF left = 0 THEN "Draw" ELSE "None"

MatchOutcomeNoClinch(rounds_total, round_wins, draws) ==
  IF Remaining(rounds_total, round_wins, draws) # 0 THEN "None"
  ELSE IF round_wins[0] > round_wins[1] THEN "First"
  ELSE IF round_wins[0] < round_wins[1] THEN "Second" ELSE "Draw"

MatchOutcome(rounds_total, round_wins, draws) ==
  LET left == Remaining(rounds_total, round_wins, draws)
  IN  IF round_wins[0] > round_wins[1] + left THEN "First"
      ELSE IF round_wins[1] > round_wins[0] + left THEN "Second"
      ELSE IF left = 0 THEN "Draw" ELSE "None"

---------------------------------------------------------------------------
(* action/game.rs: a match under one `modify_game` borrow. *)

(* mark_and_round: the index of the current round, a u8 sum of the counters. *)
Round(g) == Add8(Add8(g.round_wins[0], g.round_wins[1]), g.draws)

ToMove(g) == SeatToMove(g.creator_mark, Round(g), g.board)

Outcome(g) == MatchOutcome(g.rounds_total, g.round_wins, g.draws)

CloseRoundKeepsQueues(g) ==
  IF Outcome(g) = "None"
  THEN [g EXCEPT !.board = EmptyBoard]
  ELSE [g EXCEPT !.board = EmptyBoard, !.state = Outcome(g)]

(* close_round and end_match_if_decided: a fresh board, and the match ends  *)
(* with its queues zeroed when the counters decide it.                      *)
CloseRound(g) ==
  IF Outcome(g) = "None"
  THEN [g EXCEPT !.board = EmptyBoard]
  ELSE [g EXCEPT !.board = EmptyBoard, !.state = Outcome(g), !.pending = NoPending]

AwardRound(g, seat) == [g EXCEPT !.round_wins[seat] = Add8(@, 1)]

ApplyMoveOldBoard(g, seat, cell, now) ==
  LET mark   == MarkForSeat(g.creator_mark, Round(g), seat)
      placed == [g EXCEPT !.board[cell] = mark, !.last_move_at = now]
  IN  IF Winner(g.board) = mark THEN CloseRound(AwardRound(placed, seat))
      ELSE IF BoardFull(placed.board) THEN CloseRound([placed EXCEPT !.draws = Add8(@, 1)])
      ELSE placed

ApplyMove(g, seat, cell, now) ==
  LET mark   == MarkForSeat(g.creator_mark, Round(g), seat)
      placed == [g EXCEPT !.board[cell] = mark, !.last_move_at = now]
      won    == Winner(placed.board) = mark
  IN  IF won THEN CloseRound(AwardRound(placed, seat))
      ELSE IF BoardFull(placed.board) THEN CloseRound([placed EXCEPT !.draws = Add8(@, 1)])
      ELSE placed

CanCommitUnbounded(g, seat, cell) == g.board[cell] = "Empty"

(* commit_explicit: a mark at once on the mover's own ply, a queue entry    *)
(* otherwise.  The cell must be open now even for a pre-commit.             *)
CanCommit(g, seat, cell) ==
  /\ g.board[cell] = "Empty"
  /\ seat # ToMove(g) => Len(g.pending[seat]) < PENDING_CAP

CommitExplicitOutOfTurn(g, seat, cell, now) == ApplyMove(g, seat, cell, now)

CommitExplicit(g, seat, cell, now) ==
  IF seat = ToMove(g)
  THEN ApplyMove(g, seat, cell, now)
  ELSE [g EXCEPT !.pending[seat] = Append(@, cell)]

DrainOneStopsAtStale(g, now) ==
  LET seat  == ToMove(g)
      queue == g.pending[seat]
  IN  IF g.state # "Playing" \/ queue = <<>> THEN g
      ELSE IF g.board[Head(queue)] = "Empty"
           THEN ApplyMove([g EXCEPT !.pending[seat] = Tail(@)], seat, Head(queue), now)
           ELSE g

DrainOneLastFirst(g, now) ==
  LET seat   == ToMove(g)
      queue  == g.pending[seat]
      last   == queue[Len(queue)]
      popped == [g EXCEPT !.pending[seat] = SubSeq(queue, 1, Len(queue) - 1)]
  IN  IF g.state # "Playing" \/ queue = <<>> THEN g
      ELSE IF g.board[last] = "Empty" THEN ApplyMove(popped, seat, last, now) ELSE popped

DrainOnePopsTwice(g, now) ==
  LET seat   == ToMove(g)
      queue  == g.pending[seat]
      popped == [g EXCEPT !.pending[seat] = IF Len(@) > 1 THEN Tail(Tail(@)) ELSE Tail(@)]
  IN  IF g.state # "Playing" \/ queue = <<>> THEN g
      ELSE IF g.board[Head(queue)] = "Empty"
           THEN ApplyMove(popped, seat, Head(queue), now)
           ELSE popped

(* One iteration of drain_pending: pop the head of the seat to move, play   *)
(* it if its cell is open, drop it if not.  The loop's exit leaves g alone. *)
DrainOne(g, now) ==
  LET seat   == ToMove(g)
      queue  == g.pending[seat]
      popped == [g EXCEPT !.pending[seat] = Tail(@)]
  IN  IF g.state # "Playing" \/ queue = <<>> THEN g
      ELSE IF g.board[Head(queue)] = "Empty"
           THEN ApplyMove(popped, seat, Head(queue), now)
           ELSE popped

(* Every iteration that is not the exit pops one entry, and two queues hold *)
(* at most 2 * PENDING_CAP <= 8 of them: eight iterations are the loop.     *)
DrainTwo(g, now)  == DrainOne(DrainOne(g, now), now)
DrainFour(g, now) == DrainTwo(DrainTwo(g, now), now)
DrainPending(g, now) == DrainFour(DrainFour(g, now), now)

CanPlayTurn(g, seat, cell) == g.state = "Playing" /\ CanCommit(g, seat, cell)

PlayTurn(g, seat, cell, now) == DrainPending(CommitExplicit(g, seat, cell, now), now)

(* forfeit_round: last_move_at + turn_ttl is a checked u64 addition. *)
CanForfeit(g, turn_ttl, now) ==
  /\ g.state = "Playing"
  /\ g.last_move_at + turn_ttl <= U64_MAX
  /\ now >= g.last_move_at + turn_ttl

ForfeitRoundNeverEnds(g, now) ==
  LET awarded == AwardRound(g, 1 - ToMove(g))
  IN  DrainPending([awarded EXCEPT !.last_move_at = now, !.board = EmptyBoard], now)

ForfeitRoundUnstamped(g, now) ==
  LET awarded == AwardRound(g, 1 - ToMove(g))
  IN  DrainPending(CloseRound(awarded), now)

ForfeitRound(g, now) ==
  LET awarded == AwardRound(g, 1 - ToMove(g))
  IN  DrainPending(CloseRound([awarded EXCEPT !.last_move_at = now]), now)

(* The game fields apply_join_game writes. *)
Join(g, joiner, now) ==
  [g EXCEPT !.players[1] = joiner, !.state = "Playing", !.last_move_at = now]

=============================================================================
