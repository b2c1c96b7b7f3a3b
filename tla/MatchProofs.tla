---------------------------- MODULE MatchProofs ----------------------------
(* Invariants of a match and the series it implements, for every board,     *)
(* capacity, number of rounds, turn_ttl and horizon of the clock; and the    *)
(* ring that holds a seat's pre-commits is a queue.                          *)
EXTENDS Match, PendingRing, SequenceTheorems, FiniteSetTheorems, TLAPS

---------------------------------------------------------------------------
(* What the operations of a match preserve (Game), for every board, every  *)
(* set of lines, every queue capacity and every number of rounds            *)

(* The rounds the counters say are closed, without the wrap of their type.  *)
Closed(g) == g.round_wins[0] + g.round_wins[1] + g.draws

(* A game value whose counters and queues are in range.                     *)
Sound(g) ==
  /\ g \in GameBody
  /\ \A s \in Seats : Len(g.pending[s]) <= PENDING_CAP
  /\ Closed(g) <= g.rounds_total

(* Sound, and its state is the one its counters call for.  The counters of  *)
(* a game that is still played leave room for one more round: that is why   *)
(* no u8 addition of Round or AwardRound ever wraps.                        *)
CoreInv(g) ==
  /\ Sound(g)
  /\ g.state \in {"Open", "Playing"} => Outcome(g) = "None"
  /\ IsFinished(g) => Outcome(g) = g.state
  /\ g.state # "Playing" => g.pending = NoPending

(* No queued pre-commit can be applied.                                     *)
Drained(g) == g.state = "Playing" => g.pending[ToMove(g)] = <<>>

Entries(g) == Len(g.pending[0]) + Len(g.pending[1])

(* At most n more iterations of drain_pending do anything.                  *)
Settles(g, n) == CoreInv(g) /\ (Drained(g) \/ Entries(g) <= n)

---------------------------------------------------------------------------
(* rules.rs *)

LEMMA MarkType ==
  ASSUME NEW creator_mark \in Marks, NEW round, NEW seat
  PROVE  MarkForSeat(creator_mark, round, seat) \in Marks
BY DEF MarkForSeat, Opposite, Marks

LEMMA SeatType ==
  ASSUME NEW creator_mark, NEW round, NEW board
  PROVE  SeatToMove(creator_mark, round, board) \in Seats
BY DEF SeatToMove, Seats

LEMMA CounterTypes ==
  ASSUME NEW g, Sound(g)
  PROVE  /\ g.round_wins \in [Seats -> Nat] /\ g.draws \in Nat
         /\ g.rounds_total \in 1..U8_MAX /\ U8_MAX \in Nat
         /\ g.round_wins[0] \in Nat /\ g.round_wins[1] \in Nat
BY GameAssumption DEF Sound, GameBody, Seats

(* match_outcome of counters that do not exceed the match: a match with no  *)
(* result has a round left to play.                                         *)
LEMMA OutcomeProperties ==
  ASSUME NEW g, Sound(g)
  PROVE  /\ Outcome(g) \in Finals \cup {"None"}
         /\ Outcome(g) = "None" => Closed(g) < g.rounds_total
<1> QED BY CounterTypes DEF Outcome, MatchOutcome, Remaining, Closed, Finals

(* The u8 sums of a sound game are the natural ones. *)
LEMMA RoundIsClosed ==
  ASSUME NEW g, Sound(g)
  PROVE  Round(g) = Closed(g)
<1> QED BY CounterTypes DEF Round, Add8, Closed, Sound

---------------------------------------------------------------------------
(* action/game.rs *)

(* Closing a round of a sound game that is being played: the match goes on  *)
(* with a clear board, or ends with the result of its counters.             *)
LEMMA CloseRoundInv ==
  ASSUME NEW g, Sound(g), g.state = "Playing"
  PROVE  /\ CoreInv(CloseRound(g))
         /\ CloseRound(g).pending \in {g.pending, NoPending}
<1>1. EmptyBoard \in [Cells -> Marks \cup {"Empty"}]
  BY DEF EmptyBoard
<1>2. NoPending \in [Seats -> Seq(Cells)] /\ \A s \in Seats : Len(NoPending[s]) <= PENDING_CAP
  BY GameAssumption DEF NoPending
<1>3. Outcome(g) \in Finals \cup {"None"}
  BY OutcomeProperties
<1>4. CASE Outcome(g) = "None"
  <2> DEFINE h == [g EXCEPT !.board = EmptyBoard]
  <2>1. CloseRound(g) = h
    BY <1>4 DEF CloseRound
  <2>2. /\ h.round_wins = g.round_wins /\ h.draws = g.draws /\ h.rounds_total = g.rounds_total
        /\ h.pending = g.pending /\ h.state = "Playing"
    BY DEF Sound, GameBody
  <2>3. h \in GameBody
    BY <1>1 DEF Sound, GameBody
  <2>4. Outcome(h) = Outcome(g) /\ Closed(h) = Closed(g)
    BY <2>2 DEF Outcome, Closed
  <2> HIDE DEF h
  <2> QED BY <1>4, <2>1, <2>2, <2>3, <2>4 DEF CoreInv, Sound, IsFinished, Finals
<1>5. CASE Outcome(g) # "None"
  <2> DEFINE h == [g EXCEPT !.board = EmptyBoard, !.state = Outcome(g), !.pending = NoPending]
  <2>1. CloseRound(g) = h
    BY <1>5 DEF CloseRound
  <2>2. /\ h.round_wins = g.round_wins /\ h.draws = g.draws /\ h.rounds_total = g.rounds_total
        /\ h.pending = NoPending /\ h.state = Outcome(g)
    BY DEF Sound, GameBody
  <2>3. h \in GameBody
    BY <1>1, <1>2, <1>3, <1>5 DEF Sound, GameBody, States
  <2>4. Outcome(h) = Outcome(g) /\ Closed(h) = Closed(g)
    BY <2>2 DEF Outcome, Closed
  <2> HIDE DEF h
  <2>5. Outcome(g) \in Finals
    BY <1>3, <1>5
  <2> QED BY <1>2, <2>1, <2>2, <2>3, <2>4, <2>5 DEF CoreInv, Sound, IsFinished, Finals
<1> QED BY <1>4, <1>5

(* One more round for either seat, or one more draw, in a match that has    *)
(* no result yet: no counter wraps.                                         *)
LEMMA AwardRoundSound ==
  ASSUME NEW g, Sound(g), g.state = "Playing", Outcome(g) = "None", NEW seat \in Seats
  PROVE  /\ Sound(AwardRound(g, seat))
         /\ AwardRound(g, seat).state = "Playing"
         /\ AwardRound(g, seat).pending = g.pending
<1> DEFINE h == AwardRound(g, seat)
<1>1. /\ g.round_wins \in [Seats -> Nat] /\ g.draws \in Nat
      /\ g.rounds_total \in 1..U8_MAX /\ U8_MAX \in Nat /\ Closed(g) < g.rounds_total
  BY CounterTypes, OutcomeProperties
<1>2. Add8(g.round_wins[seat], 1) = g.round_wins[seat] + 1
  BY <1>1 DEF Add8, Closed, Seats
<1>3. /\ h.round_wins = [g.round_wins EXCEPT ![seat] = @ + 1]
      /\ h.draws = g.draws /\ h.rounds_total = g.rounds_total
      /\ h.pending = g.pending /\ h.state = "Playing"
  BY <1>2 DEF AwardRound, Sound, GameBody
<1>4. Closed(h) = Closed(g) + 1
  BY <1>1, <1>3 DEF Closed, Seats
<1>5. g.round_wins[seat] + 1 \in 0..U8_MAX
  BY <1>1 DEF Closed, Seats
<1>6. h \in GameBody
  BY <1>2, <1>5 DEF AwardRound, Sound, GameBody
<1> HIDE DEF h
<1>7. Closed(h) <= h.rounds_total
  <2>1. Closed(g) \in Nat
    BY <1>1 DEF Closed, Seats
  <2> QED BY <1>1, <1>3, <1>4, <2>1
<1>8. \A s \in Seats : Len(h.pending[s]) <= PENDING_CAP
  BY <1>3 DEF Sound
<1>9. Sound(h)
  BY <1>6, <1>7, <1>8 DEF Sound
<1> QED BY <1>3, <1>9 DEF h

LEMMA DrawSound ==
  ASSUME NEW g, Sound(g), g.state = "Playing", Outcome(g) = "None",
         NEW h, h = [g EXCEPT !.draws = Add8(@, 1)]
  PROVE  /\ Sound(h)
         /\ h.state = "Playing"
         /\ h.pending = g.pending
<1>1. /\ g.round_wins \in [Seats -> Nat] /\ g.draws \in Nat
      /\ g.rounds_total \in 1..U8_MAX /\ U8_MAX \in Nat /\ Closed(g) < g.rounds_total
  BY CounterTypes, OutcomeProperties
<1>2. Add8(g.draws, 1) = g.draws + 1 /\ g.draws + 1 \in 0..U8_MAX
  BY <1>1 DEF Add8, Closed, Seats
<1>3. /\ h.round_wins = g.round_wins
      /\ h.draws = g.draws + 1 /\ h.rounds_total = g.rounds_total
      /\ h.pending = g.pending /\ h.state = "Playing"
  BY <1>2 DEF Sound, GameBody
<1>4. Closed(h) = Closed(g) + 1
  BY <1>1, <1>3 DEF Closed, Seats
<1>5. h \in GameBody
  BY <1>2 DEF Sound, GameBody
<1>6. Closed(h) <= h.rounds_total
  <2>1. Closed(g) \in Nat
    BY <1>1 DEF Closed, Seats
  <2> QED BY <1>1, <1>3, <1>4, <2>1
<1>7. \A s \in Seats : Len(h.pending[s]) <= PENDING_CAP
  BY <1>3 DEF Sound
<1>8. Sound(h)
  BY <1>5, <1>6, <1>7 DEF Sound
<1> QED BY <1>3, <1>8

(* apply_move leaves a game in a state its counters call for, and touches   *)
(* no queue unless it ends the match.                                       *)
LEMMA ApplyMoveInv ==
  ASSUME NEW g, CoreInv(g), g.state = "Playing",
         NEW seat \in Seats, NEW cell \in Cells, NEW at \in 0..U64_MAX
  PROVE  /\ CoreInv(ApplyMove(g, seat, cell, at))
         /\ ApplyMove(g, seat, cell, at).pending \in {g.pending, NoPending}
<1> DEFINE mark == MarkForSeat(g.creator_mark, Round(g), seat)
           placed == [g EXCEPT !.board[cell] = mark, !.last_move_at = at]
           drawn == [placed EXCEPT !.draws = Add8(@, 1)]
<1>1. mark \in Marks
  BY MarkType DEF CoreInv, Sound, GameBody
<1>2. placed \in GameBody
  BY <1>1 DEF CoreInv, Sound, GameBody
<1>3. /\ placed.round_wins = g.round_wins /\ placed.draws = g.draws
      /\ placed.rounds_total = g.rounds_total
      /\ placed.pending = g.pending /\ placed.state = "Playing"
  BY DEF CoreInv, Sound, GameBody
<1> HIDE DEF mark
<1>4. ApplyMove(g, seat, cell, at) =
        IF Winner(placed.board) = mark THEN CloseRound(AwardRound(placed, seat))
        ELSE IF BoardFull(placed.board) THEN CloseRound(drawn) ELSE placed
  BY DEF ApplyMove, mark
<1> HIDE DEF placed
<1>5. Outcome(placed) = "None" /\ Closed(placed) = Closed(g)
  BY <1>3 DEF CoreInv, Outcome, Closed
<1>6. Sound(placed)
  BY <1>2, <1>3, <1>5 DEF CoreInv, Sound
<1>7. CoreInv(placed)
  BY <1>3, <1>5, <1>6 DEF CoreInv, IsFinished, Finals
<1>8. /\ CoreInv(CloseRound(AwardRound(placed, seat)))
      /\ CloseRound(AwardRound(placed, seat)).pending \in {g.pending, NoPending}
  BY <1>3, <1>5, <1>6, AwardRoundSound, CloseRoundInv
<1>9. /\ CoreInv(CloseRound(drawn))
      /\ CloseRound(drawn).pending \in {g.pending, NoPending}
  <2>1. Sound(drawn) /\ drawn.state = "Playing" /\ drawn.pending = placed.pending
    BY <1>3, <1>5, <1>6, DrawSound
  <2> HIDE DEF drawn
  <2> QED BY <1>3, <2>1, CloseRoundInv
<1> QED BY <1>3, <1>4, <1>7, <1>8, <1>9

(* commit_explicit, whose check has made room in the queue it appends to.   *)
LEMMA CommitExplicitInv ==
  ASSUME NEW g, CoreInv(g), g.state = "Playing",
         NEW seat \in Seats, NEW cell \in Cells, NEW at \in 0..U64_MAX,
         CanCommit(g, seat, cell)
  PROVE  CoreInv(CommitExplicit(g, seat, cell, at))
<1>1. CASE seat = ToMove(g)
  BY <1>1, ApplyMoveInv DEF CommitExplicit
<1>2. CASE seat # ToMove(g)
  <2> DEFINE h == [g EXCEPT !.pending[seat] = Append(@, cell)]
  <2>1. CommitExplicit(g, seat, cell, at) = h
    BY <1>2 DEF CommitExplicit
  <2>2. /\ g.pending \in [Seats -> Seq(Cells)]
        /\ Len(g.pending[seat]) < PENDING_CAP /\ PENDING_CAP \in Nat
        /\ \A s \in Seats : Len(g.pending[s]) <= PENDING_CAP
    BY <1>2, GameAssumption DEF CanCommit, CoreInv, Sound, GameBody
  <2>3. /\ Append(g.pending[seat], cell) \in Seq(Cells)
        /\ Len(Append(g.pending[seat], cell)) = Len(g.pending[seat]) + 1
        /\ Len(g.pending[seat]) \in Nat
    BY <2>2, AppendProperties, LenProperties
  <2>4. h.pending = [g.pending EXCEPT ![seat] = Append(@, cell)]
    BY DEF CoreInv, Sound, GameBody
  <2>5. \A s \in Seats : Len(h.pending[s]) <= PENDING_CAP
    BY <2>2, <2>3, <2>4
  <2>6. h \in GameBody
    BY <2>3 DEF CoreInv, Sound, GameBody
  <2>7. /\ h.round_wins = g.round_wins /\ h.draws = g.draws
        /\ h.rounds_total = g.rounds_total /\ h.state = "Playing"
    BY DEF CoreInv, Sound, GameBody
  <2> HIDE DEF h
  <2>8. Outcome(h) = "None" /\ Closed(h) <= h.rounds_total
    BY <2>7 DEF CoreInv, Sound, Outcome, Closed
  <2> QED BY <2>1, <2>5, <2>6, <2>7, <2>8 DEF CoreInv, Sound, IsFinished, Finals
<1> QED BY <1>1, <1>2

(* Taking the head off the queue of the seat to move. *)
LEMMA PopInv ==
  ASSUME NEW g, CoreInv(g), ~Drained(g),
         NEW popped, popped = [g EXCEPT !.pending[ToMove(g)] = Tail(@)]
  PROVE  /\ g.state = "Playing" /\ g.pending[ToMove(g)] # <<>>
         /\ g.pending \in [Seats -> Seq(Cells)] /\ ToMove(g) \in Seats
         /\ Head(g.pending[ToMove(g)]) \in Cells
         /\ CoreInv(popped)
         /\ popped = [g EXCEPT !.pending = [g.pending EXCEPT ![ToMove(g)] = Tail(@)]]
         /\ popped.state = "Playing"
         /\ popped.pending = [g.pending EXCEPT ![ToMove(g)] = Tail(@)]
<1> DEFINE seat == ToMove(g)
           queue == g.pending[seat]
<1>1. g.state = "Playing" /\ queue # <<>>
  BY DEF Drained
<1>2. seat \in Seats
  BY SeatType DEF ToMove
<1>3. g.pending \in [Seats -> Seq(Cells)] /\ \A s \in Seats : Len(g.pending[s]) <= PENDING_CAP
  BY DEF CoreInv, Sound, GameBody
<1>4. /\ popped.pending = [g.pending EXCEPT ![seat] = Tail(@)]
      /\ popped = [g EXCEPT !.pending = [g.pending EXCEPT ![seat] = Tail(@)]]
  BY DEF CoreInv, Sound, GameBody
<1> HIDE DEF seat
<1>5. /\ Head(queue) \in Cells /\ Tail(queue) \in Seq(Cells)
      /\ Len(Tail(queue)) = Len(queue) - 1 /\ Len(queue) \in Nat
  BY <1>1, <1>2, <1>3, HeadTailProperties, LenProperties
<1>6. \A s \in Seats : Len(popped.pending[s]) <= PENDING_CAP
  BY <1>2, <1>3, <1>4, <1>5, GameAssumption
<1>7. popped \in GameBody
  <2>1. [g.pending EXCEPT ![seat] = Tail(@)] \in [Seats -> Seq(Cells)]
    BY <1>2, <1>3, <1>5
  <2> QED BY <1>4, <2>1 DEF CoreInv, Sound, GameBody
<1>8. /\ popped.round_wins = g.round_wins /\ popped.draws = g.draws
      /\ popped.rounds_total = g.rounds_total /\ popped.state = "Playing"
  BY <1>1, <1>4 DEF CoreInv, Sound, GameBody
<1>9. Outcome(popped) = "None" /\ Closed(popped) <= popped.rounds_total
  BY <1>1, <1>8 DEF CoreInv, Sound, Outcome, Closed
<1>10. CoreInv(popped)
  BY <1>6, <1>7, <1>8, <1>9 DEF CoreInv, Sound, IsFinished, Finals
<1> QED BY <1>1, <1>2, <1>3, <1>4, <1>5, <1>8, <1>10 DEF seat

(* One iteration of drain_pending leaves a drained game alone, and pops an  *)
(* entry of any other.                                                      *)
LEMMA DrainOneInv ==
  ASSUME NEW g, CoreInv(g), NEW at \in 0..U64_MAX
  PROVE  /\ CoreInv(DrainOne(g, at))
         /\ Drained(g) => DrainOne(g, at) = g
         /\ ~Drained(g) => \/ Entries(DrainOne(g, at)) = Entries(g) - 1
                           \/ Entries(DrainOne(g, at)) = 0
<1>1. CASE Drained(g)
  BY <1>1 DEF Drained, DrainOne
<1>2. CASE ~Drained(g)
  <2> DEFINE seat == ToMove(g)
             queue == g.pending[seat]
             popped == [g EXCEPT !.pending[seat] = Tail(@)]
  <2>1. /\ g.state = "Playing" /\ queue # <<>> /\ seat \in Seats
        /\ g.pending \in [Seats -> Seq(Cells)] /\ Head(queue) \in Cells
        /\ CoreInv(popped) /\ popped.state = "Playing"
        /\ popped.pending = [g.pending EXCEPT ![seat] = Tail(@)]
    BY <1>2, PopInv
  <2>2. DrainOne(g, at) = IF g.board[Head(queue)] = "Empty"
                           THEN ApplyMove(popped, seat, Head(queue), at) ELSE popped
    BY <2>1 DEF DrainOne
  <2> HIDE DEF seat
  <2>3. Len(Tail(queue)) = Len(queue) - 1 /\ Len(queue) \in Nat
    BY <2>1, HeadTailProperties, LenProperties
  <2>4. Entries(popped) = Entries(g) - 1
    <3>1. /\ popped.pending[seat] = Tail(queue)
          /\ \A s \in Seats \ {seat} : popped.pending[s] = g.pending[s]
      BY <2>1
    <3>2. \A s \in Seats : Len(g.pending[s]) \in Nat
      BY <2>1, LenProperties
    <3> HIDE DEF popped
    <3> DEFINE a == Len(g.pending[0])
               b == Len(g.pending[1])
               c == Len(popped.pending[0])
               d == Len(popped.pending[1])
    <3>3. Entries(g) = a + b /\ Entries(popped) = c + d
      BY DEF Entries
    <3>4. a \in Nat /\ b \in Nat
      BY <3>2 DEF Seats
    <3>5. (c = a - 1 /\ d = b) \/ (c = a /\ d = b - 1)
      <4>1. CASE seat = 0
        <5>1. /\ popped.pending[0] = Tail(queue) /\ popped.pending[1] = g.pending[1]
              /\ queue = g.pending[0]
          BY <3>1, <4>1 DEF Seats
        <5> HIDE DEF queue
        <5> QED BY <2>3, <5>1
      <4>2. CASE seat = 1
        <5>1. /\ popped.pending[1] = Tail(queue) /\ popped.pending[0] = g.pending[0]
              /\ queue = g.pending[1]
          BY <3>1, <4>2 DEF Seats
        <5> HIDE DEF queue
        <5> QED BY <2>3, <5>1
      <4> QED BY <2>1, <4>1, <4>2 DEF Seats
    <3> HIDE DEF a, b, c, d
    <3> QED BY <3>3, <3>4, <3>5
  <2> HIDE DEF popped
  <2>5. /\ CoreInv(ApplyMove(popped, seat, Head(queue), at))
         /\ ApplyMove(popped, seat, Head(queue), at).pending \in {popped.pending, NoPending}
    BY <2>1, ApplyMoveInv
  <2>6. /\ CoreInv(DrainOne(g, at))
         /\ DrainOne(g, at).pending \in {popped.pending, NoPending}
    BY <2>1, <2>2, <2>5
  <2>7. Entries(DrainOne(g, at)) \in {Entries(popped), 0}
    <3>1. CASE DrainOne(g, at).pending = popped.pending
      BY <3>1 DEF Entries
    <3>2. CASE DrainOne(g, at).pending = NoPending
      <4>1. NoPending[0] = <<>> /\ NoPending[1] = <<>>
        BY DEF NoPending, Seats
      <4> DEFINE m == Len(<<>>)
      <4>2. m = 0 /\ Entries(DrainOne(g, at)) = m + m
        BY <3>2, <4>1, EmptySeq DEF Entries
      <4> HIDE DEF m
      <4> QED BY <4>2
    <3> QED BY <2>6, <3>1, <3>2
  <2> QED BY <1>2, <2>4, <2>6, <2>7
<1> QED BY <1>1, <1>2

LEMMA EntriesType ==
  ASSUME NEW g, CoreInv(g)
  PROVE  /\ Entries(g) \in Nat
         /\ Entries(g) <= 8
         /\ Entries(g) = 0 => Drained(g)
<1>1. \A s \in Seats : g.pending[s] \in Seq(Cells) /\ Len(g.pending[s]) <= PENDING_CAP
  BY DEF CoreInv, Sound, GameBody
<1>2. \A s \in Seats : Len(g.pending[s]) \in Nat /\ (Len(g.pending[s]) = 0 => g.pending[s] = <<>>)
  <2> SUFFICES ASSUME NEW s \in Seats
               PROVE  Len(g.pending[s]) \in Nat /\ (Len(g.pending[s]) = 0 => g.pending[s] = <<>>)
    OBVIOUS
  <2> QED BY <1>1, LenProperties, EmptySeq
<1>3. PENDING_CAP \in 1..4
  BY GameAssumption
<1>4. ToMove(g) \in Seats
  BY SeatType DEF ToMove
<1>5. 0 \in Seats /\ 1 \in Seats /\ (ToMove(g) = 0 \/ ToMove(g) = 1)
  BY <1>4 DEF Seats
<1>6. /\ Len(g.pending[0]) \in Nat /\ Len(g.pending[0]) <= 4
      /\ Len(g.pending[1]) \in Nat /\ Len(g.pending[1]) <= 4
  BY <1>1, <1>2, <1>3, <1>5
<1>7. Entries(g) = Len(g.pending[0]) + Len(g.pending[1])
  BY DEF Entries
<1>8. /\ Len(g.pending[0]) = 0 => g.pending[0] = <<>>
      /\ Len(g.pending[1]) = 0 => g.pending[1] = <<>>
  BY <1>2, <1>5
<1> DEFINE m == Len(g.pending[0])
           n == Len(g.pending[1])
<1>9. m \in Nat /\ m <= 4 /\ n \in Nat /\ n <= 4 /\ Entries(g) = m + n
  BY <1>6, <1>7
<1>10. (m = 0 => g.pending[0] = <<>>) /\ (n = 0 => g.pending[1] = <<>>)
  BY <1>8
<1> HIDE DEF m, n
<1>11. Entries(g) \in Nat /\ Entries(g) <= 8 /\ (Entries(g) = 0 => m = 0 /\ n = 0)
  BY <1>9
<1> QED BY <1>5, <1>10, <1>11 DEF Drained

LEMMA DrainOneSettles ==
  ASSUME NEW g, NEW at \in 0..U64_MAX, NEW n \in Nat, Settles(g, n + 1)
  PROVE  Settles(DrainOne(g, at), n)
<1>1. CoreInv(g) /\ CoreInv(DrainOne(g, at))
  BY DrainOneInv DEF Settles
<1>2. Entries(g) \in Nat /\ Entries(DrainOne(g, at)) \in Nat
  BY <1>1, EntriesType
<1>3. CASE Drained(g)
  BY <1>1, <1>3, DrainOneInv DEF Settles
<1>4. CASE ~Drained(g)
  BY <1>1, <1>2, <1>4, DrainOneInv DEF Settles
<1> QED BY <1>3, <1>4

(* The eight iterations of DrainPending are the whole loop of               *)
(* drain_pending: after them nothing queued can be applied.                 *)
THEOREM DrainPendingDrains ==
  ASSUME NEW g, CoreInv(g), NEW at \in 0..U64_MAX
  PROVE  CoreInv(DrainPending(g, at)) /\ Drained(DrainPending(g, at))
<1>1. ASSUME NEW h, NEW n \in Nat, Settles(h, n + 2) PROVE Settles(DrainTwo(h, at), n)
  <2>1. Settles(DrainOne(h, at), n + 1)
    BY <1>1, n + 1 \in Nat, (n + 1) + 1 = n + 2, DrainOneSettles
  <2> QED BY <2>1, DrainOneSettles DEF DrainTwo
<1>2. ASSUME NEW h, NEW n \in Nat, Settles(h, n + 4) PROVE Settles(DrainFour(h, at), n)
  <2>1. Settles(DrainTwo(h, at), n + 2)
    BY <1>1, <1>2, n + 2 \in Nat, (n + 2) + 2 = n + 4
  <2> QED BY <1>1, <2>1 DEF DrainFour
<1>3. Settles(g, 4 + 4)
  BY EntriesType DEF Settles
<1>4. Settles(DrainFour(g, at), 0 + 4)
  BY <1>2, <1>3
<1>5. Settles(DrainPending(g, at), 0)
  BY <1>2, <1>4 DEF DrainPending
<1> QED BY <1>5, EntriesType DEF Settles

---------------------------------------------------------------------------
(* The whole match: what no step breaks *)

(* The inductive invariant: the game's state is the one its counters call   *)
(* for, its queues are drained, and the two u64 readings are in range.      *)
MatchInv ==
  /\ CoreInv(game)
  /\ Drained(game)
  /\ now \in 0..U64_MAX
  /\ turn_ttl \in Ttls

LEMMA NewGameInv ==
  ASSUME NEW creator \in Users, NEW mark \in Marks, NEW rounds \in RoundTotals
  PROVE  LET g == NewGame(creator, mark, rounds) IN CoreInv(g) /\ Drained(g)
<1> DEFINE g == NewGame(creator, mark, rounds)
<1>1. /\ rounds \in 1..U8_MAX /\ U8_MAX \in Nat \ {0} /\ U64_MAX \in Nat /\ PENDING_CAP \in 1..4
  BY GameAssumption, MatchAssumption
<1>2. g \in GameBody
  BY <1>1 DEF NewGame, GameBody, States, EmptyBoard, NoPending
<1>3. \A s \in Seats : Len(g.pending[s]) <= PENDING_CAP
  BY <1>1 DEF NewGame, NoPending
<1>4. /\ g.round_wins[0] = 0 /\ g.round_wins[1] = 0 /\ g.draws = 0
      /\ g.rounds_total = rounds /\ g.state = "Open" /\ g.pending = NoPending
  BY DEF NewGame, Seats
<1> HIDE DEF g
<1>5. Closed(g) <= g.rounds_total
  BY <1>1, <1>4 DEF Closed
<1>6. Outcome(g) = "None"
  BY <1>1, <1>4 DEF Outcome, MatchOutcome, Remaining
<1>7. CoreInv(g) /\ Drained(g)
  BY <1>2, <1>3, <1>4, <1>5, <1>6 DEF CoreInv, Sound, Drained, IsFinished, Finals
<1> QED BY <1>7 DEF g

(* apply_join_game starts the match with empty queues. *)
LEMMA JoinInv ==
  ASSUME NEW g, CoreInv(g), g.state = "Open", NEW joiner \in Users, NEW t \in 0..U64_MAX
  PROVE  CoreInv(Join(g, joiner, t)) /\ Drained(Join(g, joiner, t))
<1> DEFINE h == Join(g, joiner, t)
<1>1. h \in GameBody
  BY DEF Join, CoreInv, Sound, GameBody, States, Seats
<1>2. /\ h.round_wins = g.round_wins /\ h.draws = g.draws /\ h.rounds_total = g.rounds_total
      /\ h.pending = g.pending /\ h.state = "Playing"
  BY DEF Join, CoreInv, Sound, GameBody
<1> HIDE DEF h
<1>3. Outcome(h) = "None" /\ Closed(h) <= h.rounds_total
  BY <1>2 DEF CoreInv, Sound, Outcome, Closed
<1>4. g.pending = NoPending
  BY DEF CoreInv
<1>5. h.pending[ToMove(h)] = <<>>
  BY <1>2, <1>4, SeatType DEF NoPending, ToMove
<1>6. CoreInv(h) /\ Drained(h)
  BY <1>1, <1>2, <1>3, <1>5 DEF CoreInv, Sound, Drained, IsFinished, Finals
<1> QED BY <1>6 DEF h

(* forfeit_round awards the round to the seat that was waiting. *)
LEMMA ForfeitInv ==
  ASSUME NEW g, CoreInv(g), g.state = "Playing", NEW t \in 0..U64_MAX
  PROVE  CoreInv(ForfeitRound(g, t)) /\ Drained(ForfeitRound(g, t))
<1> DEFINE seat == 1 - ToMove(g)
           awarded == AwardRound(g, seat)
           stamped == [awarded EXCEPT !.last_move_at = t]
<1>1. seat \in Seats
  BY SeatType DEF ToMove, Seats
<1> HIDE DEF seat
<1>2. Sound(awarded) /\ awarded.state = "Playing"
  BY <1>1, AwardRoundSound DEF CoreInv
<1>3. ForfeitRound(g, t) = DrainPending(CloseRound(stamped), t)
  BY DEF ForfeitRound, seat
<1> HIDE DEF awarded
<1>4. /\ stamped \in GameBody /\ stamped.state = "Playing" /\ stamped.pending = awarded.pending
      /\ stamped.round_wins = awarded.round_wins /\ stamped.draws = awarded.draws
      /\ stamped.rounds_total = awarded.rounds_total
  BY <1>2 DEF Sound, GameBody
<1> HIDE DEF stamped
<1>5. Sound(stamped)
  BY <1>2, <1>4 DEF Sound, Closed
<1> QED BY <1>3, <1>4, <1>5, CloseRoundInv, DrainPendingDrains

---------------------------------------------------------------------------

LEMMA MatchInvInit == Init => MatchInv
<1> SUFFICES ASSUME Init PROVE MatchInv
  OBVIOUS
<1>1. CoreInv(game) /\ Drained(game)
  BY NewGameInv DEF Init
<1>2. now \in 0..U64_MAX
  BY GameAssumption DEF Init
<1> QED BY <1>1, <1>2 DEF Init, MatchInv

LEMMA MatchInvNext == MatchInv /\ [Next]_vars => MatchInv'
<1> SUFFICES ASSUME MatchInv, [Next]_vars PROVE MatchInv'
  OBVIOUS
<1> USE DEF MatchInv
<1>1. ASSUME NEW joiner \in Users, JoinGame(joiner) PROVE MatchInv'
  <2>1. CoreInv(game') /\ Drained(game')
    BY <1>1, JoinInv DEF JoinGame
  <2> QED BY <1>1, <2>1 DEF JoinGame, CoreInv, Drained
<1>2. ASSUME NEW mover \in Users, NEW cell \in Cells, Turn(mover, cell) PROVE MatchInv'
  <2>1. PICK seat \in Seats :
          CanPlayTurn(game, seat, cell) /\ game' = PlayTurn(game, seat, cell, now)
    BY <1>2 DEF Turn
  <2>2. CoreInv(CommitExplicit(game, seat, cell, now))
    BY <2>1, CommitExplicitInv DEF CanPlayTurn
  <2>3. CoreInv(game') /\ Drained(game')
    BY <2>1, <2>2, DrainPendingDrains DEF PlayTurn
  <2> QED BY <1>2, <2>3 DEF Turn
<1>3. CASE Timeout
  <2>1. CoreInv(game') /\ Drained(game')
    BY <1>3, ForfeitInv DEF Timeout, CanForfeit
  <2> QED BY <1>3, <2>1 DEF Timeout
<1>4. ASSUME NEW ttl \in Ttls, UpdateTtl(ttl) PROVE MatchInv'
  BY <1>4 DEF UpdateTtl
<1>5. CASE Tick
  <2>1. now' \in 0..U64_MAX
    BY <1>5, GameAssumption, MatchAssumption DEF Tick
  <2> QED BY <1>5, <2>1 DEF Tick
<1>6. CASE UNCHANGED vars
  BY <1>6 DEF vars
<1> QED BY <1>1, <1>2, <1>3, <1>4, <1>5, <1>6 DEF Next

THEOREM MatchInvariant == Spec => []MatchInv
BY MatchInvInit, MatchInvNext, PTL DEF Spec

(* The wire layout is never outgrown: no counter passes its u8, no queue    *)
(* its ring (resources/game.rs).                                            *)
THEOREM MatchType == Spec => []TypeOK
<1>1. MatchInv => TypeOK
  BY DEF MatchInv, CoreInv, Sound, TypeOK
<1> QED BY <1>1, MatchInvariant, PTL

(* After every transaction the seat to move has no pre-commit left          *)
(* (drain_pending).                                                         *)
THEOREM MatchDrained == Spec => []QueueDrained
<1>1. MatchInv => QueueDrained
  BY DEF MatchInv, Drained, QueueDrained
<1> QED BY <1>1, MatchInvariant, PTL

---------------------------------------------------------------------------
(* The early end of a match: match_outcome against every way of playing on. *)

(* The score of a game value, as Score is of the variable. *)
ScoreOf(g) ==
  [first |-> g.round_wins[0], second |-> g.round_wins[1], drawn |-> g.draws]

(* match_outcome names a result exactly when all ways of playing the        *)
(* remaining rounds give it, and none while two ways disagree.              *)
LEMMA OutcomeIsCertain ==
  ASSUME NEW g, Sound(g)
  PROVE  /\ S!Played(ScoreOf(g)) <= g.rounds_total
         /\ Outcome(g) \in Finals => S!Certain(ScoreOf(g), g.rounds_total, Outcome(g))
         /\ Outcome(g) = "None" => S!Open(ScoreOf(g), g.rounds_total)
<1> DEFINE a == g.round_wins[0]
           b == g.round_wins[1]
           d == g.draws
           total == g.rounds_total
           left == total - (a + b + d)
           possible == S!PossibleVerdicts(ScoreOf(g), total)
<1>1. a \in Nat /\ b \in Nat /\ d \in Nat /\ total \in Nat /\ a + b + d <= total
  BY CounterTypes DEF Sound, Closed
<1>2. S!Played(ScoreOf(g)) = a + b + d
  BY DEF S!Played, ScoreOf
<1>3. Remaining(total, g.round_wins, d) = left
  BY <1>1 DEF Remaining
<1>4. Outcome(g) = IF a > b + left THEN "First"
                   ELSE IF b > a + left THEN "Second"
                   ELSE IF left = 0 THEN "Draw" ELSE "None"
  BY <1>3 DEF Outcome, MatchOutcome
<1>5. possible = { v \in S!Verdicts : \E f, t \in 0..left :
                     f + t <= left /\ v = S!Verdict(a + f, b + t) }
  BY <1>2 DEF S!PossibleVerdicts, ScoreOf
<1> HIDE DEF a, b, d, total, possible
<1>6. left \in Nat
  BY <1>1
<1> HIDE DEF left
<1>7. ASSUME NEW v \in S!Verdicts,
             \A f, t \in 0..left : f + t <= left => S!Verdict(a + f, b + t) = v
      PROVE  possible = {v}
  <2>1. 0 \in 0..left /\ 0 + 0 <= left
    BY <1>6
  <2>2. S!Verdict(a + 0, b + 0) = v
    BY <1>7, <2>1
  <2> QED BY <1>5, <1>7, <2>1, <2>2
<1>8. CASE a > b + left
  <2>1. \A f, t \in 0..left : f + t <= left => S!Verdict(a + f, b + t) = "First"
    BY <1>1, <1>6, <1>8 DEF S!Verdict
  <2>2. possible = {"First"}
    BY <1>7, <2>1 DEF S!Verdicts
  <2> QED BY <1>1, <1>2, <1>4, <1>8, <2>2 DEF S!Certain, possible, total
<1>9. CASE b > a + left
  <2>1. \A f, t \in 0..left : f + t <= left => S!Verdict(a + f, b + t) = "Second"
    BY <1>1, <1>6, <1>9 DEF S!Verdict
  <2>2. possible = {"Second"}
    BY <1>7, <2>1 DEF S!Verdicts
  <2>3. ~(a > b + left)
    BY <1>1, <1>6, <1>9
  <2> QED BY <1>1, <1>2, <1>4, <1>9, <2>2, <2>3 DEF S!Certain, possible, total
<1>10. CASE ~(a > b + left) /\ ~(b > a + left) /\ left = 0
  <2>1. \A f, t \in 0..left : f + t <= left => S!Verdict(a + f, b + t) = "Draw"
    BY <1>1, <1>6, <1>10 DEF S!Verdict
  <2>2. possible = {"Draw"}
    BY <1>7, <2>1 DEF S!Verdicts
  <2> QED BY <1>1, <1>2, <1>4, <1>10, <2>2 DEF S!Certain, possible, total
<1>11. CASE ~(a > b + left) /\ ~(b > a + left) /\ left # 0
  <2>1. /\ 0 \in 0..left /\ left \in 0..left /\ 0 + 0 <= left
        /\ left + 0 <= left /\ 0 + left <= left
    BY <1>6
  <2>2. ASSUME NEW f \in 0..left, NEW t \in 0..left, f + t <= left
        PROVE  S!Verdict(a + f, b + t) \in possible
    BY <1>5, <2>2 DEF S!Verdict, S!Verdicts
  <2>3. S!Verdict(a + left, b + 0) \in possible /\ S!Verdict(a + 0, b + left) \in possible
    BY <2>1, <2>2
  <2>4. S!Verdict(a + 0, b + 0) \in possible
    BY <2>1, <2>2
  <2>5. \/ S!Verdict(a + left, b + 0) # S!Verdict(a + 0, b + left)
        \/ S!Verdict(a + left, b + 0) # S!Verdict(a + 0, b + 0)
    BY <1>1, <1>6, <1>11 DEF S!Verdict
  <2>6. \A v \in S!Verdicts : possible # {v}
    BY <2>3, <2>4, <2>5
  <2>7. S!Open(ScoreOf(g), total)
    BY <2>6 DEF S!Open, S!Certain, possible, S!Verdicts
  <2> QED BY <1>1, <1>2, <1>4, <1>11, <2>7 DEF Finals, total
<1> QED BY <1>8, <1>9, <1>10, <1>11

(* A match ends at the first moment its result is certain, with that        *)
(* result, and never closes more rounds than it has (match_outcome,         *)
(* end_match_if_decided).                                                   *)
THEOREM MatchCertain == Spec => []ResultIsCertain
<1>1. MatchInv => ResultIsCertain
  <2> SUFFICES ASSUME MatchInv PROVE ResultIsCertain
    OBVIOUS
  <2>1. Sound(game) /\ Score = ScoreOf(game) /\ game.state \in States
    BY DEF MatchInv, CoreInv, Sound, GameBody, Score, ScoreOf
  <2>2. IsFinished(game) => Outcome(game) = game.state /\ game.state \in Finals
    BY DEF MatchInv, CoreInv, IsFinished
  <2>3. ~IsFinished(game) => Outcome(game) = "None"
    BY <2>1 DEF MatchInv, CoreInv, IsFinished, States
  <2> QED BY <2>1, <2>2, <2>3, OutcomeIsCertain DEF ResultIsCertain
<1> QED BY <1>1, MatchInvariant, PTL

---------------------------------------------------------------------------
(* The match as a series: what a transaction leaves of a match *)

(* What one transaction may make of a match that is played: the players and *)
(* the number of rounds stay, the stamp is the old one or the chain's, the  *)
(* score grows, and the last round of a match that ends was played at a     *)
(* score that still was open.                                               *)
Continues(g, h, t) ==
  /\ h.players = g.players
  /\ h.rounds_total = g.rounds_total
  /\ h.last_move_at \in {g.last_move_at, t}
  /\ h.state \in {"Playing"} \cup Finals
  /\ S!AtLeast(ScoreOf(h), ScoreOf(g))
  /\ h.state # "Playing" =>
       \E before \in S!OneRoundLess(ScoreOf(h)) :
         S!AtLeast(before, ScoreOf(g)) /\ S!Open(before, g.rounds_total)

Reaches(g, h, t) == CoreInv(h) /\ Continues(g, h, t)

---------------------------------------------------------------------------
(* Scores *)

LEMMA ScoreType ==
  ASSUME NEW g, Sound(g)
  PROVE  ScoreOf(g) \in S!Scores
BY DEF ScoreOf, Sound, GameBody, S!Scores, Seats

LEMMA AtLeastOrder ==
  /\ \A s \in S!Scores : S!AtLeast(s, s)
  /\ \A r, s, t \in S!Scores : S!AtLeast(r, s) /\ S!AtLeast(s, t) => S!AtLeast(r, t)
BY GameAssumption DEF S!AtLeast, S!Scores

(* A score with one more round in it. *)
LEMMA OneMoreRound ==
  ASSUME NEW s \in S!Scores, NEW r \in S!Scores,
         \/ r = [s EXCEPT !.first = @ + 1]
         \/ r = [s EXCEPT !.second = @ + 1]
         \/ r = [s EXCEPT !.drawn = @ + 1]
  PROVE  s \in S!OneRoundLess(r) /\ S!AtLeast(r, s)
<1>1. /\ s.first \in Nat /\ s.second \in Nat /\ s.drawn \in Nat
      /\ s = [first |-> s.first, second |-> s.second, drawn |-> s.drawn]
  BY GameAssumption DEF S!Scores
<1>2. \/ s = [r EXCEPT !.first = @ - 1]
      \/ s = [r EXCEPT !.second = @ - 1]
      \/ s = [r EXCEPT !.drawn = @ - 1]
  <2>1. CASE r = [s EXCEPT !.first = @ + 1]
    <3>1. r.first = s.first + 1 /\ r.second = s.second /\ r.drawn = s.drawn
      BY <2>1 DEF S!Scores
    <3>2. [r EXCEPT !.first = @ - 1]
         = [first |-> r.first - 1, second |-> r.second, drawn |-> r.drawn]
      BY DEF S!Scores
    <3>3. r.first - 1 = s.first
      BY <1>1, <3>1
    <3> QED BY <1>1, <3>1, <3>2, <3>3
  <2>2. CASE r = [s EXCEPT !.second = @ + 1]
    <3>1. r.first = s.first /\ r.second = s.second + 1 /\ r.drawn = s.drawn
      BY <2>2 DEF S!Scores
    <3>2. [r EXCEPT !.second = @ - 1]
         = [first |-> r.first, second |-> r.second - 1, drawn |-> r.drawn]
      BY DEF S!Scores
    <3>3. r.second - 1 = s.second
      BY <1>1, <3>1
    <3> QED BY <1>1, <3>1, <3>2, <3>3
  <2>3. CASE r = [s EXCEPT !.drawn = @ + 1]
    <3>1. r.first = s.first /\ r.second = s.second /\ r.drawn = s.drawn + 1
      BY <2>3 DEF S!Scores
    <3>2. [r EXCEPT !.drawn = @ - 1]
         = [first |-> r.first, second |-> r.second, drawn |-> r.drawn - 1]
      BY DEF S!Scores
    <3>3. r.drawn - 1 = s.drawn
      BY <1>1, <3>1
    <3> QED BY <1>1, <3>1, <3>2, <3>3
  <2> QED BY <2>1, <2>2, <2>3
<1>3. s \in S!OneRoundLess(r)
  BY <1>2 DEF S!OneRoundLess
<1>4. S!AtLeast(r, s)
  BY <1>1 DEF S!AtLeast, S!Scores
<1> QED BY <1>3, <1>4

---------------------------------------------------------------------------
(* One transaction *)

LEMMA ContinuesOn ==
  ASSUME NEW f, Sound(f), NEW g, Sound(g), NEW h, Sound(h), NEW t,
         Continues(f, g, t), g.state = "Playing", Continues(g, h, t)
  PROVE  Continues(f, h, t)
<1>1. ScoreOf(f) \in S!Scores /\ ScoreOf(g) \in S!Scores /\ ScoreOf(h) \in S!Scores
  BY ScoreType
<1>2. S!OneRoundLess(ScoreOf(h)) \subseteq S!Scores
  BY DEF S!OneRoundLess
<1> QED BY <1>1, <1>2, AtLeastOrder DEF Continues

(* h is g with one more round, not yet closed. *)
LEMMA CloseRoundContinues ==
  ASSUME NEW g, CoreInv(g), g.state = "Playing", NEW t,
         NEW h, Sound(h), h.state = "Playing", h.players = g.players,
         h.rounds_total = g.rounds_total, h.last_move_at \in {g.last_move_at, t},
         ScoreOf(g) \in S!OneRoundLess(ScoreOf(h)), S!AtLeast(ScoreOf(h), ScoreOf(g))
  PROVE  Reaches(g, CloseRound(h), t)
<1> DEFINE c == CloseRound(h)
<1>1. CoreInv(c)
  BY CloseRoundInv
<1>2. Outcome(h) \in Finals \cup {"None"}
  BY OutcomeProperties
<1>3. /\ c.players = h.players /\ c.rounds_total = h.rounds_total
      /\ c.last_move_at = h.last_move_at
      /\ c.round_wins = h.round_wins /\ c.draws = h.draws
      /\ c.state \in {"Playing"} \cup Finals
  <2>1. CASE Outcome(h) = "None"
    <3>1. c = [h EXCEPT !.board = EmptyBoard]
      BY <2>1 DEF CloseRound
    <3> QED BY <3>1 DEF Sound, GameBody
  <2>2. CASE Outcome(h) # "None"
    <3>1. c = [h EXCEPT !.board = EmptyBoard, !.state = Outcome(h), !.pending = NoPending]
      BY <2>2 DEF CloseRound
    <3>2. Outcome(h) \in Finals
      BY <1>2, <2>2
    <3> QED BY <3>1, <3>2 DEF Sound, GameBody
  <2> QED BY <2>1, <2>2
<1> HIDE DEF c
<1>4. ScoreOf(c) = ScoreOf(h)
  BY <1>3 DEF ScoreOf
<1>5. S!Open(ScoreOf(g), g.rounds_total)
  BY OutcomeIsCertain DEF CoreInv
<1>6. S!AtLeast(ScoreOf(g), ScoreOf(g))
  BY ScoreType, AtLeastOrder DEF CoreInv
<1>7. Continues(g, c, t)
  BY <1>3, <1>4, <1>5, <1>6 DEF Continues
<1> QED BY <1>1, <1>7 DEF Reaches, c

(* The round a seat has won, and the draw, add one round to the score.      *)
LEMMA AwardRoundScore ==
  ASSUME NEW g, Sound(g), g.state = "Playing", Outcome(g) = "None", NEW seat \in Seats
  PROVE  LET h == AwardRound(g, seat)
         IN  /\ ScoreOf(g) \in S!OneRoundLess(ScoreOf(h)) /\ S!AtLeast(ScoreOf(h), ScoreOf(g))
             /\ h.players = g.players /\ h.rounds_total = g.rounds_total
             /\ h.last_move_at = g.last_move_at
<1> DEFINE h == AwardRound(g, seat)
<1>1. Sound(h)
  BY AwardRoundSound
<1>2. /\ g.round_wins \in [Seats -> Nat] /\ g.draws \in Nat
      /\ g.rounds_total \in 1..U8_MAX /\ U8_MAX \in Nat /\ Closed(g) < g.rounds_total
  BY CounterTypes, OutcomeProperties
<1>3. Add8(g.round_wins[seat], 1) = g.round_wins[seat] + 1
  BY <1>2 DEF Add8, Closed, Seats
<1>4. /\ h.round_wins = [g.round_wins EXCEPT ![seat] = @ + 1] /\ h.draws = g.draws
      /\ h.players = g.players /\ h.rounds_total = g.rounds_total
      /\ h.last_move_at = g.last_move_at
  BY <1>3 DEF AwardRound, Sound, GameBody
<1> HIDE DEF h
<1>5. \/ ScoreOf(h) = [ScoreOf(g) EXCEPT !.first = @ + 1]
      \/ ScoreOf(h) = [ScoreOf(g) EXCEPT !.second = @ + 1]
  <2>1. CASE seat = 0
    <3>1. h.round_wins[0] = g.round_wins[0] + 1 /\ h.round_wins[1] = g.round_wins[1]
      BY <1>2, <1>4, <2>1 DEF Seats
    <3> QED BY <1>4, <3>1 DEF ScoreOf
  <2>2. CASE seat = 1
    <3>1. h.round_wins[1] = g.round_wins[1] + 1 /\ h.round_wins[0] = g.round_wins[0]
      BY <1>2, <1>4, <2>2 DEF Seats
    <3> QED BY <1>4, <3>1 DEF ScoreOf
  <2> QED BY <2>1, <2>2 DEF Seats
<1>6. ScoreOf(g) \in S!OneRoundLess(ScoreOf(h)) /\ S!AtLeast(ScoreOf(h), ScoreOf(g))
  BY <1>1, <1>5, ScoreType, OneMoreRound
<1> QED BY <1>4, <1>6 DEF h

LEMMA DrawScore ==
  ASSUME NEW g, Sound(g), g.state = "Playing", Outcome(g) = "None",
         NEW h, h = [g EXCEPT !.draws = Add8(@, 1)]
  PROVE  /\ ScoreOf(g) \in S!OneRoundLess(ScoreOf(h)) /\ S!AtLeast(ScoreOf(h), ScoreOf(g))
         /\ h.players = g.players /\ h.rounds_total = g.rounds_total
         /\ h.last_move_at = g.last_move_at
<1>1. Sound(h)
  BY DrawSound
<1>2. /\ g.round_wins \in [Seats -> Nat] /\ g.draws \in Nat
      /\ g.rounds_total \in 1..U8_MAX /\ U8_MAX \in Nat /\ Closed(g) < g.rounds_total
  BY CounterTypes, OutcomeProperties
<1>3. Add8(g.draws, 1) = g.draws + 1
  BY <1>2 DEF Add8, Closed, Seats
<1>4. /\ h.round_wins = g.round_wins /\ h.draws = g.draws + 1
      /\ h.players = g.players /\ h.rounds_total = g.rounds_total
      /\ h.last_move_at = g.last_move_at
  BY <1>3 DEF Sound, GameBody
<1>5. ScoreOf(h) = [ScoreOf(g) EXCEPT !.drawn = @ + 1]
  BY <1>4 DEF ScoreOf
<1>6. ScoreOf(g) \in S!OneRoundLess(ScoreOf(h)) /\ S!AtLeast(ScoreOf(h), ScoreOf(g))
  BY <1>1, <1>5, ScoreType, OneMoreRound
<1> QED BY <1>4, <1>6

LEMMA ApplyMoveContinues ==
  ASSUME NEW g, CoreInv(g), g.state = "Playing",
         NEW seat \in Seats, NEW cell \in Cells, NEW t \in 0..U64_MAX
  PROVE  Reaches(g, ApplyMove(g, seat, cell, t), t)
<1> DEFINE mark == MarkForSeat(g.creator_mark, Round(g), seat)
           placed == [g EXCEPT !.board[cell] = mark, !.last_move_at = t]
           drawn == [placed EXCEPT !.draws = Add8(@, 1)]
           won == AwardRound(placed, seat)
<1>1. mark \in Marks
  BY MarkType DEF CoreInv, Sound, GameBody
<1>2. placed \in GameBody
  BY <1>1 DEF CoreInv, Sound, GameBody
<1>3. /\ placed.round_wins = g.round_wins /\ placed.draws = g.draws
      /\ placed.rounds_total = g.rounds_total /\ placed.players = g.players
      /\ placed.last_move_at = t
      /\ placed.pending = g.pending /\ placed.state = "Playing"
  BY DEF CoreInv, Sound, GameBody
<1> HIDE DEF mark
<1>4. ApplyMove(g, seat, cell, t) =
        IF Winner(placed.board) = mark THEN CloseRound(won)
        ELSE IF BoardFull(placed.board) THEN CloseRound(drawn) ELSE placed
  BY DEF ApplyMove, mark
<1> HIDE DEF placed
<1>5. Outcome(placed) = "None" /\ Closed(placed) = Closed(g) /\ ScoreOf(placed) = ScoreOf(g)
  BY <1>3 DEF CoreInv, Outcome, Closed, ScoreOf
<1>6. Sound(placed)
  BY <1>2, <1>3, <1>5 DEF CoreInv, Sound
<1>7. Reaches(g, placed, t)
  <2>1. CoreInv(placed)
    BY <1>3, <1>5, <1>6 DEF CoreInv, IsFinished, Finals
  <2>2. S!AtLeast(ScoreOf(placed), ScoreOf(g))
    BY <1>5, ScoreType, AtLeastOrder DEF CoreInv
  <2> QED BY <1>3, <2>1, <2>2 DEF Reaches, Continues
<1>8. Reaches(g, CloseRound(won), t)
  <2>1. Sound(won) /\ won.state = "Playing"
    BY <1>3, <1>5, <1>6, AwardRoundSound
  <2>2. /\ ScoreOf(g) \in S!OneRoundLess(ScoreOf(won)) /\ S!AtLeast(ScoreOf(won), ScoreOf(g))
        /\ won.players = g.players /\ won.rounds_total = g.rounds_total
        /\ won.last_move_at = t
    BY <1>3, <1>5, <1>6, AwardRoundScore
  <2> HIDE DEF won
  <2> QED BY <2>1, <2>2, CloseRoundContinues
<1>9. Reaches(g, CloseRound(drawn), t)
  <2>1. Sound(drawn) /\ drawn.state = "Playing"
    BY <1>3, <1>5, <1>6, DrawSound
  <2>2. /\ ScoreOf(g) \in S!OneRoundLess(ScoreOf(drawn))
        /\ S!AtLeast(ScoreOf(drawn), ScoreOf(g))
        /\ drawn.players = g.players /\ drawn.rounds_total = g.rounds_total
        /\ drawn.last_move_at = t
    BY <1>3, <1>5, <1>6, DrawScore
  <2> HIDE DEF drawn
  <2> QED BY <2>1, <2>2, CloseRoundContinues
<1> QED BY <1>4, <1>7, <1>8, <1>9

(* A change of the queues alone. *)
LEMMA QueuesContinue ==
  ASSUME NEW g, CoreInv(g), g.state = "Playing", NEW t,
         NEW pending, NEW h, h = [g EXCEPT !.pending = pending], CoreInv(h)
  PROVE  Reaches(g, h, t) /\ h.state = "Playing"
<1>1. /\ h.players = g.players /\ h.rounds_total = g.rounds_total
      /\ h.last_move_at = g.last_move_at /\ h.state = "Playing"
      /\ h.round_wins = g.round_wins /\ h.draws = g.draws
  BY DEF CoreInv, Sound, GameBody
<1>2. ScoreOf(h) = ScoreOf(g)
  BY <1>1 DEF ScoreOf
<1>3. S!AtLeast(ScoreOf(g), ScoreOf(g))
  BY ScoreType, AtLeastOrder DEF CoreInv
<1> QED BY <1>1, <1>2, <1>3 DEF Reaches, Continues

LEMMA CommitExplicitContinues ==
  ASSUME NEW g, CoreInv(g), g.state = "Playing",
         NEW seat \in Seats, NEW cell \in Cells, NEW t \in 0..U64_MAX,
         CanCommit(g, seat, cell)
  PROVE  Reaches(g, CommitExplicit(g, seat, cell, t), t)
<1>1. CASE seat = ToMove(g)
  BY <1>1, ApplyMoveContinues DEF CommitExplicit
<1>2. CASE seat # ToMove(g)
  <2> DEFINE pending == [g.pending EXCEPT ![seat] = Append(@, cell)]
             h == [g EXCEPT !.pending = pending]
  <2>1. CommitExplicit(g, seat, cell, t) = h
    BY <1>2 DEF CommitExplicit, CoreInv, Sound, GameBody
  <2>2. CoreInv(h)
    BY <2>1, CommitExplicitInv
  <2> HIDE DEF pending
  <2> QED BY <2>1, <2>2, QueuesContinue
<1> QED BY <1>1, <1>2

(* One iteration of drain_pending. *)
LEMMA DrainOneContinues ==
  ASSUME NEW f, CoreInv(f), NEW t \in 0..U64_MAX, NEW g, Reaches(f, g, t)
  PROVE  Reaches(f, DrainOne(g, t), t)
<1>1. CoreInv(g) /\ CoreInv(DrainOne(g, t))
  BY DrainOneInv DEF Reaches
<1>2. CASE Drained(g)
  BY <1>1, <1>2, DrainOneInv
<1>3. CASE ~Drained(g)
  <2> DEFINE seat == ToMove(g)
             queue == g.pending[seat]
             pending == [g.pending EXCEPT ![seat] = Tail(@)]
             popped == [g EXCEPT !.pending[seat] = Tail(@)]
             moved == ApplyMove(popped, seat, Head(queue), t)
  <2>1. /\ g.state = "Playing" /\ queue # <<>> /\ seat \in Seats /\ Head(queue) \in Cells
        /\ CoreInv(popped) /\ popped = [g EXCEPT !.pending = pending]
    BY <1>1, <1>3, PopInv
  <2>2. DrainOne(g, t) = IF g.board[Head(queue)] = "Empty" THEN moved ELSE popped
    BY <2>1 DEF DrainOne
  <2> HIDE DEF seat, popped
  <2>3. Reaches(g, popped, t) /\ popped.state = "Playing"
    <3> HIDE DEF pending
    <3> QED BY <1>1, <2>1, QueuesContinue
  <2>4. Reaches(popped, moved, t)
    BY <2>1, <2>3, ApplyMoveContinues
  <2> HIDE DEF moved
  <2>5. Reaches(f, popped, t)
    BY <1>1, <2>1, <2>3, ContinuesOn DEF Reaches, CoreInv
  <2>6. Reaches(f, moved, t)
    BY <2>3, <2>4, <2>5, ContinuesOn DEF Reaches, CoreInv
  <2> QED BY <2>2, <2>5, <2>6
<1> QED BY <1>2, <1>3

LEMMA DrainPendingContinues ==
  ASSUME NEW f, CoreInv(f), NEW t \in 0..U64_MAX, NEW g, Reaches(f, g, t)
  PROVE  Reaches(f, DrainPending(g, t), t)
<1>1. ASSUME NEW h, Reaches(f, h, t) PROVE Reaches(f, DrainTwo(h, t), t)
  BY <1>1, DrainOneContinues DEF DrainTwo
<1>2. ASSUME NEW h, Reaches(f, h, t) PROVE Reaches(f, DrainFour(h, t), t)
  BY <1>1, <1>2 DEF DrainFour
<1> QED BY <1>2 DEF DrainPending

(* A cascade stamps with the chain's clock only. *)
LEMMA DrainKeepsStamp ==
  ASSUME NEW g, CoreInv(g), NEW t \in 0..U64_MAX, g.last_move_at = t
  PROVE  DrainPending(g, t).last_move_at = t
<1>1. CASE g.state = "Playing"
  <2>1. Reaches(g, g, t)
    BY <1>1, ScoreType, AtLeastOrder DEF Reaches, Continues, CoreInv
  <2>2. Reaches(g, DrainPending(g, t), t)
    BY <2>1, DrainPendingContinues
  <2> QED BY <2>2 DEF Reaches, Continues
<1>2. CASE g.state # "Playing"
  <2>1. DrainOne(g, t) = g
    BY <1>2 DEF DrainOne
  <2> QED BY <2>1 DEF DrainPending, DrainFour, DrainTwo
<1> QED BY <1>1, <1>2

(* A Timeout gives the round to the seat that waits and stamps the match;   *)
(* the cascade follows.                                                     *)
LEMMA ForfeitContinues ==
  ASSUME NEW g, CoreInv(g), g.state = "Playing", NEW t \in 0..U64_MAX
  PROVE  Reaches(g, ForfeitRound(g, t), t) /\ ForfeitRound(g, t).last_move_at = t
<1> DEFINE seat == 1 - ToMove(g)
           awarded == AwardRound(g, seat)
           stamped == [awarded EXCEPT !.last_move_at = t]
<1>1. seat \in Seats
  BY SeatType DEF ToMove, Seats
<1> HIDE DEF seat
<1>2. Sound(awarded) /\ awarded.state = "Playing"
  BY <1>1, AwardRoundSound DEF CoreInv
<1>3. /\ ScoreOf(g) \in S!OneRoundLess(ScoreOf(awarded))
      /\ S!AtLeast(ScoreOf(awarded), ScoreOf(g))
      /\ awarded.players = g.players /\ awarded.rounds_total = g.rounds_total
  BY <1>1, AwardRoundScore DEF CoreInv
<1>4. ForfeitRound(g, t) = DrainPending(CloseRound(stamped), t)
  BY DEF ForfeitRound, seat
<1> HIDE DEF awarded
<1>5. /\ stamped \in GameBody /\ stamped.state = "Playing" /\ stamped.pending = awarded.pending
      /\ stamped.round_wins = awarded.round_wins /\ stamped.draws = awarded.draws
      /\ stamped.rounds_total = awarded.rounds_total /\ stamped.players = awarded.players
      /\ stamped.last_move_at = t
  BY <1>2 DEF Sound, GameBody
<1> HIDE DEF stamped
<1>6. Sound(stamped) /\ ScoreOf(stamped) = ScoreOf(awarded)
  BY <1>2, <1>5 DEF Sound, Closed, ScoreOf
<1>7. Reaches(g, CloseRound(stamped), t)
  BY <1>3, <1>5, <1>6, CloseRoundContinues
<1>8. CoreInv(CloseRound(stamped)) /\ CloseRound(stamped).last_move_at = t
  BY <1>5, <1>7 DEF Reaches, CloseRound, GameBody
<1> QED BY <1>4, <1>7, <1>8, DrainPendingContinues, DrainKeepsStamp

(* A Turn or a Timeout of the match. *)
LEMMA PlayContinues ==
  ASSUME MatchInv, Timeout \/ \E mover \in Users, cell \in Cells : Turn(mover, cell)
  PROVE  Reaches(game, game', now) /\ game.state = "Playing" /\ UNCHANGED <<now, turn_ttl>>
<1>1. CASE Timeout
  BY <1>1, ForfeitContinues DEF Timeout, CanForfeit, MatchInv
<1>2. ASSUME NEW mover \in Users, NEW cell \in Cells, Turn(mover, cell)
      PROVE  Reaches(game, game', now) /\ game.state = "Playing" /\ UNCHANGED <<now, turn_ttl>>
  <2>1. PICK seat \in Seats :
          CanPlayTurn(game, seat, cell) /\ game' = PlayTurn(game, seat, cell, now)
    BY <1>2 DEF Turn
  <2>2. game.state = "Playing" /\ CanCommit(game, seat, cell)
    BY <2>1 DEF CanPlayTurn
  <2>3. Reaches(game, CommitExplicit(game, seat, cell, now), now)
    BY <2>2, CommitExplicitContinues DEF MatchInv
  <2>4. Reaches(game, game', now)
    BY <2>1, <2>3, DrainPendingContinues DEF PlayTurn, MatchInv
  <2> QED BY <1>2, <2>2, <2>4 DEF Turn
<1> QED BY <1>1, <1>2

---------------------------------------------------------------------------
(* The match as a series *)

LEMMA SeriesStarts == Init => S!SeriesInit
<1> SUFFICES ASSUME Init PROVE S!SeriesInit
  OBVIOUS
<1>1. PICK creator \in Users, mark \in Marks, rounds \in RoundTotals :
        game = NewGame(creator, mark, rounds)
  BY DEF Init
<1>2. /\ game.state = "Open" /\ game.rounds_total = rounds
      /\ game.round_wins[0] = 0 /\ game.round_wins[1] = 0 /\ game.draws = 0
  BY <1>1 DEF NewGame, Seats
<1> QED BY <1>2, MatchAssumption DEF S!SeriesInit, Score

LEMMA SeriesSteps == MatchInv /\ MatchInv' /\ [Next]_vars => [S!SeriesNext]_(S!seriesVars)
<1> SUFFICES ASSUME MatchInv, MatchInv', [Next]_vars PROVE [S!SeriesNext]_(S!seriesVars)
  OBVIOUS
<1>1. /\ Sound(game) /\ Sound(game') /\ CoreInv(game')
      /\ Score = ScoreOf(game) /\ Score' = ScoreOf(game')
  BY DEF MatchInv, CoreInv, Score, ScoreOf
<1>2. ASSUME NEW joiner \in Users, JoinGame(joiner) PROVE S!Start
  <2>1. /\ game'.state = "Playing" /\ game'.rounds_total = game.rounds_total
        /\ game'.round_wins = game.round_wins /\ game'.draws = game.draws
    BY <1>1, <1>2 DEF JoinGame, Join, Sound, GameBody
  <2> QED BY <1>2, <2>1 DEF JoinGame, S!Start, Score
<1>3. CASE Timeout \/ \E mover \in Users, cell \in Cells : Turn(mover, cell)
  <2>1. CoreInv(game') /\ Continues(game, game', now) /\ game.state = "Playing"
    BY <1>3, PlayContinues DEF Reaches
  <2>2. /\ Score' \in S!Scores /\ S!Played(Score') <= game.rounds_total
        /\ game'.rounds_total = game.rounds_total /\ S!AtLeast(Score', Score)
    BY <1>1, <2>1, ScoreType, OutcomeIsCertain DEF Continues
  <2>3. CASE game'.state = "Playing"
    <3>1. S!Open(Score', game.rounds_total)
      BY <1>1, <2>1, <2>2, <2>3, OutcomeIsCertain DEF CoreInv
    <3>2. S!PlayOn
      BY <2>1, <2>2, <2>3, <3>1 DEF S!PlayOn
    <3> QED BY <3>2 DEF S!SeriesNext
  <2>4. CASE game'.state # "Playing"
    <3>1. game'.state \in Finals /\ Outcome(game') = game'.state
      BY <2>1, <2>4 DEF Continues, CoreInv, IsFinished
    <3>2. S!Certain(Score', game.rounds_total, game'.state)
      BY <1>1, <2>2, <3>1, OutcomeIsCertain
    <3>3. \E before \in S!OneRoundLess(Score') :
            S!AtLeast(before, Score) /\ S!Open(before, game.rounds_total)
      BY <1>1, <2>1, <2>4 DEF Continues
    <3>4. S!Finish
      BY <2>1, <2>2, <3>1, <3>2, <3>3 DEF S!Finish, S!Verdicts, Finals
    <3> QED BY <3>4 DEF S!SeriesNext
  <2> QED BY <2>3, <2>4
<1>4. CASE UNCHANGED game
  BY <1>4 DEF S!seriesVars, Score
<1>5. CASE Tick \/ \E ttl \in Ttls : UpdateTtl(ttl)
  BY <1>4, <1>5 DEF Tick, UpdateTtl
<1>6. CASE UNCHANGED vars
  BY <1>4, <1>6 DEF vars
<1> QED BY <1>2, <1>3, <1>5, <1>6 DEF Next, S!SeriesNext

(* A match announces its result at the first moment it is certain and keeps *)
(* it, whatever cascade crossed round boundaries in between                 *)
(* (end_match_if_decided, drain_pending).                                   *)
THEOREM MatchIsSeries == Spec => IsSeries
<1>1. Spec => S!SeriesSpec
  BY SeriesStarts, SeriesSteps, MatchInvariant, PTL DEF Spec, S!SeriesSpec
<1> QED BY <1>1 DEF IsSeries

---------------------------------------------------------------------------
(* The clock and the players *)

LEMMA EndsCleanInit == Init => EndsClean
<1> SUFFICES ASSUME Init PROVE EndsClean
  OBVIOUS
<1>1. PICK creator \in Users, mark \in Marks, rounds \in RoundTotals :
        game = NewGame(creator, mark, rounds)
  BY DEF Init
<1>2. /\ game.state = "Open" /\ game.last_move_at = 0 /\ game.pending = NoPending
      /\ game.players[0] = creator /\ game.players[1] = NoUser
  BY <1>1 DEF NewGame, Seats
<1>3. creator # NoUser
  BY GameAssumption
<1> QED BY <1>2, <1>3 DEF Init, EndsClean

LEMMA EndsCleanNext == MatchInv /\ MatchInv' /\ EndsClean /\ [Next]_vars => EndsClean'
<1> SUFFICES ASSUME MatchInv, MatchInv', EndsClean, [Next]_vars PROVE EndsClean'
  OBVIOUS
<1>1. /\ now \in Nat /\ game.last_move_at \in Nat
      /\ game'.state # "Playing" => game'.pending = NoPending
  BY GameAssumption DEF MatchInv, CoreInv, Sound, GameBody
<1>2. ASSUME NEW joiner \in Users, JoinGame(joiner) PROVE EndsClean'
  <2>1. /\ game'.state = "Playing" /\ game'.last_move_at = now /\ now' = now
        /\ game'.players[1] = joiner /\ game'.players[0] = game.players[0]
        /\ game.state = "Open" /\ joiner # game.players[0]
    BY <1>2 DEF JoinGame, Join, MatchInv, CoreInv, Sound, GameBody, Seats
  <2>2. joiner # NoUser
    BY GameAssumption
  <2> QED BY <1>1, <2>1, <2>2 DEF EndsClean
<1>3. CASE Timeout \/ \E mover \in Users, cell \in Cells : Turn(mover, cell)
  <2>1. Continues(game, game', now) /\ game.state = "Playing" /\ now' = now
    BY <1>3, PlayContinues DEF Reaches
  <2>2. game'.state # "Open"
    BY <2>1 DEF Continues, Finals
  <2> QED BY <1>1, <2>1, <2>2 DEF Continues, EndsClean
<1>4. CASE Tick
  BY <1>1, <1>4 DEF Tick, EndsClean
<1>5. ASSUME NEW ttl \in Ttls, UpdateTtl(ttl) PROVE EndsClean'
  BY <1>5 DEF UpdateTtl, EndsClean
<1>6. CASE UNCHANGED vars
  BY <1>6 DEF vars, EndsClean
<1> QED BY <1>2, <1>3, <1>4, <1>5, <1>6 DEF Next

(* The stamp a Timeout is measured from never runs ahead of the chain, a    *)
(* joined game has two players, and one that is not played has no queues    *)
(* (apply_join_game, clear_pending).                                        *)
THEOREM MatchEndsClean == Spec => []EndsClean
BY EndsCleanInit, EndsCleanNext, MatchInvariant, PTL DEF Spec

---------------------------------------------------------------------------
(* Timeouts *)

(* A Timeout restarts the clock of the round it opens, whatever its cascade *)
(* plays: no second one can claim in the same block (forfeit_round).        *)
THEOREM MatchTimesOutOnce == Spec => RepeatedTimeoutRejects
<1>1. ASSUME MatchInv, Timeout, turn_ttl > 0
      PROVE  ~CanForfeit(game, turn_ttl, now)'
  <2>1. /\ game' = ForfeitRound(game, now) /\ game.state = "Playing"
        /\ UNCHANGED <<now, turn_ttl>>
    BY <1>1 DEF Timeout, CanForfeit
  <2>2. CoreInv(game) /\ now \in 0..U64_MAX /\ turn_ttl \in Nat
    BY <1>1, MatchAssumption, GameAssumption DEF MatchInv
  <2>3. game'.last_move_at = now
    BY <2>1, <2>2, ForfeitContinues
  <2>4. ~(now >= now + turn_ttl)
    BY <1>1, <2>2, GameAssumption
  <2> QED BY <2>1, <2>3, <2>4 DEF CanForfeit
<1> QED BY <1>1, MatchInvariant, PTL DEF RepeatedTimeoutRejects

---------------------------------------------------------------------------
(* The board and the queues: what a cascade may play, for every board, line *)
(* set, capacity and number of rounds                                       *)

Boards == [Cells -> Marks \cup {"Empty"}]

CellsWith(board, mark) == {c \in Cells : board[c] = mark}

(* LiveBoard of a game value. *)
Live(g) ==
  /\ \A m \in Marks : ~HasLine(g.board, m)
  /\ \E c \in Cells : g.board[c] = "Empty"
  /\ Cardinality(CellsWith(g.board, "X")) - Cardinality(CellsWith(g.board, "O")) \in {0, 1}
  /\ g.state # "Playing" => g.board = EmptyBoard

LEMMA LiveIsLiveBoard == LiveBoard <=> Live(game)
BY DEF LiveBoard, Live, Count, CellsWith

---------------------------------------------------------------------------
(* Boards *)

LEMMA CellCounts ==
  ASSUME NEW board \in Boards
  PROVE  /\ \A m \in Marks : /\ IsFiniteSet(CellsWith(board, m))
                             /\ Cardinality(CellsWith(board, m)) \in Nat
         /\ Plies(board) = Cardinality(CellsWith(board, "X")) + Cardinality(CellsWith(board, "O"))
<1> DEFINE xs == CellsWith(board, "X")
           os == CellsWith(board, "O")
<1>1. \A m \in Marks : CellsWith(board, m) \subseteq Cells
  BY DEF CellsWith
<1>2. \A m \in Marks : IsFiniteSet(CellsWith(board, m))
  BY <1>1, GameAssumption, FS_Subset
<1>3. \A m \in Marks : Cardinality(CellsWith(board, m)) \in Nat
  BY <1>2, FS_CardinalityType
<1>4. IsFiniteSet(xs) /\ IsFiniteSet(os) /\ xs \cap os = {}
  BY <1>2 DEF Marks, CellsWith
<1>5. {c \in Cells : board[c] # "Empty"} = xs \cup os
  BY DEF Boards, Marks, CellsWith
<1>6. Cardinality(xs \cup os) = Cardinality(xs) + Cardinality(os)
  <2> HIDE DEF xs, os
  <2>1. /\ Cardinality(xs \cup os) = Cardinality(xs) + Cardinality(os) - Cardinality(xs \cap os)
        /\ Cardinality(xs) \in Nat /\ Cardinality(os) \in Nat
    BY <1>4, FS_Union, FS_CardinalityType
  <2>2. Cardinality(xs \cap os) = 0
    BY <1>4, FS_EmptySet
  <2> QED BY <2>1, <2>2
<1> QED BY <1>2, <1>3, <1>5, <1>6 DEF Plies

(* A new board is one to play on: it has a cell, and no line is empty.      *)
LEMMA EmptyBoardLives ==
  ASSUME NEW g, g.board = EmptyBoard
  PROVE  Live(g)
<1>1. \A m \in Marks : ~HasLine(EmptyBoard, m)
  <2> SUFFICES ASSUME NEW m \in Marks, NEW line \in Lines, Holds(EmptyBoard, m, line)
               PROVE  FALSE
    BY DEF HasLine
  <2>1. PICK c \in line : c \in Cells
    BY GameAssumption
  <2> QED BY <2>1 DEF Holds, EmptyBoard, Marks
<1>2. \E c \in Cells : EmptyBoard[c] = "Empty"
  BY GameAssumption DEF EmptyBoard
<1>3. CellsWith(EmptyBoard, "X") = {} /\ CellsWith(EmptyBoard, "O") = {}
  BY DEF CellsWith, EmptyBoard
<1>4. Cardinality(CellsWith(EmptyBoard, "X")) = 0 /\ Cardinality(CellsWith(EmptyBoard, "O")) = 0
  BY <1>3, FS_EmptySet
<1>5. Cardinality(CellsWith(EmptyBoard, "X")) - Cardinality(CellsWith(EmptyBoard, "O")) = 0
  BY <1>4
<1> QED BY <1>1, <1>2, <1>5 DEF Live

LEMMA PlaceMark ==
  ASSUME NEW board \in Boards, NEW cell \in Cells, board[cell] = "Empty", NEW mark \in Marks
  PROVE  LET b == [board EXCEPT ![cell] = mark]
         IN  /\ b \in Boards
             /\ Cardinality(CellsWith(b, mark)) = Cardinality(CellsWith(board, mark)) + 1
             /\ \A m \in Marks \ {mark} : /\ CellsWith(b, m) = CellsWith(board, m)
                                          /\ HasLine(b, m) => HasLine(board, m)
<1> DEFINE b == [board EXCEPT ![cell] = mark]
<1>1. b \in Boards /\ \A c \in Cells : b[c] = IF c = cell THEN mark ELSE board[c]
  BY DEF Boards
<1>2. /\ cell \notin CellsWith(board, mark)
      /\ CellsWith(b, mark) = CellsWith(board, mark) \cup {cell}
  BY <1>1 DEF CellsWith, Marks
<1>3. Cardinality(CellsWith(b, mark)) = Cardinality(CellsWith(board, mark)) + 1
  BY <1>2, CellCounts, FS_AddElement
<1>4. ASSUME NEW m \in Marks \ {mark}
      PROVE  /\ CellsWith(b, m) = CellsWith(board, m)
             /\ HasLine(b, m) => HasLine(board, m)
  <2>1. CellsWith(b, m) = CellsWith(board, m)
    BY <1>1, <1>4 DEF CellsWith, Marks
  <2>2. ASSUME NEW line \in Lines, Holds(b, m, line) PROVE Holds(board, m, line)
    BY <1>1, <1>4, <2>2, GameAssumption DEF Holds
  <2> QED BY <2>1, <2>2 DEF HasLine
<1> QED BY <1>1, <1>3, <1>4

(* The seat to move owns the mark that keeps the two level.                 *)
LEMMA MoverMark ==
  ASSUME NEW g, CoreInv(g), Live(g)
  PROVE  LET mark == MarkForSeat(g.creator_mark, Round(g), ToMove(g))
             xs == Cardinality(CellsWith(g.board, "X"))
             os == Cardinality(CellsWith(g.board, "O"))
         IN  \/ mark = "X" /\ xs = os
             \/ mark = "O" /\ xs = os + 1
<1> DEFINE mark == MarkForSeat(g.creator_mark, Round(g), ToMove(g))
           xs == Cardinality(CellsWith(g.board, "X"))
           os == Cardinality(CellsWith(g.board, "O"))
<1>1. g.board \in Boards /\ g.creator_mark \in Marks
  BY DEF CoreInv, Sound, GameBody, Boards
<1>2. xs \in Nat /\ os \in Nat /\ Plies(g.board) = xs + os
  BY <1>1, CellCounts DEF Marks
<1>3. xs = os \/ xs = os + 1
  BY <1>2 DEF Live
<1>4. mark = IF Plies(g.board) % 2 = 0 THEN "X" ELSE "O"
  BY <1>1 DEF ToMove, SeatToMove, MarkForSeat, Opposite, Marks
<1> HIDE DEF xs, os, mark
<1>5. (xs = os => (xs + os) % 2 = 0) /\ (xs = os + 1 => (xs + os) % 2 = 1)
  <2>1. \A k \in Nat : (k + k) % 2 = 0 /\ (k + 1 + k) % 2 = 1
    OBVIOUS
  <2> QED BY <1>2, <2>1
<1>6. (mark = "X" /\ xs = os) \/ (mark = "O" /\ xs = os + 1)
  BY <1>2, <1>3, <1>4, <1>5
<1> QED BY <1>6 DEF mark, xs, os

---------------------------------------------------------------------------
(* One transaction *)

LEMMA CloseRoundClears ==
  ASSUME NEW g, Sound(g)
  PROVE  CloseRound(g).board = EmptyBoard
BY DEF CloseRound, Sound, GameBody

(* A move of the seat to move: the round goes on with one mark more, or a   *)
(* new one begins.                                                          *)
LEMMA ApplyMoveLives ==
  ASSUME NEW g, CoreInv(g), Live(g), g.state = "Playing",
         NEW cell \in Cells, g.board[cell] = "Empty", NEW t \in 0..U64_MAX
  PROVE  Live(ApplyMove(g, ToMove(g), cell, t))
<1> DEFINE seat == ToMove(g)
           mark == MarkForSeat(g.creator_mark, Round(g), seat)
           placed == [g EXCEPT !.board[cell] = mark, !.last_move_at = t]
           drawn == [placed EXCEPT !.draws = Add8(@, 1)]
           won == AwardRound(placed, seat)
<1>1. mark \in Marks /\ seat \in Seats /\ g.board \in Boards
  BY MarkType, SeatType DEF CoreInv, Sound, GameBody, ToMove, Boards
<1>2. placed \in GameBody
  BY <1>1 DEF CoreInv, Sound, GameBody
<1>3. /\ placed.round_wins = g.round_wins /\ placed.draws = g.draws
      /\ placed.rounds_total = g.rounds_total
      /\ placed.pending = g.pending /\ placed.state = "Playing"
      /\ placed.board = [g.board EXCEPT ![cell] = mark]
  BY DEF CoreInv, Sound, GameBody
<1>4. \/ mark = "X" /\ Cardinality(CellsWith(g.board, "X")) = Cardinality(CellsWith(g.board, "O"))
      \/ mark = "O" /\ Cardinality(CellsWith(g.board, "X"))
                       = Cardinality(CellsWith(g.board, "O")) + 1
  BY MoverMark
<1> HIDE DEF mark
<1>5. ApplyMove(g, seat, cell, t) =
        IF Winner(placed.board) = mark THEN CloseRound(won)
        ELSE IF BoardFull(placed.board) THEN CloseRound(drawn) ELSE placed
  BY DEF ApplyMove, mark
<1> HIDE DEF placed, seat
<1>6. Outcome(placed) = "None" /\ Sound(placed)
  BY <1>2, <1>3 DEF CoreInv, Sound, Outcome, Closed
<1>7. Live(CloseRound(won)) /\ Live(CloseRound(drawn))
  <2>1. Sound(won) /\ Sound(drawn)
    BY <1>1, <1>3, <1>6, AwardRoundSound, DrawSound
  <2> HIDE DEF won, drawn
  <2> QED BY <2>1, CloseRoundClears, EmptyBoardLives
<1>8. ASSUME Winner(placed.board) # mark, ~BoardFull(placed.board) PROVE Live(placed)
  <2> DEFINE b == placed.board
  <2>1. /\ b \in Boards
        /\ Cardinality(CellsWith(b, mark)) = Cardinality(CellsWith(g.board, mark)) + 1
        /\ \A m \in Marks \ {mark} : /\ CellsWith(b, m) = CellsWith(g.board, m)
                                     /\ HasLine(b, m) => HasLine(g.board, m)
    BY <1>1, <1>3, PlaceMark
  <2> HIDE DEF b
  <2>2. \A m \in Marks \ {mark} : ~HasLine(b, m)
    BY <2>1 DEF Live
  <2>3. ~HasLine(b, mark)
    <3> SUFFICES ASSUME HasLine(b, mark) PROVE FALSE
      OBVIOUS
    <3>1. \A m \in Marks : HasLine(b, m) <=> m = mark
      BY <1>1, <2>2
    <3>2. Winner(b) = CHOOSE m \in Marks : HasLine(b, m)
      BY <1>1 DEF Winner
    <3>3. (CHOOSE m \in Marks : HasLine(b, m)) = mark
      BY <1>1, <3>1
    <3> QED BY <1>8, <3>2, <3>3 DEF b
  <2>4. \E c \in Cells : b[c] = "Empty"
    <3> SUFFICES ASSUME \A c \in Cells : b[c] # "Empty" PROVE FALSE
      OBVIOUS
    <3>1. {c \in Cells : b[c] # "Empty"} = Cells
      OBVIOUS
    <3> QED BY <1>8, <3>1 DEF BoardFull, Plies, b
  <2>5. Cardinality(CellsWith(b, "X")) - Cardinality(CellsWith(b, "O")) \in {0, 1}
    <3>1. /\ Cardinality(CellsWith(g.board, "X")) \in Nat
          /\ Cardinality(CellsWith(g.board, "O")) \in Nat
      BY <1>1, CellCounts DEF Marks
    <3>2. CASE mark = "X"
      <4>1. CellsWith(b, "O") = CellsWith(g.board, "O")
        BY <2>1, <3>2 DEF Marks
      <4> QED BY <1>4, <2>1, <3>1, <3>2, <4>1
    <3>3. CASE mark = "O"
      <4>1. CellsWith(b, "X") = CellsWith(g.board, "X")
        BY <2>1, <3>3 DEF Marks
      <4> QED BY <1>4, <2>1, <3>1, <3>3, <4>1
    <3> QED BY <1>1, <3>2, <3>3 DEF Marks
  <2> QED BY <1>1, <1>3, <2>2, <2>3, <2>4, <2>5 DEF Live, b
<1>9. Live(ApplyMove(g, seat, cell, t))
  BY <1>5, <1>7, <1>8
<1> QED BY <1>9 DEF seat

(* Queues do not matter to a board. *)
LEMMA QueuesLive ==
  ASSUME NEW g, CoreInv(g), Live(g), NEW pending, NEW h, h = [g EXCEPT !.pending = pending]
  PROVE  Live(h) /\ h.board = g.board /\ h.state = g.state /\ ToMove(h) = ToMove(g)
<1>1. /\ h.board = g.board /\ h.state = g.state /\ h.creator_mark = g.creator_mark
      /\ h.round_wins = g.round_wins /\ h.draws = g.draws
  BY DEF CoreInv, Sound, GameBody
<1> QED BY <1>1 DEF Live, ToMove, Round

LEMMA CommitExplicitLives ==
  ASSUME NEW g, CoreInv(g), Live(g), g.state = "Playing",
         NEW seat \in Seats, NEW cell \in Cells, NEW t \in 0..U64_MAX,
         CanCommit(g, seat, cell)
  PROVE  Live(CommitExplicit(g, seat, cell, t))
<1>1. CASE seat = ToMove(g)
  BY <1>1, ApplyMoveLives DEF CommitExplicit, CanCommit
<1>2. CASE seat # ToMove(g)
  <2> DEFINE pending == [g.pending EXCEPT ![seat] = Append(@, cell)]
  <2>1. CommitExplicit(g, seat, cell, t) = [g EXCEPT !.pending = pending]
    BY <1>2 DEF CommitExplicit, CoreInv, Sound, GameBody
  <2> HIDE DEF pending
  <2> QED BY <2>1, QueuesLive
<1> QED BY <1>1, <1>2

LEMMA DrainOneLives ==
  ASSUME NEW g, CoreInv(g), Live(g), NEW t \in 0..U64_MAX
  PROVE  CoreInv(DrainOne(g, t)) /\ Live(DrainOne(g, t))
<1>1. CoreInv(DrainOne(g, t))
  BY DrainOneInv
<1>2. CASE Drained(g)
  BY <1>1, <1>2, DrainOneInv
<1>3. CASE ~Drained(g)
  <2> DEFINE seat == ToMove(g)
             queue == g.pending[seat]
             pending == [g.pending EXCEPT ![seat] = Tail(@)]
             popped == [g EXCEPT !.pending[seat] = Tail(@)]
  <2>1. /\ g.state = "Playing" /\ queue # <<>> /\ Head(queue) \in Cells
        /\ CoreInv(popped) /\ popped = [g EXCEPT !.pending = pending]
    BY <1>3, PopInv
  <2>2. DrainOne(g, t) = IF g.board[Head(queue)] = "Empty"
                         THEN ApplyMove(popped, seat, Head(queue), t) ELSE popped
    BY <2>1 DEF DrainOne
  <2> HIDE DEF seat, popped
  <2>3. /\ Live(popped) /\ popped.board = g.board /\ popped.state = "Playing"
        /\ ToMove(popped) = seat
    <3> HIDE DEF pending
    <3> QED BY <2>1, QueuesLive DEF seat
  <2>4. g.board[Head(queue)] = "Empty" => Live(ApplyMove(popped, seat, Head(queue), t))
    <3> HIDE DEF queue
    <3> QED BY <2>1, <2>3, ApplyMoveLives
  <2> QED BY <1>1, <2>2, <2>3, <2>4
<1> QED BY <1>2, <1>3

LEMMA DrainPendingLives ==
  ASSUME NEW g, CoreInv(g), Live(g), NEW t \in 0..U64_MAX
  PROVE  Live(DrainPending(g, t))
<1> DEFINE Ok(h) == CoreInv(h) /\ Live(h)
<1>1. ASSUME NEW h, Ok(h) PROVE Ok(DrainTwo(h, t))
  BY <1>1, DrainOneLives DEF DrainTwo
<1> HIDE DEF Ok
<1>2. ASSUME NEW h, Ok(h) PROVE Ok(DrainFour(h, t))
  BY <1>1, <1>2 DEF DrainFour
<1>3. Ok(g)
  BY DEF Ok
<1>4. Ok(DrainPending(g, t))
  BY <1>2, <1>3 DEF DrainPending
<1> QED BY <1>4 DEF Ok

(* A Timeout clears the board; the cascade plays on the new one. *)
LEMMA ForfeitLives ==
  ASSUME NEW g, CoreInv(g), g.state = "Playing", NEW t \in 0..U64_MAX
  PROVE  Live(ForfeitRound(g, t))
<1> DEFINE seat == 1 - ToMove(g)
           awarded == AwardRound(g, seat)
           stamped == [awarded EXCEPT !.last_move_at = t]
<1>1. seat \in Seats
  BY SeatType DEF ToMove, Seats
<1> HIDE DEF seat
<1>2. Sound(awarded) /\ awarded.state = "Playing"
  BY <1>1, AwardRoundSound DEF CoreInv
<1>3. ForfeitRound(g, t) = DrainPending(CloseRound(stamped), t)
  BY DEF ForfeitRound, seat
<1> HIDE DEF awarded
<1>4. /\ stamped \in GameBody /\ stamped.state = "Playing" /\ stamped.pending = awarded.pending
      /\ stamped.round_wins = awarded.round_wins /\ stamped.draws = awarded.draws
      /\ stamped.rounds_total = awarded.rounds_total
  BY <1>2 DEF Sound, GameBody
<1> HIDE DEF stamped
<1>5. Sound(stamped)
  BY <1>2, <1>4 DEF Sound, Closed
<1>6. CoreInv(CloseRound(stamped)) /\ Live(CloseRound(stamped))
  BY <1>4, <1>5, CloseRoundInv, CloseRoundClears, EmptyBoardLives
<1> QED BY <1>3, <1>6, DrainPendingLives

---------------------------------------------------------------------------

LEMMA LiveInit == Init => Live(game)
<1> SUFFICES ASSUME Init PROVE Live(game)
  OBVIOUS
<1>1. game.board = EmptyBoard
  BY DEF Init, NewGame
<1> QED BY <1>1, EmptyBoardLives

LEMMA LiveNext == MatchInv /\ Live(game) /\ [Next]_vars => Live(game')
<1> SUFFICES ASSUME MatchInv, Live(game), [Next]_vars PROVE Live(game')
  OBVIOUS
<1>1. CoreInv(game) /\ now \in 0..U64_MAX
  BY DEF MatchInv
<1>2. ASSUME NEW joiner \in Users, JoinGame(joiner) PROVE Live(game')
  <2>1. game.board = EmptyBoard /\ game'.board = game.board
    BY <1>1, <1>2 DEF JoinGame, Join, Live, CoreInv, Sound, GameBody
  <2> QED BY <2>1, EmptyBoardLives
<1>3. ASSUME NEW mover \in Users, NEW cell \in Cells, Turn(mover, cell) PROVE Live(game')
  <2>1. PICK seat \in Seats :
          CanPlayTurn(game, seat, cell) /\ game' = PlayTurn(game, seat, cell, now)
    BY <1>3 DEF Turn
  <2>2. game.state = "Playing" /\ CanCommit(game, seat, cell)
    BY <2>1 DEF CanPlayTurn
  <2>3. /\ CoreInv(CommitExplicit(game, seat, cell, now))
        /\ Live(CommitExplicit(game, seat, cell, now))
    BY <1>1, <2>2, CommitExplicitInv, CommitExplicitLives
  <2> QED BY <1>1, <2>1, <2>3, DrainPendingLives DEF PlayTurn
<1>4. CASE Timeout
  BY <1>1, <1>4, ForfeitLives DEF Timeout, CanForfeit
<1>5. CASE Tick \/ \E ttl \in Ttls : UpdateTtl(ttl)
  BY <1>5 DEF Tick, UpdateTtl
<1>6. CASE UNCHANGED vars
  BY <1>6 DEF vars
<1> QED BY <1>2, <1>3, <1>4, <1>5, <1>6 DEF Next

(* No move is played on a decided or a full board, and X is level with O or *)
(* one ahead, whatever mix of live, queued and dropped moves filled it      *)
(* (apply_move, close_round).                                               *)
THEOREM MatchLiveBoard == Spec => []LiveBoard
<1>1. Init => LiveBoard
  BY LiveInit, LiveIsLiveBoard
<1>2. LiveBoard' <=> Live(game')
  BY DEF LiveBoard, Live, Count, CellsWith
<1>3. MatchInv /\ LiveBoard /\ [Next]_vars => LiveBoard'
  BY <1>2, LiveNext, LiveIsLiveBoard
<1> QED BY <1>1, <1>3, MatchInvariant, PTL DEF Spec

---------------------------------------------------------------------------
(* Queues and marks while a round lasts *)

(* q is p without its first k entries. *)
Drops(p, q, k) ==
  /\ k \in Nat
  /\ Len(q) + k = Len(p)
  /\ \A i \in 1..Len(q) : q[i] = p[k + i]

(* From g a turn of the cell `played` (or a forfeit, of none) and some      *)
(* iterations of drain_pending lead to h: the queues lost their heads, and  *)
(* while the round lasts each head that is gone is a taken cell and each    *)
(* new mark is the played one or was queued by its owner.                   *)
Cascades(g, h, played) ==
  h.state = "Playing" =>
    /\ h.creator_mark = g.creator_mark
    /\ Round(h) >= Round(g)
    /\ \A s \in Seats : \E k \in Nat :
         /\ Drops(g.pending[s], h.pending[s], k)
         /\ Round(h) = Round(g) => \A i \in 1..k : h.board[g.pending[s][i]] # "Empty"
    /\ Round(h) = Round(g) =>
         \A c \in Cells : h.board[c] # g.board[c] =>
           /\ g.board[c] = "Empty"
           /\ \E s \in Seats :
                /\ h.board[c] = MarkForSeat(g.creator_mark, Round(g), s)
                /\ \/ c \in played /\ s = ToMove(g)
                   \/ \E i \in 1..Len(g.pending[s]) : g.pending[s][i] = c

---------------------------------------------------------------------------

LEMMA DropsNothing ==
  ASSUME NEW p \in Seq(Cells)
  PROVE  Drops(p, p, 0)
BY DEF Drops

LEMMA DropsHead ==
  ASSUME NEW p \in Seq(Cells), NEW q \in Seq(Cells), NEW k \in Nat, Drops(p, q, k), q # <<>>
  PROVE  /\ Drops(p, Tail(q), k + 1)
         /\ k + 1 \in 1..Len(p) /\ Head(q) = p[k + 1]
<1>1. /\ Tail(q) \in Seq(Cells) /\ Len(Tail(q)) = Len(q) - 1 /\ Len(q) \in Nat /\ Len(q) > 0
      /\ \A i \in 1..Len(Tail(q)) : Tail(q)[i] = q[i + 1]
      /\ Head(q) = q[1] /\ Len(p) \in Nat
  OBVIOUS
<1>2. k + 1 \in 1..Len(p) /\ Head(q) = p[k + 1]
  BY <1>1 DEF Drops
<1>3. ASSUME NEW i \in 1..Len(Tail(q)) PROVE Tail(q)[i] = p[(k + 1) + i]
  <2>1. i + 1 \in 1..Len(q) /\ k + (i + 1) = (k + 1) + i
    BY <1>1
  <2> QED BY <1>1, <2>1 DEF Drops
<1>4. Len(Tail(q)) + (k + 1) = Len(p)
  BY <1>1 DEF Drops
<1> QED BY <1>2, <1>3, <1>4 DEF Drops

LEMMA DropsIsSubSeq ==
  ASSUME NEW p \in Seq(Cells), NEW q \in Seq(Cells), NEW k \in Nat, Drops(p, q, k)
  PROVE  /\ k \in 0..Len(p) /\ k = Len(p) - Len(q)
         /\ q = SubSeq(p, k + 1, Len(p))
<1>1. Len(p) \in Nat /\ Len(q) \in Nat
  OBVIOUS
<1>2. k \in 0..Len(p) /\ k = Len(p) - Len(q)
  BY <1>1 DEF Drops
<1> DEFINE r == SubSeq(p, k + 1, Len(p))
<1>3. /\ r \in Seq(Cells) /\ Len(r) = Len(p) - k
      /\ \A i \in 1..Len(r) : r[i] = p[k + i]
  BY <1>1, <1>2
<1> HIDE DEF r
<1>4. Len(r) = Len(q) /\ \A i \in 1..Len(q) : r[i] = q[i]
  BY <1>2, <1>3 DEF Drops
<1>5. r = q
  BY <1>3, <1>4, SeqEqual
<1> QED BY <1>2, <1>5 DEF r

---------------------------------------------------------------------------
(* A move and a closed round *)

LEMMA CloseRoundKeeps ==
  ASSUME NEW g, Sound(g)
  PROVE  LET m == CloseRound(g)
         IN  m.state = "Playing" => /\ m.pending = g.pending /\ m.creator_mark = g.creator_mark
                                    /\ m.round_wins = g.round_wins /\ m.draws = g.draws
<1>1. Outcome(g) \in Finals \cup {"None"}
  BY OutcomeProperties
<1>2. CASE Outcome(g) = "None"
  <2>1. CloseRound(g) = [g EXCEPT !.board = EmptyBoard]
    BY <1>2 DEF CloseRound
  <2> QED BY <2>1 DEF Sound, GameBody
<1>3. CASE Outcome(g) # "None"
  <2>1. CloseRound(g) = [g EXCEPT !.board = EmptyBoard, !.state = Outcome(g), !.pending = NoPending]
    BY <1>3 DEF CloseRound
  <2>2. CloseRound(g).state # "Playing"
    BY <1>1, <1>3, <2>1 DEF Finals, Sound, GameBody
  <2> QED BY <2>2
<1> QED BY <1>2, <1>3

(* Closing an awarded or a drawn round counts it. *)
LEMMA ClosedRoundCounts ==
  ASSUME NEW g, Sound(g), g.state = "Playing", Outcome(g) = "None",
         NEW seat \in Seats,
         NEW h, h = AwardRound(g, seat) \/ h = [g EXCEPT !.draws = Add8(@, 1)],
         NEW m, m = CloseRound(h), m.state = "Playing"
  PROVE  /\ m.pending = g.pending /\ m.creator_mark = g.creator_mark
         /\ Round(m) = Round(g) + 1
<1>1. Sound(h) /\ h.state = "Playing" /\ h.pending = g.pending
  BY AwardRoundSound, DrawSound
<1>2. /\ g.round_wins \in [Seats -> Nat] /\ g.draws \in Nat
      /\ g.rounds_total \in 1..U8_MAX /\ U8_MAX \in Nat /\ Closed(g) < g.rounds_total
  BY CounterTypes, OutcomeProperties
<1>3. Closed(h) = Closed(g) + 1
  <2>1. CASE h = AwardRound(g, seat)
    <3>1. Add8(g.round_wins[seat], 1) = g.round_wins[seat] + 1
      BY <1>2 DEF Add8, Closed, Seats
    <3>2. h.round_wins = [g.round_wins EXCEPT ![seat] = @ + 1] /\ h.draws = g.draws
      BY <2>1, <3>1 DEF AwardRound, Sound, GameBody
    <3> QED BY <1>2, <3>2 DEF Closed, Seats
  <2>2. CASE h = [g EXCEPT !.draws = Add8(@, 1)]
    <3>1. Add8(g.draws, 1) = g.draws + 1
      BY <1>2 DEF Add8, Closed, Seats
    <3>2. h.round_wins = g.round_wins /\ h.draws = g.draws + 1
      BY <2>2, <3>1 DEF Sound, GameBody
    <3> QED BY <1>2, <3>2 DEF Closed, Seats
  <2> QED BY <2>1, <2>2
<1>4. h.creator_mark = g.creator_mark
  BY DEF AwardRound, Sound, GameBody
<1>5. CoreInv(m)
  BY <1>1, CloseRoundInv
<1>6. /\ m.pending = g.pending /\ m.creator_mark = g.creator_mark
      /\ Closed(m) = Closed(h)
  BY <1>1, <1>4, CloseRoundKeeps DEF Closed
<1>7. Round(m) = Closed(m) /\ Round(g) = Closed(g)
  BY <1>5, RoundIsClosed DEF CoreInv
<1> QED BY <1>3, <1>6, <1>7

(* A move marks its cell, or closes the round. *)
LEMMA MoveEffect ==
  ASSUME NEW g, CoreInv(g), g.state = "Playing",
         NEW seat \in Seats, NEW cell \in Cells, NEW t \in 0..U64_MAX,
         NEW m, m = ApplyMove(g, seat, cell, t), m.state = "Playing"
  PROVE  /\ m.pending = g.pending /\ m.creator_mark = g.creator_mark
         /\ \/ Round(m) = Round(g) + 1
            \/ /\ Round(m) = Round(g)
               /\ m.board = [g.board EXCEPT ![cell] =
                               MarkForSeat(g.creator_mark, Round(g), seat)]
<1> DEFINE mark == MarkForSeat(g.creator_mark, Round(g), seat)
           placed == [g EXCEPT !.board[cell] = mark, !.last_move_at = t]
           drawn == [placed EXCEPT !.draws = Add8(@, 1)]
           won == AwardRound(placed, seat)
<1>1. mark \in Marks
  BY MarkType DEF CoreInv, Sound, GameBody
<1>2. placed \in GameBody
  BY <1>1 DEF CoreInv, Sound, GameBody
<1>3. /\ placed.round_wins = g.round_wins /\ placed.draws = g.draws
      /\ placed.rounds_total = g.rounds_total /\ placed.creator_mark = g.creator_mark
      /\ placed.pending = g.pending /\ placed.state = "Playing"
      /\ placed.board = [g.board EXCEPT ![cell] = mark]
  BY DEF CoreInv, Sound, GameBody
<1> HIDE DEF mark
<1>4. ApplyMove(g, seat, cell, t) =
        IF Winner(placed.board) = mark THEN CloseRound(won)
        ELSE IF BoardFull(placed.board) THEN CloseRound(drawn) ELSE placed
  BY DEF ApplyMove, mark
<1> HIDE DEF placed
<1>5. Outcome(placed) = "None" /\ Sound(placed) /\ Round(placed) = Round(g)
  BY <1>2, <1>3 DEF CoreInv, Sound, Outcome, Closed, Round
<1>6. ASSUME NEW h, h = won \/ h = drawn, m = CloseRound(h)
      PROVE  /\ m.pending = g.pending /\ m.creator_mark = g.creator_mark
             /\ Round(m) = Round(g) + 1
  <2>1. h = AwardRound(placed, seat) \/ h = [placed EXCEPT !.draws = Add8(@, 1)]
    BY <1>6
  <2>2. /\ m.pending = placed.pending /\ m.creator_mark = placed.creator_mark
        /\ Round(m) = Round(placed) + 1
    <3> HIDE DEF won, drawn
    <3> QED BY <1>3, <1>5, <1>6, <2>1, ClosedRoundCounts
  <2> QED BY <1>3, <1>5, <2>2
<1> HIDE DEF won, drawn
<1> QED BY <1>3, <1>4, <1>5, <1>6 DEF mark

---------------------------------------------------------------------------
(* The cascade *)

LEMMA CascadeStarts ==
  ASSUME NEW g, CoreInv(g), NEW played
  PROVE  Cascades(g, g, played)
<1>1. \A s \in Seats : Drops(g.pending[s], g.pending[s], 0)
  BY DropsNothing DEF CoreInv, Sound, GameBody
<1>2. \A s \in Seats : \A i \in 1..0 : g.board[g.pending[s][i]] # "Empty"
  OBVIOUS
<1>3. Round(g) \in Nat
  BY RoundIsClosed, CounterTypes DEF CoreInv, Closed
<1> QED BY <1>1, <1>2, <1>3 DEF Cascades

(* A later round says nothing of the board. *)
LEMMA NewRoundCascades ==
  ASSUME NEW g, NEW h, NEW played,
         h.state = "Playing" =>
           /\ h.creator_mark = g.creator_mark /\ Round(h) > Round(g)
           /\ Round(h) \in Nat /\ Round(g) \in Nat
           /\ \A s \in Seats : \E k \in Nat : Drops(g.pending[s], h.pending[s], k)
  PROVE  Cascades(g, h, played)
BY DEF Cascades

(* One iteration of drain_pending. *)
LEMMA CascadeGoesOn ==
  ASSUME NEW g, CoreInv(g), NEW h, CoreInv(h), NEW played, NEW t \in 0..U64_MAX,
         Cascades(g, h, played)
  PROVE  Cascades(g, DrainOne(h, t), played)
<1>1. CASE Drained(h)
  BY <1>1, DrainOneInv
<1>2. CASE ~Drained(h)
  <2> DEFINE seat == ToMove(h)
             queue == h.pending[seat]
             cell == Head(queue)
             popped == [h EXCEPT !.pending[seat] = Tail(@)]
             moved == ApplyMove(popped, seat, cell, t)
  <2>1. /\ h.state = "Playing" /\ queue # <<>>
        /\ h.pending \in [Seats -> Seq(Cells)] /\ seat \in Seats /\ cell \in Cells
        /\ CoreInv(popped) /\ popped.state = "Playing"
        /\ popped.pending = [h.pending EXCEPT ![seat] = Tail(@)]
    BY <1>2, PopInv
  <2>2. DrainOne(h, t) = IF h.board[cell] = "Empty" THEN moved ELSE popped
    BY <2>1 DEF DrainOne
  <2>3. /\ popped.board = h.board /\ popped.creator_mark = h.creator_mark
        /\ popped.round_wins = h.round_wins /\ popped.draws = h.draws
    BY DEF CoreInv, Sound, GameBody
  <2> HIDE DEF popped
  <2>4. Round(popped) = Round(h)
    BY <2>3 DEF Round
  <2>5. /\ g.pending \in [Seats -> Seq(Cells)] /\ Round(g) \in Nat /\ Round(h) \in Nat
        /\ g.creator_mark \in Marks /\ h.board \in [Cells -> Marks \cup {"Empty"}]
    <3>1. Round(g) = Closed(g) /\ Round(h) = Closed(h) /\ Closed(g) \in Nat /\ Closed(h) \in Nat
      BY RoundIsClosed, CounterTypes DEF CoreInv, Closed
    <3> QED BY <3>1 DEF CoreInv, Sound, GameBody
  <2>6. /\ h.creator_mark = g.creator_mark /\ Round(h) >= Round(g)
        /\ \A s \in Seats : \E k \in Nat :
             /\ Drops(g.pending[s], h.pending[s], k)
             /\ Round(h) = Round(g) => \A i \in 1..k : h.board[g.pending[s][i]] # "Empty"
        /\ Round(h) = Round(g) =>
             \A c \in Cells : h.board[c] # g.board[c] =>
               /\ g.board[c] = "Empty"
               /\ \E s \in Seats :
                    /\ h.board[c] = MarkForSeat(g.creator_mark, Round(g), s)
                    /\ \/ c \in played /\ s = ToMove(g)
                       \/ \E i \in 1..Len(g.pending[s]) : g.pending[s][i] = c
    BY <2>1 DEF Cascades
  <2>7. PICK k \in Nat :
          /\ Drops(g.pending[seat], queue, k)
          /\ Round(h) = Round(g) => \A i \in 1..k : h.board[g.pending[seat][i]] # "Empty"
    BY <2>1, <2>6
  <2>8. /\ Drops(g.pending[seat], Tail(queue), k + 1)
        /\ k + 1 \in 1..Len(g.pending[seat]) /\ cell = g.pending[seat][k + 1]
    BY <2>1, <2>5, <2>7, DropsHead
  <2>9. \A i \in 1..(k + 1) : i \in 1..k \/ i = k + 1
    OBVIOUS
  <2> HIDE DEF seat, queue, cell
  <2>10. \A s \in Seats : \E j \in Nat : Drops(g.pending[s], popped.pending[s], j)
    <3> SUFFICES ASSUME NEW s \in Seats
                 PROVE  \E j \in Nat : Drops(g.pending[s], popped.pending[s], j)
      OBVIOUS
    <3>1. CASE s = seat
      BY <2>1, <2>8, <3>1, k + 1 \in Nat DEF queue
    <3>2. CASE s # seat
      BY <2>1, <2>6, <3>2
    <3> QED BY <3>1, <3>2
  (* What a board that keeps the marks of h, with the head's cell taken, is. *)
  <2>11. ASSUME NEW m, m.state = "Playing", m.creator_mark = h.creator_mark, Round(m) = Round(h),
                m.pending = popped.pending,
                \A c \in Cells : h.board[c] # "Empty" => m.board[c] = h.board[c],
                m.board[cell] # "Empty",
                \A c \in Cells : m.board[c] # h.board[c] =>
                  c = cell /\ m.board[c] = MarkForSeat(h.creator_mark, Round(h), seat)
         PROVE  Cascades(g, m, played)
    <3>1. ASSUME NEW s \in Seats
          PROVE  \E j \in Nat :
                   /\ Drops(g.pending[s], m.pending[s], j)
                   /\ Round(m) = Round(g) => \A i \in 1..j : m.board[g.pending[s][i]] # "Empty"
      <4>1. PICK j \in Nat :
              /\ Drops(g.pending[s], h.pending[s], j)
              /\ Round(h) = Round(g) => \A i \in 1..j : h.board[g.pending[s][i]] # "Empty"
        BY <2>6
      <4>2. \A i \in 1..j : g.pending[s][i] \in Cells
        <5>1. j \in 0..Len(g.pending[s])
          BY <2>1, <2>5, <4>1, DropsIsSubSeq
        <5>2. g.pending[s] \in Seq(Cells)
          BY <2>5
        <5> QED BY <5>1, <5>2
      <4>3. CASE s # seat
        <5>1. m.pending[s] = h.pending[s]
          BY <2>1, <2>11, <4>3
        <5>2. Round(m) = Round(g) => \A i \in 1..j : m.board[g.pending[s][i]] # "Empty"
          BY <2>11, <4>1, <4>2
        <5> QED BY <4>1, <5>1, <5>2
      <4>4. CASE s = seat
        <5>1. m.pending[s] = Tail(queue)
          BY <2>1, <2>11, <4>4 DEF queue
        <5>2. \A i \in 1..k : g.pending[seat][i] \in Cells
          <6>1. g.pending[seat] \in Seq(Cells)
            BY <2>1, <2>5
          <6> QED BY <2>8, <6>1
        <5>3. Round(m) = Round(g) => \A i \in 1..(k + 1) : m.board[g.pending[seat][i]] # "Empty"
          BY <2>7, <2>8, <2>9, <2>11, <5>2
        <5> QED BY <2>8, <4>4, <5>1, <5>3, k + 1 \in Nat
      <4> QED BY <4>3, <4>4
    <3>2. ASSUME Round(m) = Round(g), NEW c \in Cells, m.board[c] # g.board[c]
          PROVE  /\ g.board[c] = "Empty"
                 /\ \E s \in Seats :
                      /\ m.board[c] = MarkForSeat(g.creator_mark, Round(g), s)
                      /\ \/ c \in played /\ s = ToMove(g)
                         \/ \E i \in 1..Len(g.pending[s]) : g.pending[s][i] = c
      <4>1. CASE m.board[c] = h.board[c]
        BY <2>6, <2>11, <3>2, <4>1
      <4>2. CASE m.board[c] # h.board[c]
        <5>1. c = cell /\ h.board[c] = "Empty"
              /\ m.board[c] = MarkForSeat(g.creator_mark, Round(g), seat)
          BY <2>6, <2>11, <3>2, <4>2
        <5>2. g.board[c] = "Empty"
          BY <2>6, <2>11, <3>2, <5>1
        <5> QED BY <2>1, <2>8, <5>1, <5>2
      <4> QED BY <4>1, <4>2
    <3> QED BY <2>6, <2>11, <3>1, <3>2 DEF Cascades
  <2>12. CASE h.board[cell] # "Empty"
    <3>1. Cascades(g, popped, played)
      BY <2>1, <2>3, <2>4, <2>11, <2>12
    <3> QED BY <2>2, <2>12, <3>1
  <2>13. CASE h.board[cell] = "Empty"
    <3> SUFFICES Cascades(g, moved, played)
      BY <2>2, <2>13
    <3>1. moved.state = "Playing" =>
            /\ moved.pending = popped.pending /\ moved.creator_mark = popped.creator_mark
            /\ \/ Round(moved) = Round(popped) + 1
               \/ /\ Round(moved) = Round(popped)
                  /\ moved.board = [popped.board EXCEPT ![cell] =
                                      MarkForSeat(popped.creator_mark, Round(popped), seat)]
      <4>1. ASSUME moved.state = "Playing"
            PROVE  /\ moved.pending = popped.pending /\ moved.creator_mark = popped.creator_mark
                   /\ \/ Round(moved) = Round(popped) + 1
                      \/ /\ Round(moved) = Round(popped)
                         /\ moved.board = [popped.board EXCEPT ![cell] =
                                             MarkForSeat(popped.creator_mark, Round(popped), seat)]
        <5>1. moved = ApplyMove(popped, seat, cell, t)
          OBVIOUS
        <5> HIDE DEF moved
        <5>2. CoreInv(popped) /\ popped.state = "Playing" /\ seat \in Seats /\ cell \in Cells
          BY <2>1
        <5> QED BY ONLY <4>1, <5>1, <5>2, t \in 0..U64_MAX, MoveEffect
      <4> QED BY <4>1
    <3> HIDE DEF moved
    <3>2. CASE moved.state # "Playing"
      BY <3>2 DEF Cascades
    <3>3. CASE moved.state = "Playing" /\ Round(moved) = Round(popped) + 1
      BY <2>3, <2>4, <2>5, <2>6, <2>10, <3>1, <3>3, NewRoundCascades
    <3>4. CASE /\ moved.state = "Playing" /\ Round(moved) = Round(popped)
               /\ moved.board = [popped.board EXCEPT ![cell] =
                                   MarkForSeat(popped.creator_mark, Round(popped), seat)]
      <4> DEFINE mark == MarkForSeat(h.creator_mark, Round(h), seat)
      <4>1. mark \in Marks
        BY MarkType DEF CoreInv, Sound, GameBody
      <4>2. moved.board = [h.board EXCEPT ![cell] = mark]
        BY <2>3, <2>4, <3>4
      <4>3. mark # "Empty"
        BY <4>1 DEF Marks
      <4>4. /\ \A c \in Cells : h.board[c] # "Empty" => moved.board[c] = h.board[c]
            /\ moved.board[cell] # "Empty"
            /\ \A c \in Cells : moved.board[c] # h.board[c] => c = cell /\ moved.board[c] = mark
        <5> HIDE DEF mark
        <5> QED BY <2>1, <2>5, <2>13, <4>2, <4>3
      <4> QED BY <2>3, <2>4, <2>11, <3>1, <3>4, <4>4
    <3> QED BY <3>1, <3>2, <3>3, <3>4
  <2> QED BY <2>12, <2>13
<1> QED BY <1>1, <1>2

LEMMA CascadeEnds ==
  ASSUME NEW g, CoreInv(g), NEW h, CoreInv(h), NEW played, NEW t \in 0..U64_MAX,
         Cascades(g, h, played)
  PROVE  Cascades(g, DrainPending(h, t), played)
<1> DEFINE Ok(m) == CoreInv(m) /\ Cascades(g, m, played)
<1>1. ASSUME NEW m, Ok(m) PROVE Ok(DrainOne(m, t))
  BY <1>1, DrainOneInv, CascadeGoesOn
<1> HIDE DEF Ok
<1>2. ASSUME NEW m, Ok(m) PROVE Ok(DrainTwo(m, t))
  BY <1>1, <1>2 DEF DrainTwo
<1>3. ASSUME NEW m, Ok(m) PROVE Ok(DrainFour(m, t))
  BY <1>2, <1>3 DEF DrainFour
<1>4. Ok(h)
  BY DEF Ok
<1>5. Ok(DrainPending(h, t))
  BY <1>3, <1>4 DEF DrainPending
<1> QED BY <1>5 DEF Ok

---------------------------------------------------------------------------
(* Transactions *)

(* A pre-commit is one more entry, and nothing else. *)
Precommits(g, h, seat, cell) == h = [g EXCEPT !.pending[seat] = Append(@, cell)]

LEMMA TurnCascades ==
  ASSUME NEW g, CoreInv(g), Drained(g), NEW t \in 0..U64_MAX,
         NEW seat \in Seats, NEW cell \in Cells, CanPlayTurn(g, seat, cell),
         NEW h, h = PlayTurn(g, seat, cell, t)
  PROVE  Precommits(g, h, seat, cell) \/ Cascades(g, h, {cell})
<1>1. g.state = "Playing" /\ CanCommit(g, seat, cell) /\ g.board[cell] = "Empty"
  BY DEF CanPlayTurn, CanCommit
<1> DEFINE m == CommitExplicit(g, seat, cell, t)
<1>2. CoreInv(m)
  BY <1>1, CommitExplicitInv
<1>3. h = DrainPending(m, t)
  BY DEF PlayTurn
<1>4. CASE seat # ToMove(g)
  <2>1. m = [g EXCEPT !.pending[seat] = Append(@, cell)]
    BY <1>4 DEF CommitExplicit
  <2> HIDE DEF m
  <2>2. /\ m.state = g.state /\ m.board = g.board /\ m.creator_mark = g.creator_mark
        /\ m.round_wins = g.round_wins /\ m.draws = g.draws
        /\ m.pending = [g.pending EXCEPT ![seat] = Append(@, cell)]
        /\ g.pending \in [Seats -> Seq(Cells)]
    BY <2>1 DEF CoreInv, Sound, GameBody
  <2>3. ToMove(m) = ToMove(g) /\ ToMove(g) \in Seats
    BY <2>2, SeatType DEF ToMove, Round
  <2>4. Drained(m)
    BY <1>1, <1>4, <2>2, <2>3 DEF Drained
  <2>5. DrainOne(m, t) = m
    BY <1>2, <2>4, DrainOneInv
  <2>6. h = m
    BY <1>3, <2>5 DEF DrainPending, DrainFour, DrainTwo
  <2> QED BY <2>1, <2>6 DEF Precommits
<1>5. CASE seat = ToMove(g)
  <2>1. m = ApplyMove(g, seat, cell, t)
    BY <1>5 DEF CommitExplicit
  <2> HIDE DEF m
  <2>2. ASSUME m.state = "Playing"
        PROVE  /\ m.pending = g.pending /\ m.creator_mark = g.creator_mark
               /\ \/ Round(m) = Round(g) + 1
                  \/ /\ Round(m) = Round(g)
                     /\ m.board = [g.board EXCEPT ![cell] =
                                     MarkForSeat(g.creator_mark, Round(g), seat)]
    BY <1>1, <2>1, <2>2, MoveEffect
  <2>3. Round(g) \in Nat /\ Round(m) \in Nat
    BY <1>2, RoundIsClosed, CounterTypes DEF CoreInv, Closed
  <2>4. \A s \in Seats : Drops(g.pending[s], g.pending[s], 0)
    BY DropsNothing DEF CoreInv, Sound, GameBody
  <2>5. Cascades(g, m, {cell})
    <3>1. CASE m.state # "Playing"
      BY <3>1 DEF Cascades
    <3>2. CASE m.state = "Playing" /\ Round(m) = Round(g) + 1
      <4>1. /\ m.creator_mark = g.creator_mark /\ Round(m) > Round(g)
            /\ \A s \in Seats : \E k \in Nat : Drops(g.pending[s], m.pending[s], k)
        BY <2>2, <2>3, <2>4, <3>2
      <4> QED BY <2>3, <4>1, NewRoundCascades
    <3>3. CASE /\ m.state = "Playing" /\ Round(m) = Round(g)
               /\ m.board = [g.board EXCEPT ![cell] =
                               MarkForSeat(g.creator_mark, Round(g), seat)]
      <4>1. \A i \in 1..0 : FALSE
        OBVIOUS
      <4>2. \A c \in Cells : m.board[c] # g.board[c] =>
              c = cell /\ m.board[c] = MarkForSeat(g.creator_mark, Round(g), seat)
        BY <3>3 DEF CoreInv, Sound, GameBody
      <4> QED BY <1>1, <1>5, <2>2, <2>3, <2>4, <3>3, <4>1, <4>2 DEF Cascades
    <3> QED BY <2>2, <3>1, <3>2, <3>3
  <2> QED BY <1>2, <1>3, <2>5, CascadeEnds
<1> QED BY <1>4, <1>5

LEMMA ForfeitCascades ==
  ASSUME NEW g, CoreInv(g), g.state = "Playing", NEW t \in 0..U64_MAX
  PROVE  Cascades(g, ForfeitRound(g, t), {})
<1> DEFINE seat == 1 - ToMove(g)
           timed == [g EXCEPT !.last_move_at = t]
           stamped == [AwardRound(g, seat) EXCEPT !.last_move_at = t]
           m == CloseRound(stamped)
<1>1. seat \in Seats
  BY SeatType DEF ToMove, Seats
<1>2. ForfeitRound(g, t) = DrainPending(m, t)
  BY DEF ForfeitRound
<1> HIDE DEF seat
<1>3. stamped = AwardRound(timed, seat)
  BY DEF AwardRound, CoreInv, Sound, GameBody
<1>4. /\ timed \in GameBody /\ timed.state = "Playing" /\ timed.pending = g.pending
      /\ timed.round_wins = g.round_wins /\ timed.draws = g.draws
      /\ timed.rounds_total = g.rounds_total /\ timed.creator_mark = g.creator_mark
  BY DEF CoreInv, Sound, GameBody
<1> HIDE DEF timed, stamped
<1>5. Sound(timed) /\ Outcome(timed) = "None" /\ Round(timed) = Round(g)
  BY <1>4 DEF CoreInv, Sound, Closed, Outcome, Round
<1>6. Sound(stamped) /\ stamped.state = "Playing"
  BY <1>1, <1>3, <1>4, <1>5, AwardRoundSound
<1>7. CoreInv(m)
  BY <1>6, CloseRoundInv
<1>8. ASSUME m.state = "Playing"
      PROVE  /\ m.pending = g.pending /\ m.creator_mark = g.creator_mark
             /\ Round(m) = Round(g) + 1
  <2>1. m = CloseRound(stamped)
    OBVIOUS
  <2> HIDE DEF m
  <2>2. /\ m.pending = timed.pending /\ m.creator_mark = timed.creator_mark
        /\ Round(m) = Round(timed) + 1
    BY <1>1, <1>3, <1>4, <1>5, <1>8, <2>1, ClosedRoundCounts
  <2> QED BY <1>4, <1>5, <2>2
<1> HIDE DEF m
<1>9. Round(g) \in Nat
  BY RoundIsClosed, CounterTypes DEF CoreInv, Closed
<1>10. \A s \in Seats : Drops(g.pending[s], g.pending[s], 0)
  BY DropsNothing DEF CoreInv, Sound, GameBody
<1>11. m.state = "Playing" =>
         /\ m.creator_mark = g.creator_mark /\ Round(m) > Round(g)
         /\ Round(m) \in Nat /\ Round(g) \in Nat
         /\ \A s \in Seats : \E k \in Nat : Drops(g.pending[s], m.pending[s], k)
  BY <1>8, <1>9, <1>10
<1>12. Cascades(g, m, {})
  BY <1>11, NewRoundCascades
<1> QED BY <1>2, <1>7, <1>12, CascadeEnds

(* A match that is played does not open again. *)
LEMMA NeverReopened ==
  ASSUME MatchInv, Timeout \/ \E mover \in Users, cell \in Cells : Turn(mover, cell)
  PROVE  game'.state # "Open"
BY PlayContinues DEF Reaches, Continues, Finals

LEMMA Transactions ==
  ASSUME MatchInv, Timeout \/ \E mover \in Users, cell \in Cells : Turn(mover, cell)
  PROVE  /\ game.state = "Playing" /\ CoreInv(game')
         /\ \/ \E seat \in Seats, cell \in Cells : Precommits(game, game', seat, cell)
            \/ \E played : Cascades(game, game', played) /\ \A c, d \in played : c = d
<1>1. CASE Timeout
  <2>1. game.state = "Playing" /\ game' = ForfeitRound(game, now)
    BY <1>1 DEF Timeout, CanForfeit
  <2>2. CoreInv(game') /\ Cascades(game, game', {})
    BY <2>1, ForfeitInv, ForfeitCascades DEF MatchInv
  <2> QED BY <2>1, <2>2
<1>2. ASSUME NEW mover \in Users, NEW cell \in Cells, Turn(mover, cell)
      PROVE  /\ game.state = "Playing" /\ CoreInv(game')
             /\ \/ \E seat \in Seats, c \in Cells : Precommits(game, game', seat, c)
                \/ \E played : Cascades(game, game', played) /\ \A c, d \in played : c = d
  <2>1. PICK seat \in Seats :
          CanPlayTurn(game, seat, cell) /\ game' = PlayTurn(game, seat, cell, now)
    BY <1>2 DEF Turn
  <2>2. game.state = "Playing" /\ CanCommit(game, seat, cell)
    BY <2>1 DEF CanPlayTurn
  <2>3. CoreInv(CommitExplicit(game, seat, cell, now))
    BY <2>2, CommitExplicitInv DEF MatchInv
  <2>4. CoreInv(game')
    BY <2>1, <2>3, DrainPendingDrains DEF PlayTurn, MatchInv
  <2>5. Precommits(game, game', seat, cell) \/ Cascades(game, game', {cell})
    BY <2>1, TurnCascades DEF MatchInv
  <2> QED BY <2>2, <2>4, <2>5
<1> QED BY <1>1, <1>2

(* The steps that are not transactions of players leave the queues alone,   *)
(* and are no moves of a match that is played, or leave the game alone.     *)
LEMMA OtherSteps ==
  ASSUME MatchInv, [Next]_vars,
         ~(Timeout \/ \E mover \in Users, cell \in Cells : Turn(mover, cell))
  PROVE  /\ game'.pending = game.pending
         /\ game' = game \/ game.state = "Open"
<1>1. ASSUME NEW joiner \in Users, JoinGame(joiner)
      PROVE  game'.pending = game.pending /\ game.state = "Open"
  BY <1>1 DEF JoinGame, Join, MatchInv, CoreInv, Sound, GameBody
<1> QED BY <1>1 DEF Next, Tick, UpdateTtl, vars

(* A queue is consumed in the order its owner committed (PendingQueue).     *)
THEOREM MatchQueuesAreFifo == Spec => QueuesAreFifo
<1> DEFINE Fifo ==
      ~IsFinished(game)' =>
        \A s \in Seats :
          \/ \E k \in 0..Len(game.pending[s]) :
               game'.pending[s] = SubSeq(game.pending[s], k + 1, Len(game.pending[s]))
          \/ \E c \in Cells : game'.pending[s] = Append(game.pending[s], c)
<1>1. ASSUME MatchInv, MatchInv', [Next]_vars PROVE Fifo
  <2> DEFINE Shortened(s) ==
        \E k \in 0..Len(game.pending[s]) :
          game'.pending[s] = SubSeq(game.pending[s], k + 1, Len(game.pending[s]))
  <2>1. game.pending \in [Seats -> Seq(Cells)] /\ game'.pending \in [Seats -> Seq(Cells)]
    BY <1>1 DEF MatchInv, CoreInv, Sound, GameBody
  <2>2. ASSUME NEW s \in Seats, NEW k \in Nat, Drops(game.pending[s], game'.pending[s], k)
        PROVE  Shortened(s)
    <3>1. game.pending[s] \in Seq(Cells) /\ game'.pending[s] \in Seq(Cells)
      BY <2>1
    <3> QED BY <2>2, <3>1, DropsIsSubSeq
  <2>3. ASSUME NEW s \in Seats, game'.pending[s] = game.pending[s] PROVE Shortened(s)
    <3>1. Drops(game.pending[s], game'.pending[s], 0)
      BY <2>1, <2>3, DropsNothing
    <3> QED BY <2>2, <3>1
  <2> HIDE DEF Shortened
  <2>4. CASE Timeout \/ \E mover \in Users, cell \in Cells : Turn(mover, cell)
    <3>1. CASE \E seat \in Seats, cell \in Cells : Precommits(game, game', seat, cell)
      <4>1. PICK seat \in Seats, cell \in Cells : Precommits(game, game', seat, cell)
        BY <3>1
      <4>2. game'.pending = [game.pending EXCEPT ![seat] = Append(@, cell)]
        BY <1>1, <4>1 DEF Precommits, MatchInv, CoreInv, Sound, GameBody
      <4>3. \A s \in Seats : \/ Shortened(s)
                             \/ \E c \in Cells : game'.pending[s] = Append(game.pending[s], c)
        BY <2>1, <2>3, <4>2
      <4> QED BY <4>3 DEF Shortened
    <3>2. ASSUME NEW played, Cascades(game, game', played), ~IsFinished(game)', CoreInv(game'),
                 game.state = "Playing"
          PROVE  \A s \in Seats : Shortened(s)
      <4>1. CASE game'.state = "Playing"
        BY <2>2, <3>2, <4>1 DEF Cascades
      <4>2. CASE game'.state = "Open"
        <5>1. FALSE
          BY <1>1, <2>4, <4>2, NeverReopened
        <5> QED BY <5>1
      <4>3. game'.state \in States
        BY <3>2 DEF CoreInv, Sound, GameBody
      <4> QED BY <3>2, <4>1, <4>2, <4>3 DEF States, IsFinished
    <3> QED BY <1>1, <2>4, <3>1, <3>2, Transactions DEF Shortened
  <2>5. CASE ~(Timeout \/ \E mover \in Users, cell \in Cells : Turn(mover, cell))
    <3>1. \A s \in Seats : Shortened(s)
      BY <1>1, <2>3, <2>5, OtherSteps
    <3> QED BY <3>1 DEF Shortened
  <2> QED BY <2>4, <2>5
<1>2. MatchInv /\ MatchInv' /\ [Next]_vars => [Fifo]_vars
  BY <1>1
<1> QED BY <1>2, MatchInvariant, PTL DEF Spec, QueuesAreFifo

(* A pre-commit that leaves its queue while the round lasts is on the board *)
(* or named a taken cell (drain_pending).                                   *)
THEOREM MatchLosesNoPrecommit == Spec => NoLostPrecommit
<1> DEFINE Kept ==
      (game.state = "Playing" /\ game'.state = "Playing" /\ Round(game)' = Round(game)) =>
        \A s \in Seats :
          LET popped == Len(game.pending[s]) - Len(game'.pending[s])
          IN  \A i \in 1..popped : game'.board[game.pending[s][i]] # "Empty"
<1>1. ASSUME MatchInv, MatchInv', [Next]_vars PROVE Kept
  <2> SUFFICES ASSUME game.state = "Playing", game'.state = "Playing", Round(game') = Round(game),
                      NEW s \in Seats,
                      NEW i \in 1..(Len(game.pending[s]) - Len(game'.pending[s]))
               PROVE  game'.board[game.pending[s][i]] # "Empty"
    BY DEF Round
  <2>1. game.pending \in [Seats -> Seq(Cells)] /\ game'.pending \in [Seats -> Seq(Cells)]
    BY <1>1 DEF MatchInv, CoreInv, Sound, GameBody
  <2>2. game.pending[s] \in Seq(Cells) /\ game'.pending[s] \in Seq(Cells)
    BY <2>1
  <2>3. game'.pending[s] # game.pending[s]
    BY <2>2
  <2>4. Timeout \/ \E mover \in Users, cell \in Cells : Turn(mover, cell)
    BY <1>1, <2>3, OtherSteps
  <2>5. ASSUME NEW seat \in Seats, NEW cell \in Cells, Precommits(game, game', seat, cell)
        PROVE  FALSE
    <3>1. game'.pending = [game.pending EXCEPT ![seat] = Append(@, cell)]
      BY <1>1, <2>5 DEF Precommits, MatchInv, CoreInv, Sound, GameBody
    <3>2. game'.pending[s] = Append(game.pending[s], cell)
      BY <2>1, <2>3, <3>1
    <3>3. Len(game'.pending[s]) = Len(game.pending[s]) + 1 /\ Len(game.pending[s]) \in Nat
      BY <2>2, <3>2, AppendProperties, LenProperties
    <3> QED BY <3>3
  <2>6. PICK played : Cascades(game, game', played)
    BY <1>1, <2>4, <2>5, Transactions
  <2>7. PICK k \in Nat : /\ Drops(game.pending[s], game'.pending[s], k)
                         /\ \A j \in 1..k : game'.board[game.pending[s][j]] # "Empty"
    BY <2>6 DEF Cascades
  <2>8. k = Len(game.pending[s]) - Len(game'.pending[s])
    BY <2>2, <2>7, DropsIsSubSeq
  <2> QED BY <2>7, <2>8
<1>2. MatchInv /\ MatchInv' /\ [Next]_vars => [Kept]_vars
  BY <1>1
<1> QED BY <1>2, MatchInvariant, PTL DEF Spec, NoLostPrecommit

(* A mark on the board names its seat. *)
LEMMA SeatsDiffer ==
  ASSUME NEW mark \in Marks, NEW round, NEW s \in Seats, NEW r \in Seats,
         MarkForSeat(mark, round, s) = MarkForSeat(mark, round, r)
  PROVE  s = r
BY DEF MarkForSeat, Opposite, Marks, Seats

(* While a round lasts every new mark was announced: it was queued by its   *)
(* owner, or is the one explicit move, of the seat that was to move; and no *)
(* mark is taken off the board (commit_explicit, drain_pending).            *)
THEOREM MatchPlaysAnnouncedCells == Spec => OnlyAnnouncedCells
<1> DEFINE Announced ==
      (game.state = "Playing" /\ game'.state = "Playing" /\ Round(game)' = Round(game)) =>
        LET owner(c)  == CHOOSE s \in Seats :
                           game'.board[c] = MarkForSeat(game.creator_mark, Round(game), s)
            placed    == {c \in Cells : game'.board[c] # game.board[c]}
            queued(c) == \E i \in 1..Len(game.pending[owner(c)]) : game.pending[owner(c)][i] = c
        IN  /\ \A c \in placed : game.board[c] = "Empty"
            /\ \A c, d \in placed : ~queued(c) /\ ~queued(d) => c = d
            /\ \A c \in placed : ~queued(c) => owner(c) = ToMove(game)
<1>1. ASSUME MatchInv, MatchInv', [Next]_vars PROVE Announced
  <2> SUFFICES ASSUME game.state = "Playing", game'.state = "Playing", Round(game') = Round(game)
               PROVE  Announced
    BY DEF Round
  <2> DEFINE owner(c)  == CHOOSE s \in Seats :
                            game'.board[c] = MarkForSeat(game.creator_mark, Round(game), s)
             placed    == {c \in Cells : game'.board[c] # game.board[c]}
             queued(c) == \E i \in 1..Len(game.pending[owner(c)]) : game.pending[owner(c)][i] = c
  <2>1. CASE placed = {}
    BY <2>1
  <2>2. ASSUME NEW played, Cascades(game, game', played), \A c, d \in played : c = d
        PROVE  Announced
    <3>1. ASSUME NEW c \in placed
          PROVE  /\ game.board[c] = "Empty"
                 /\ ~queued(c) => c \in played /\ owner(c) = ToMove(game)
      <4>1. /\ game.board[c] = "Empty"
            /\ \E s \in Seats :
                 /\ game'.board[c] = MarkForSeat(game.creator_mark, Round(game), s)
                 /\ \/ c \in played /\ s = ToMove(game)
                    \/ \E i \in 1..Len(game.pending[s]) : game.pending[s][i] = c
        BY <2>2, <3>1 DEF Cascades
      <4>2. PICK s \in Seats :
              /\ game'.board[c] = MarkForSeat(game.creator_mark, Round(game), s)
              /\ \/ c \in played /\ s = ToMove(game)
                 \/ \E i \in 1..Len(game.pending[s]) : game.pending[s][i] = c
        BY <4>1
      <4>3. game.creator_mark \in Marks
        BY <1>1 DEF MatchInv, CoreInv, Sound, GameBody
      <4>4. \A r \in Seats :
              game'.board[c] = MarkForSeat(game.creator_mark, Round(game), r) <=> r = s
        BY <4>2, <4>3, SeatsDiffer
      <4>5. owner(c) = s
        BY <4>4
      <4> HIDE DEF owner
      <4> QED BY <4>1, <4>2, <4>5
    <3> HIDE DEF owner
    <3>2. \A c \in placed : game.board[c] = "Empty"
      BY <3>1
    <3>3. \A c \in placed : ~queued(c) => owner(c) = ToMove(game)
      BY <3>1
    <3>4. \A c, d \in placed : ~queued(c) /\ ~queued(d) => c = d
      <4> HIDE DEF placed, queued
      <4> QED BY <2>2, <3>1
    <3> QED BY <3>2, <3>3, <3>4 DEF owner
  <2>3. CASE ~(Timeout \/ \E mover \in Users, cell \in Cells : Turn(mover, cell))
    <3>1. game' = game
      BY <1>1, <2>3, OtherSteps
    <3> QED BY <2>1, <3>1
  <2>4. ASSUME NEW seat \in Seats, NEW cell \in Cells, Precommits(game, game', seat, cell)
        PROVE  Announced
    <3>1. game'.board = game.board
      BY <1>1, <2>4 DEF Precommits, MatchInv, CoreInv, Sound, GameBody
    <3> QED BY <2>1, <3>1
  <2> HIDE DEF Announced
  <2> QED BY <1>1, <2>2, <2>3, <2>4, Transactions
<1>2. MatchInv /\ MatchInv' /\ [Next]_vars => [Announced]_vars
  BY <1>1
<1> QED BY <1>2, MatchInvariant, PTL DEF Spec, OnlyAnnouncedCells

---------------------------------------------------------------------------
(* The ring of pre-commits behind a match's queues (PendingRing) implements *)
(* a bounded FIFO, for every capacity and every set of entries: the queues  *)
(* of Game may be sequences                                                 *)

(* What `% RING_CAP` does to a cursor at most one lap ahead: the only    *)
(* arithmetic PendingQueue's push and pop do.                               *)
LEMMA OneLap ==
  \A n \in 0..(2 * RING_CAP - 1) :
    n % RING_CAP = IF n < RING_CAP THEN n ELSE n - RING_CAP
<1> SUFFICES ASSUME NEW n \in 0..(2 * RING_CAP - 1)
             PROVE  n % RING_CAP = IF n < RING_CAP THEN n ELSE n - RING_CAP
  OBVIOUS
<1> QED BY RingAssumption

(* The slots k = 0 .. count of a ring are found by wrapping at most once.   *)
LEMMA SlotWraps ==
  ASSUME RingTypeOK, NEW k \in 0..RING_CAP
  PROVE  /\ Slot(k) = IF head + k < RING_CAP THEN head + k ELSE head + k - RING_CAP
         /\ Slot(k) \in Slots
<1>1. head \in 0..(RING_CAP - 1) /\ RING_CAP \in Nat \ {0}
  BY RingAssumption DEF RingTypeOK, Slots
<1> DEFINE n == head + k
<1>2. n \in 0..(2 * RING_CAP - 1)
  BY <1>1
<1>3. Slot(k) = n % RING_CAP
  BY DEF Slot
<1> HIDE DEF n
<1>4. Slot(k) = IF n < RING_CAP THEN n ELSE n - RING_CAP
  BY <1>2, <1>3, OneLap
<1> QED BY <1>1, <1>4 DEF n, Slots

(* The cursors never leave the array, whatever is pushed, popped and        *)
(* cleared (PendingQueue push, pop, peek index `cells` without a check).    *)
THEOREM RingType ==
  RingSpec => []RingTypeOK
<1>1. RingInit => RingTypeOK
  BY RingAssumption DEF RingInit, Zeroed, RingTypeOK, Slots
<1>2. RingTypeOK /\ [RingNext]_(ringVars) => RingTypeOK'
  <2> SUFFICES ASSUME RingTypeOK, [RingNext]_(ringVars) PROVE RingTypeOK'
    OBVIOUS
  <2>1. ASSUME NEW cell \in RingCells, Push(cell) PROVE RingTypeOK'
    <3>1. Slot(count) \in Slots
      BY SlotWraps DEF RingTypeOK
    <3> QED BY <2>1, <3>1, RingAssumption DEF Push, RingTypeOK
  <2>2. CASE Pop
    <3>1. Slot(1) \in Slots
      BY SlotWraps, RingAssumption
    <3> QED BY <2>2, <3>1, RingAssumption DEF Pop, RingTypeOK
  <2>3. CASE Clear
    BY <2>3, RingAssumption DEF Clear, RingTypeOK, Slots
  <2>4. CASE UNCHANGED ringVars
    BY <2>4 DEF ringVars, RingTypeOK
  <2> QED BY <2>1, <2>2, <2>3, <2>4 DEF RingNext
<1> QED BY <1>1, <1>2, PTL DEF RingSpec

(* A queue that push has not filled has a free slot: the tail lands outside *)
(* the slots in use, so the entries already queued keep their values.       *)
LEMMA TailIsFree ==
  ASSUME RingTypeOK, count < RING_CAP, NEW i \in 1..count
  PROVE  Slot(count) # Slot(i - 1)
<1>1. /\ RING_CAP \in Nat \ {0} /\ head \in 0..(RING_CAP - 1)
      /\ count \in 0..RING_CAP /\ i - 1 \in 0..RING_CAP
  BY RingAssumption DEF RingTypeOK, Slots
<1>2. Slot(count) = IF head + count < RING_CAP THEN head + count
                                                  ELSE head + count - RING_CAP
  BY <1>1, SlotWraps
<1> DEFINE j == i - 1
<1>3. j \in 0..(count - 1) /\ j \in 0..RING_CAP
  BY <1>1
<1> HIDE DEF j
<1>4. Slot(j) = IF head + j < RING_CAP THEN head + j ELSE head + j - RING_CAP
  BY <1>3, SlotWraps
<1>5. Slot(count) # Slot(j)
  BY <1>1, <1>2, <1>3, <1>4
<1> QED BY <1>5 DEF j

LEMMA ContentsType ==
  RingTypeOK => Contents \in Seq(RingCells) /\ Len(Contents) = count
<1> SUFFICES ASSUME RingTypeOK PROVE Contents \in Seq(RingCells) /\ Len(Contents) = count
  OBVIOUS
<1>1. \A i \in 1..count : cells[Slot(i - 1)] \in RingCells
  <2> SUFFICES ASSUME NEW i \in 1..count PROVE cells[Slot(i - 1)] \in RingCells
    OBVIOUS
  <2>1. i - 1 \in 0..RING_CAP
    BY RingAssumption DEF RingTypeOK
  <2> QED BY <2>1, SlotWraps DEF RingTypeOK
<1>2. count \in Nat
  BY RingAssumption DEF RingTypeOK
<1> QED BY <1>1, <1>2 DEF Contents

LEMMA ContentsTypeNext ==
  (RingTypeOK => Contents \in Seq(RingCells) /\ Len(Contents) = count)'
BY ContentsType, PTL

(* Push appends to the queue the cursors describe. *)
LEMMA PushEnqueues ==
  ASSUME RingTypeOK, RingTypeOK', NEW cell \in RingCells, Push(cell)
  PROVE  Q!Enqueue(cell)
  <1>1. count' = count + 1 /\ head' = head /\ count < RING_CAP
    BY RingAssumption DEF Push, RingTypeOK
  <1>2. \A k \in 0..RING_CAP : Slot(k)' = Slot(k)
    BY <1>1 DEF Slot
  <1>3. Contents' = [i \in 1..(count + 1) |-> cells'[Slot(i - 1)]]
    BY <1>1 DEF Contents, Slot
  <1>4. cells' = [cells EXCEPT ![Slot(count)] = cell] /\ Slot(count) \in Slots
    BY SlotWraps DEF Push, RingTypeOK
  <1>5. \A i \in 1..count : cells'[Slot(i - 1)] = cells[Slot(i - 1)]
    <2> SUFFICES ASSUME NEW i \in 1..count PROVE cells'[Slot(i - 1)] = cells[Slot(i - 1)]
      OBVIOUS
    <2>1. Slot(i - 1) \in Slots
      BY SlotWraps, RingAssumption DEF RingTypeOK
    <2> QED BY <1>1, <1>4, <2>1, TailIsFree DEF RingTypeOK
  <1>6. cells'[Slot(count)] = cell
    BY <1>4 DEF RingTypeOK
  <1>7. Contents' = Append(Contents, cell)
    <2>1. /\ Contents' \in Seq(RingCells) /\ Len(Contents') = count + 1
          /\ Contents \in Seq(RingCells) /\ Len(Contents) = count
      BY <1>1, ContentsType, ContentsTypeNext
    <2>2. /\ Append(Contents, cell) \in Seq(RingCells)
          /\ Len(Append(Contents, cell)) = count + 1
          /\ \A i \in 1..count : Append(Contents, cell)[i] = Contents[i]
          /\ Append(Contents, cell)[count + 1] = cell
      BY <2>1, AppendProperties
    <2>3. \A i \in 1..(count + 1) : Contents'[i] = Append(Contents, cell)[i]
      <3> SUFFICES ASSUME NEW i \in 1..(count + 1)
                   PROVE  Contents'[i] = Append(Contents, cell)[i]
        OBVIOUS
      <3>1. Contents'[i] = cells'[Slot(i - 1)]
        BY <1>3
      <3>2. CASE i \in 1..count
        <4>1. Contents[i] = cells[Slot(i - 1)]
          BY <3>2 DEF Contents
        <4> QED BY <3>1, <3>2, <4>1, <1>5, <2>2
      <3>3. CASE i \notin 1..count
        <4>1. i = count + 1 /\ i - 1 = count
          BY <3>3, RingAssumption DEF RingTypeOK
        <4> QED BY <3>1, <4>1, <1>6, <2>2
      <3> QED BY <3>2, <3>3
    <2> QED BY <2>1, <2>2, <2>3, SeqEqual
  <1> QED BY <1>1, <1>7, ContentsType DEF Q!Enqueue

(* Pop removes the oldest entry. *)
LEMMA PopDequeues ==
  ASSUME RingTypeOK, RingTypeOK', Pop
  PROVE  Q!Dequeue
  <1>1. count' = count - 1 /\ cells' = cells /\ head' = Slot(1) /\ count \in 1..RING_CAP
    BY RingAssumption DEF Pop, RingTypeOK
  <1>2. \A i \in 1..(count - 1) : Slot(i - 1)' = Slot(i)
    <2> SUFFICES ASSUME NEW i \in 1..(count - 1) PROVE Slot(i - 1)' = Slot(i)
      OBVIOUS
    <2>1. /\ RING_CAP \in Nat \ {0} /\ head \in 0..(RING_CAP - 1)
          /\ i \in 0..RING_CAP /\ 1 \in 0..RING_CAP
      BY <1>1, RingAssumption DEF RingTypeOK, Slots
    <2>2. head' = IF head + 1 < RING_CAP THEN head + 1 ELSE head + 1 - RING_CAP
      BY <1>1, <2>1, SlotWraps
    <2>3. Slot(i) = IF head + i < RING_CAP THEN head + i ELSE head + i - RING_CAP
      BY <2>1, SlotWraps
    <2> DEFINE n == head' + (i - 1)
    <2>4. n \in 0..(2 * RING_CAP - 1)
      BY <2>1, <2>2
    <2>5. Slot(i - 1)' = n % RING_CAP
      BY DEF Slot
    <2> HIDE DEF n
    <2>6. Slot(i - 1)' = IF n < RING_CAP THEN n ELSE n - RING_CAP
      BY <2>4, <2>5, OneLap
    <2>7. n = head' + (i - 1)
      BY DEF n
    <2> QED BY <1>1, <2>1, <2>2, <2>3, <2>6, <2>7
  <1>3. Contents' = [i \in 1..(count - 1) |-> cells[Slot(i)]]
    BY <1>1, <1>2 DEF Contents
  <1>4. /\ Contents \in Seq(RingCells) /\ Len(Contents) = count /\ Contents # <<>>
        /\ Contents' \in Seq(RingCells) /\ Len(Contents') = count - 1
    BY <1>1, ContentsType, ContentsTypeNext
  <1>5. /\ Tail(Contents) \in Seq(RingCells) /\ Len(Tail(Contents)) = count - 1
        /\ \A i \in 1..(count - 1) : Tail(Contents)[i] = Contents[i + 1]
    BY <1>4, HeadTailProperties
  <1>6. \A i \in 1..(count - 1) : Contents[i + 1] = cells[Slot(i)]
    BY <1>1 DEF Contents
  <1>7. \A i \in 1..(count - 1) : Contents'[i] = Tail(Contents)[i]
    BY <1>3, <1>5, <1>6
  <1>8. Contents' = Tail(Contents)
    BY <1>4, <1>5, <1>7, SeqEqual
  <1> QED BY <1>4, <1>8 DEF Q!Dequeue

(* The ring implements the queue Game and Match use (PendingQueue). *)
THEOREM RingIsFifo ==
  RingSpec => IsFifo
<1>1. RingInit => Q!FifoInit
  BY DEF RingInit, Zeroed, Contents, Q!FifoInit
<1>2. RingTypeOK /\ RingTypeOK' /\ [RingNext]_(ringVars) => [Q!FifoNext]_(Contents)
  <2> SUFFICES ASSUME RingTypeOK, RingTypeOK', [RingNext]_(ringVars)
               PROVE  [Q!FifoNext]_(Contents)
    OBVIOUS
  <2>1. ASSUME NEW cell \in RingCells, Push(cell) PROVE Q!FifoNext
    BY <2>1, PushEnqueues DEF Q!FifoNext
  <2>2. CASE Pop
    BY <2>2, PopDequeues DEF Q!FifoNext
  <2>3. CASE Clear
    BY <2>3 DEF Clear, Contents, Q!FifoNext, Q!Reset
  <2>4. CASE UNCHANGED ringVars
    BY <2>4 DEF ringVars, Contents, Slot
  <2> QED BY <2>1, <2>2, <2>3, <2>4 DEF RingNext
<1> QED BY <1>1, <1>2, RingType, PTL DEF RingSpec, IsFifo, Q!FifoSpec

=============================================================================
