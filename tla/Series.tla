------------------------------ MODULE Series ------------------------------
(***************************************************************************)
(* What a match promises, without boards, queues or clocks: a series of at *)
(* most `total` rounds whose result is announced at the first moment it is *)
(* certain, and never changes afterwards.                                  *)
(*                                                                         *)
(* One transaction may close several rounds (queued pre-commits cascade    *)
(* across round boundaries), so a step may add several rounds to the       *)
(* score; it may not add a round to a score that already decides.          *)
(***************************************************************************)
EXTENDS Integers

CONSTANT MaxTotal  \* greatest number of rounds a series can have

VARIABLES phase,   \* "Open", "Playing", or the announced result
          total,   \* rounds in the series, fixed when it is created
          score    \* [first, second, drawn]: rounds closed so far

seriesVars == <<phase, total, score>>

Scores == [first : 0..MaxTotal, second : 0..MaxTotal, drawn : 0..MaxTotal]

Played(s) == s.first + s.second + s.drawn

Verdicts == {"First", "Second", "Draw"}

Verdict(first, second) ==
  IF first > second THEN "First" ELSE IF second > first THEN "Second" ELSE "Draw"

(* Every result some way of playing the remaining rounds would give. *)
PossibleVerdicts(s, rounds) ==
  LET left == rounds - Played(s)
  IN  { v \in Verdicts : \E f, t \in 0..left :
                           f + t <= left /\ v = Verdict(s.first + f, s.second + t) }

Certain(s, rounds, result) == PossibleVerdicts(s, rounds) = {result}

Open(s, rounds) == \A v \in Verdicts : ~Certain(s, rounds, v)

(* The scores one closed round earlier. *)
OneRoundLess(s) ==
  { p \in { [s EXCEPT !.first = @ - 1], [s EXCEPT !.second = @ - 1],
            [s EXCEPT !.drawn = @ - 1] } : p \in Scores }

AtLeast(s, t) == s.first >= t.first /\ s.second >= t.second /\ s.drawn >= t.drawn

SeriesInit ==
  /\ phase = "Open"
  /\ total \in 1..MaxTotal
  /\ score = [first |-> 0, second |-> 0, drawn |-> 0]

Start ==
  /\ phase = "Open"
  /\ phase' = "Playing"
  /\ UNCHANGED <<total, score>>

PlayOn ==
  /\ phase = "Playing"
  /\ score' \in Scores
  /\ AtLeast(score', score)
  /\ Played(score') <= total
  /\ Open(score', total)
  /\ UNCHANGED <<phase, total>>

Finish ==
  /\ phase = "Playing"
  /\ score' \in Scores
  /\ Played(score') <= total
  /\ \E before \in OneRoundLess(score') : AtLeast(before, score) /\ Open(before, total)
  /\ phase' \in Verdicts
  /\ Certain(score', total, phase')
  /\ UNCHANGED total

SeriesNext == Start \/ PlayOn \/ Finish

SeriesSpec == SeriesInit /\ [][SeriesNext]_seriesVars

=============================================================================
