------------------------------ MODULE MCMatch ------------------------------
(* A board for the runs of Match: four cells on which each seat can win and *)
(* a round can be drawn, small enough for full queues and several rounds.   *)
EXTENDS Match, TLC

BoardOfFour == 0..3

LinesOfFour == { {0, 1}, {1, 2}, {2, 3} }

UserSymmetry == Permutations(Users)

=============================================================================
