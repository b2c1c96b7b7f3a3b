------------------------------- MODULE MCLane -------------------------------
(* Orders of ids and driver configurations for the run of Lane.             *)
EXTENDS Lane, TLC

OneGame(u) == <<u, 0>>

Ranked(ids) == [r \in Resources |-> CHOOSE i \in DOMAIN ids : ids[i] = r]

(* Two lists of the resources of which one is the other read backwards, so  *)
(* that every pair comes in both orders, and one that puts a game between   *)
(* its players.                                                             *)
Forward == <<Config, PlayerA, OneGame(PlayerA), PlayerB, OneGame(PlayerB), Web, OneGame(Web)>>
Backward == [i \in DOMAIN Forward |-> Forward[Len(Forward) + 1 - i]]
Mixed == <<PlayerB, OneGame(PlayerA), PlayerA, OneGame(Web), Config, OneGame(PlayerB), Web>>

Driver(deposit, stake, transfer, rounds) ==
  [deposit |-> deposit, stake |-> stake, transfer |-> transfer, turn_ttl |-> 2, rounds |-> rounds]

Scenario(ids, driver, web, others) ==
  [rank |-> Ranked(ids), cfg |-> [web |-> web, others |-> others] @@ driver]

(* The remainder reaches the minimum; the transfer keeps it from that; the  *)
(* pot does not reach it; the match is longer than the script; the number   *)
(* of rounds wraps to one.                                                  *)
SomeScenarios ==
  { Scenario(Forward, Driver(5, 2, 0, 1), 3, 0), Scenario(Backward, Driver(5, 2, 1, 1), 2, 0),
    Scenario(Forward, Driver(2, 1, 0, 1), 1, 1), Scenario(Backward, Driver(5, 2, 0, 1), 1, 1),
    Scenario(Mixed, Driver(5, 2, 1, 3), 1, 1), Scenario(Mixed, Driver(5, 2, 1, 257), 1, 0) }

=============================================================================
