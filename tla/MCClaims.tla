------------------------------ MODULE MCClaims ------------------------------
(* Families for the run of Claims: one leaf, a pair, an odd one, and one of *)
(* five, whose tree is padded at two levels.                                *)
EXTENDS Claims

Leaf(owner, amount) == [owner |-> owner, amount |-> amount]

MCBundles ==
  { <<Leaf("web", 2)>>,
    <<Leaf("example", 1), Leaf("web", 2)>>,
    <<Leaf("web", 1), Leaf("example", 2), Leaf("web", 1)>>,
    <<Leaf("other", 1), Leaf("web", 1), Leaf("other", 1), Leaf("other", 1), Leaf("example", 1)>> }

Utxo(id, amount) == [id |-> id, amount |-> amount]

MCPool == { Utxo(<<"deposit", n>>, n) : n \in 1..3 }

(* The example's purse holds an output of the amount of a leaf.             *)
MCPurses ==
  [c \in Clients |-> IF c = "web" THEN { Utxo(<<"own", 1>>, 9) }
                     ELSE { Utxo(<<"own", 2>>, 2), Utxo(<<"own", 3>>, 1) }]

=============================================================================
