------------------------------- MODULE Claims -------------------------------
(***************************************************************************)
(* Claiming the exits of one settled family on L1.  The node serves what   *)
(* its index knows of the family (/api/exits, a PermissionTree); two       *)
(* clients build claims from it: the driver's claim example, one shot for  *)
(* player A, and the claim rows of the web client.  Others claim their     *)
(* leaves too, or spend from the delegate pool, so that what a client read *)
(* may be spent when its claim arrives.                                    *)
(*                                                                         *)
(* On L1 a family is one permission output: each claim spends it and, but  *)
(* for the last leaf, creates the next.  Chain reorganisations are the     *)
(* business of ExitIndex.                                                  *)
(***************************************************************************)
EXTENDS PermissionTree, FiniteSets, Functions

CONSTANTS
  Bundles,    \* leaves of the families that are tried, [owner, amount] each
  Rent,       \* rent held by the permission output
  Pool,       \* the outputs at the deposit address, [id, amount] each
  Purses,     \* by client, its own outputs: one of them is the collateral
  Fees        \* what the node's feerate estimation may ask for

Clients == {"example", "web"}

(* Deposits and what claims leave of them; what clients own, are paid and get *)
(* back.                                                                      *)
Origins == {"deposit", "pool", "rest", "own", "payout", "purse"}

Utxos == [id : Origins \X Nat, amount : Nat \ {0}]

ASSUME ClaimsAssumption ==
  /\ \A b \in Bundles :
       Len(b) > 0 /\ b \in Seq([owner : Clients \cup {"other"}, amount : Nat])
  /\ Rent \in Nat
  /\ IsFiniteSet(Pool) /\ Pool \subseteq Utxos
  /\ \A u \in Pool : u.id[1] = "deposit"
  /\ Purses \in [Clients -> SUBSET Utxos]
  /\ \A c \in Clients : Purses[c] # {} /\ \A u \in Purses[c] : u.id[1] = "own"

NoUtxo == [id |-> <<"none", 0>>, amount |-> 0]

VARIABLES
  chain,    \* the family and the pool on L1
  mempool,  \* claims submitted and not yet in a block
  client,   \* what each client is doing
  feed,     \* the exits the web client polled last
  claimed   \* ClaimExits.tsx: rows (root and leaf) already submitted

claimVars == <<leaves, emptied, root, chain, mempool, client, feed, claimed>>

Sum(utxos) == SumFunctionOnSet([u \in utxos |-> u.amount], utxos)

---------------------------------------------------------------------------
(* The served view (exit_views, exit_root_json, exit_leaf_json)              *)

(* The root, the permission output (the claims so far tell them apart), the  *)
(* leaves not spent.                                                         *)
Served == [root |-> root, emptied |-> emptied]

Unspent(view) == Positions \ view.emptied
Unclaimed(view) == Len(leaves) - Cardinality(view.emptied)
Output(view) == Cardinality(view.emptied)

OwnUnspent(view, c) == { i \in Unspent(view) : leaves[i + 1].owner = c }

---------------------------------------------------------------------------
(* encoder-wasm claim_tx, and build_permission_spend under it: the delegates *)
(* pay for the leaf and get their change, the collateral pays the fee        *)

FeeFits(collateral, fee) == fee < collateral.amount

PayoutWithRentAlways(view, i) == leaves[i + 1].amount + Rent

(* The rent goes to the last leaf of the root.                               *)
Payout(view, i) == leaves[i + 1].amount + IF Unclaimed(view) = 1 THEN Rent ELSE 0

ClaimTx(c, view, i, delegates, collateral, fee) ==
  [ by |-> c, output |-> Output(view), leaf |-> i,
    siblings |-> Siblings(view.emptied, i),
    newRoot |-> FullClaimRoot(view.emptied, i),
    delegates |-> delegates, change |-> Sum(delegates) - leaves[i + 1].amount,
    collateral |-> collateral, fee |-> fee, payout |-> Payout(view, i) ]

(* The redeem script of the output, and the outputs it spends.               *)
ValidOnL1(tx) ==
  /\ tx.output = Len(chain.claims)
  /\ Folded(tx.leaf, HashLeaf(leaves[tx.leaf + 1]), tx.siblings) = chain.root
  /\ tx.delegates \subseteq chain.pool /\ tx.change >= 0
  /\ tx.collateral \in chain.purse[tx.by]

SpendsSame(tx, other) ==
  \/ tx.output = other.output
  \/ tx.delegates \cap other.delegates # {}
  \/ tx.collateral = other.collateral

AcceptedByNode(tx) == ValidOnL1(tx) /\ \A other \in mempool : ~SpendsSame(tx, other)

---------------------------------------------------------------------------
(* The clients: fetch, read the pool, read the purse, price and submit       *)

Idle == [ pc |-> "Idle", view |-> [root |-> <<>>, emptied |-> {}], leaf |-> 0,
          delegates |-> {}, collateral |-> NoUtxo, tx |-> <<>> ]

ClaimsInit ==
  /\ leaves \in Bundles
  /\ emptied = {}
  /\ root = RootWithout({})
  /\ chain = [claims |-> <<>>, root |-> root, pool |-> Pool, purse |-> Purses,
              paid |-> {}, spentByOthers |-> 0]
  /\ mempool = {}
  /\ client = [c \in Clients |-> Idle]
  /\ feed = Served
  /\ claimed = {}

Moves(c, state) == client' = [client EXCEPT ![c] = state]

Goes(c, pc) == client' = [client EXCEPT ![c].pc = pc]

(* find_claimable: the first unspent leaf that pays player A.                *)
ExampleFetches ==
  LET own == OwnUnspent(Served, "example")
  IN  /\ client["example"].pc = "Idle"
      /\ IF own = {} THEN Goes("example", "Exited")
         ELSE Moves("example", [Idle EXCEPT !.pc = "Pool", !.view = Served,
                                            !.leaf = CHOOSE i \in own : \A j \in own : i <= j])
      /\ UNCHANGED <<leaves, emptied, root, chain, mempool, feed, claimed>>

RowKeyOfLeaf(view, i) == <<i>>

(* claimableExits: the row of a leaf, and whether its button is enabled.     *)
RowKey(view, i) == <<view.root, i>>

RowEnabled(i) == client["web"].pc = "Idle" /\ RowKey(feed, i) \notin claimed

WebClicks ==
  \E i \in OwnUnspent(feed, "web") :
    /\ RowEnabled(i)
    /\ Moves("web", [Idle EXCEPT !.pc = "Pool", !.view = feed, !.leaf = i])
    /\ UNCHANGED <<leaves, emptied, root, chain, mempool, feed, claimed>>

WebPolls ==
  /\ feed' = Served
  /\ UNCHANGED <<leaves, emptied, root, chain, mempool, client, claimed>>

(* The example takes the largest outputs until they cover the leaf, the web  *)
(* client takes them all.                                                    *)
LargestFirst(taken, amount) ==
  /\ taken \subseteq chain.pool /\ Sum(taken) >= amount
  /\ \A u \in taken : Sum(taken \ {u}) < amount
  /\ \A u \in taken, v \in chain.pool \ taken : u.amount >= v.amount

Gives(c, taken, amount) ==
  IF c = "example" THEN LargestFirst(taken, amount) ELSE taken = chain.pool

(* Neither retries what it cannot do: the example exits, the row is enabled. *)
Fails(c) == Goes(c, IF c = "example" THEN "Exited" ELSE "Idle")

ReadsPool(c) ==
  LET amount == leaves[client[c].leaf + 1].amount
  IN  /\ client[c].pc = "Pool"
      /\ IF Sum(chain.pool) < amount THEN Fails(c)
         ELSE \E taken \in SUBSET chain.pool :
                /\ Gives(c, taken, amount)
                /\ Moves(c, [client[c] EXCEPT !.pc = "Purse", !.delegates = taken])
      /\ UNCHANGED <<leaves, emptied, root, chain, mempool, feed, claimed>>

ReadsPurse(c) ==
  /\ client[c].pc = "Purse"
  /\ IF chain.purse[c] = {} THEN Fails(c)
     ELSE \E u \in chain.purse[c] :
            /\ \A v \in chain.purse[c] : v.amount <= u.amount
            /\ Moves(c, [client[c] EXCEPT !.pc = "Submit", !.collateral = u])
  /\ UNCHANGED <<leaves, emptied, root, chain, mempool, feed, claimed>>

Submits(c) ==
  \E fee \in Fees :
    LET me == client[c]
        tx == ClaimTx(c, me.view, me.leaf, me.delegates, me.collateral, fee)
        accepted == FeeFits(me.collateral, fee) /\ AcceptedByNode(tx)
    IN  /\ me.pc = "Submit"
        /\ mempool' = IF accepted THEN mempool \cup {tx} ELSE mempool
        /\ claimed' = IF accepted /\ c = "web" THEN claimed \cup {RowKey(me.view, me.leaf)}
                      ELSE claimed
        /\ IF ~accepted THEN Fails(c)
           ELSE IF c = "web" THEN Moves(c, Idle)
           ELSE Moves(c, [me EXCEPT !.pc = "Waiting", !.tx = tx])
        /\ UNCHANGED <<leaves, emptied, root, chain, feed>>

PaymentOf(tx) == [id |-> <<"payout", tx.output>>, amount |-> tx.payout]

PayoutSeenByAmount(tx) == \E u \in chain.purse["example"] : u.amount = tx.payout

(* An output at the payout address, of the claim's own txid and amount.      *)
PayoutSeen(tx) ==
  /\ \E i \in DOMAIN chain.claims : i = tx.output + 1 /\ chain.claims[i].by = tx.by
  /\ PaymentOf(tx) \in chain.purse["example"]

ExampleWaits ==
  /\ client["example"].pc = "Waiting"
  /\ \/ PayoutSeen(client["example"].tx) /\ Goes("example", "Complete")
     \/ Goes("example", "TimedOut")
  /\ UNCHANGED <<leaves, emptied, root, chain, mempool, feed, claimed>>

---------------------------------------------------------------------------
(* L1, the index and the others *)

ChangeOf(tx) ==
  { u \in { [id |-> <<"pool", tx.output>>, amount |-> tx.change] } : u.amount > 0 }
PurseChangeOf(tx) == [id |-> <<"purse", tx.output>>, amount |-> tx.collateral.amount - tx.fee]

(* The collateral pays the fee, and the claimant is paid. *)
PursesAfter(tx) ==
  [c \in Clients |->
     IF c = tx.by THEN (chain.purse[c] \ {tx.collateral}) \cup {PurseChangeOf(tx), PaymentOf(tx)}
     ELSE chain.purse[c]]

(* A block takes a claim: what spent the same outputs leaves the mempool.    *)
Confirm(tx) ==
  /\ mempool' = { other \in mempool : ~SpendsSame(tx, other) }
  /\ chain' = [chain EXCEPT
       !.claims = Append(@, [by |-> tx.by, leaf |-> tx.leaf, root |-> tx.newRoot]),
       !.root = tx.newRoot,
       !.pool = (@ \ tx.delegates) \cup ChangeOf(tx),
       !.purse = PursesAfter(tx),
       !.paid = @ \cup {<<tx.leaf, tx.payout>>}]
  /\ UNCHANGED <<leaves, emptied, root, client, feed, claimed>>

Mined == \E tx \in mempool : Confirm(tx)

(* Somebody else claims a leaf of theirs, from the output as it is on L1.    *)
OthersClaim ==
  LET view == [root |-> chain.root,
               emptied |-> { chain.claims[i].leaf : i \in DOMAIN chain.claims }]
  IN  \E i \in OwnUnspent(view, "other") :
        /\ Sum(chain.pool) >= leaves[i + 1].amount
        /\ Confirm(ClaimTx("other", view, i, chain.pool, NoUtxo, 0))

(* A claim of another family spends from the pool.                           *)
OthersSpend ==
  \E u \in Pool \cap chain.pool :
    /\ chain.spentByOthers = 0
    /\ chain' = [chain EXCEPT
         !.pool = (@ \ {u}) \cup { v \in {[id |-> <<"rest", 0>>, amount |-> u.amount - 1]} : v.amount > 0 },
         !.spentByOthers = 1]
    /\ mempool' = { tx \in mempool : u \notin tx.delegates }
    /\ UNCHANGED <<leaves, emptied, root, client, feed, claimed>>

(* The index follows the spends of the family's outputs (ExitIndex).         *)
Indexed ==
  LET n == Cardinality(emptied)
  IN  /\ n < Len(chain.claims)
      /\ emptied' = emptied \cup {chain.claims[n + 1].leaf}
      /\ root' = IF emptied' = Positions THEN root ELSE chain.claims[n + 1].root
      /\ UNCHANGED <<leaves, chain, mempool, client, feed, claimed>>

ClaimsNext ==
  \/ ExampleFetches \/ ExampleWaits \/ WebClicks \/ WebPolls
  \/ \E c \in Clients : ReadsPool(c) \/ ReadsPurse(c) \/ Submits(c)
  \/ Mined \/ OthersClaim \/ OthersSpend \/ Indexed

ClaimsSpec == ClaimsInit /\ [][ClaimsNext]_claimVars

---------------------------------------------------------------------------
(* Properties *)

Claimed == { chain.claims[i].leaf : i \in DOMAIN chain.claims }

(* No leaf is paid twice, each gets its amount, and the rent goes out once,  *)
(* with the last; what leaves the pool is exactly what the leaves were worth *)
(* ("delegates are conserved exact", encoder-wasm/src/ops.rs:476), whoever   *)
(* claimed from whichever view.                                              *)
PaysEachLeafOnce ==
  LET amount == [i \in Claimed |-> leaves[i + 1].amount]
      worth == SumFunctionOnSet(amount, Claimed)
      paid == SumFunctionOnSet([p \in chain.paid |-> p[2]], chain.paid)
  IN  /\ Cardinality(Claimed) = Len(chain.claims)
      /\ Sum(chain.pool) = Sum(Pool) - worth - chain.spentByOthers
      /\ paid = worth + IF Claimed = Positions THEN Rent ELSE 0

(* When the example says "claim complete", the leaf it took from the feed is *)
(* claimed on L1 and its amount was paid, also when others' claims were      *)
(* confirmed meanwhile or the purse held such an output before.              *)
CompleteMeansPaid ==
  client["example"].pc = "Complete" =>
    LET i == client["example"].leaf
    IN  i \in Claimed /\ \E p \in chain.paid : p[1] = i /\ p[2] >= leaves[i + 1].amount

Quiet ==
  /\ mempool = {} /\ Claimed = emptied /\ feed = Served
  /\ client["web"].pc = "Idle"

(* Once nothing is under way and the index and the web client have caught    *)
(* up, a claim with the arguments of any row is valid, and its button is     *)
(* enabled, also after an earlier claim of the leaf lost the output to       *)
(* somebody else's: "claims chain sequentially within a root"                *)
(* (web/src/claim.ts:27-32).  A claim that lost its delegates to another     *)
(* family leaves its row disabled, for the root does not change.             *)
QuietRowsClaim ==
  Quiet => \A i \in OwnUnspent(feed, "web") :
    /\ RowEnabled(i) \/ chain.spentByOthers > 0
    /\ \E u \in chain.purse["web"] : ValidOnL1(ClaimTx("web", feed, i, chain.pool, u, 0))

=============================================================================
