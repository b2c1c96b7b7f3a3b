------------------------------- MODULE Ledger -------------------------------
(***************************************************************************)
(* The guest program's run over one transaction after another: run.rs and  *)
(* the handlers of action/*.rs that move value, rotate locks or change the *)
(* config.  A transaction works on a copy of the resources; each action    *)
(* applies to what the earlier ones left; an error anywhere discards the   *)
(* copy, the last action's success commits it.                             *)
(*                                                                         *)
(* Signers resolve lazily (resolve_pending): a signature pointer over a    *)
(* resource an action has yet to create waits, and every unlock compares   *)
(* what was resolved earlier with the lock as it is now.                   *)
(*                                                                         *)
(* What happens on a board is Match's business: here a Turn or a Timeout   *)
(* of a playing match either leaves it playing or ends it with some        *)
(* result, and the money follows (settle_match).                           *)
(***************************************************************************)
EXTENDS Integers, FiniteSets, Functions

CONSTANTS
  Keys,               \* Schnorr public keys
  Unlocked,           \* the lock anyone opens
  Users,              \* user resources, each named by the lock it is born with
  Genesis,            \* GENESIS_PUBKEY, the key that may Init
  Config,             \* the config resource
  U64_MAX,
  MIN_CREATE_BALANCE, \* 1000 in the code
  Supply,             \* bound: value L1 can have in the covenant at once
  MaxGames,           \* bound: games one user creates
  MaxActions,         \* bound: actions of one transaction
  Amounts,            \* amounts, stakes and output values that are tried
  Mins,               \* values of min_withdrawal_amount that are tried
  NewLocks,           \* locks that UpdateUserLock installs
  ConfigLocks,        \* locks that Init and Update install
  Outputs,            \* output indexes of a transaction
  SignerSets,         \* sets of signers a transaction may carry
  Accesses            \* access lists a transaction may declare

Locks == Keys \cup {Unlocked}
Games == Users \X (0..(MaxGames - 1))  \* ids: the creator and its games_started
Resources == Users \cup Games \cup {Config}
Seats == {0, 1}
Modes == {"Write", "Read", "Absent"}  \* declared for a resource; Absent: not attached
Finals == {"First", "Second", "Draw"}

(* A signature pointer reads the lock it opens; the genesis and the prev-tx  *)
(* witness signers bring their own key.                                      *)
Signers == [kind : {"SigPtr", "Direct"}, resource : Users \cup {Config}, key : Keys]

ASSUME LedgerAssumption ==
  /\ Genesis \in Keys /\ Unlocked \notin Keys
  /\ Users \subseteq Locks /\ IsFiniteSet(Users)
  /\ Config \notin Users \cup Games
  /\ U64_MAX \in Nat \ {0}
  /\ MIN_CREATE_BALANCE \in Nat
  /\ Supply \in 0..U64_MAX
  /\ MaxGames \in Nat /\ MaxGames * Cardinality(Users) <= U64_MAX
  /\ MaxActions \in Nat
  /\ Amounts \subseteq 0..U64_MAX /\ Mins \subseteq 0..U64_MAX
  /\ NewLocks \subseteq Locks /\ ConfigLocks \subseteq Locks
  /\ IsFiniteSet(Outputs)
  /\ SignerSets \subseteq SUBSET Signers
  /\ Accesses \subseteq [Resources -> Modes]

VARIABLES
  store,  \* the committed resources
  held,   \* value in the covenant: outputs deposits claimed, less exits
  work,   \* the running transaction's copy of the resources
  tx      \* the running transaction

vars == <<store, held, work, tx>>

NoUser == [live |-> FALSE, balance |-> 0, started |-> 0, finished |-> 0, won |-> 0,
           lock |-> Unlocked]
NoGame == [state |-> "New", joiner |-> Unlocked, stake |-> 0]

Empty == [ config |-> [live |-> FALSE, min |-> 0, lock |-> Unlocked],
           users  |-> [u \in Users |-> NoUser],
           games  |-> [g \in Games |-> NoGame] ]

Idle == [ status |-> "Idle", signers |-> {}, pending |-> {}, auth |-> {},
          access |-> [r \in Resources |-> "Absent"],
          outputs |-> [o \in Outputs |-> 0], spent |-> {}, exits |-> 0, steps |-> 0 ]

Init == store = Empty /\ held = 0 /\ work = Empty /\ tx = Idle

SumOver(f, S) == SumFunctionOnSet(f, S)

---------------------------------------------------------------------------
(* resources/ext.rs and runtime/lock.rs *)

Attached(r) == tx.access[r] # "Absent"
Writable(r) == tx.access[r] = "Write"

LockBearing(r) == IF r = Config THEN work.config.live ELSE work.users[r].live
LockOf(r) == IF r = Config THEN work.config.lock ELSE work.users[r].lock

(* resolve_pending: a signature pointer waits for its resource.              *)
Ready == { s \in tx.pending : s.kind = "SigPtr" => LockBearing(s.resource) }

(* resolve_one: a signature pointer must verify under the key it reads.      *)
Verifies(s) == s.kind = "SigPtr" => LockOf(s.resource) = s.key

Auth == tx.auth \cup { <<s.resource, s.key>> : s \in Ready }

UnlocksAnyKey(r, lock) == lock = Unlocked \/ \E k \in Keys : <<r, k>> \in Auth

Unlocks(r, lock) == lock = Unlocked \/ <<r, lock>> \in Auth

---------------------------------------------------------------------------
(* run.rs *)

(* outputs: what each output of the transaction pays to the covenant.        *)
Begin(signers, access, outputs) ==
  /\ tx.status = "Idle"
  /\ held + SumOver(outputs, Outputs) <= Supply
  /\ \A s \in signers : access[s.resource] # "Absent"
  /\ tx' = [Idle EXCEPT !.status = "Running", !.signers = signers, !.pending = signers,
                        !.access = access, !.outputs = outputs]
  /\ UNCHANGED <<store, held, work>>

(* The next action may run: its round of resolution succeeds.                *)
Running ==
  /\ tx.status = "Running"
  /\ tx.steps < MaxActions
  /\ \A s \in Ready : Verifies(s)

Applied == [tx EXCEPT !.pending = @ \ Ready, !.auth = Auth, !.steps = @ + 1]

Applies(w) == work' = w /\ tx' = Applied /\ UNCHANGED <<store, held>>

Fails(w) == work' = w /\ tx' = [tx EXCEPT !.status = "Failed"] /\ UNCHANGED <<store, held>>

(* A signature that does not verify, an action whose first check fails (a    *)
(* transfer from a user to itself always does), a signer still pending after *)
(* the last action.                                                          *)
Reject == tx.status = "Running" /\ Fails(work)

Commit ==
  /\ tx.status = "Running"
  /\ tx.pending = {}
  /\ store' = work
  /\ held' = held + SumOver(tx.outputs, tx.spent) - tx.exits
  /\ tx' = Idle
  /\ UNCHANGED work

(* The framework drops what a failed transaction wrote.                      *)
Rollback ==
  /\ tx.status = "Failed"
  /\ work' = store
  /\ tx' = Idle
  /\ UNCHANGED <<store, held>>

---------------------------------------------------------------------------
(* action/config.rs *)

WriteConfig(min, lock) ==
  Applies([work EXCEPT !.config = [live |-> TRUE, min |-> min, lock |-> lock]])

InitConfig(min, lock) ==
  /\ Running
  /\ Attached(Config)
  /\ ~work.config.live
  /\ Unlocks(Config, Genesis)
  /\ WriteConfig(min, lock)

UpdateConfig(min, lock) ==
  /\ Running
  /\ Attached(Config)
  /\ work.config.live
  /\ Unlocks(Config, work.config.lock)
  /\ WriteConfig(min, lock)

---------------------------------------------------------------------------
(* action/user.rs, action/deposit.rs, action/withdraw.rs *)

UserReady(u) == Attached(u) /\ work.users[u].live

(* A user acts: it is live, and its lock as it is now opens.                 *)
Acts(u) == UserReady(u) /\ Unlocks(u, work.users[u].lock)

(* validate_user_create: the slot is the address of the initial lock and the *)
(* funding reaches the minimum.                                              *)
CanCreate(u, initial_lock, funding) == initial_lock = u /\ funding >= MIN_CREATE_BALANCE

Debit(w, u, amount) == [w EXCEPT !.users[u].balance = @ - amount]
Credit(w, u, amount) == [w EXCEPT !.users[u].balance = @ + amount]
Create(w, u, lock, amount) ==
  [w EXCEPT !.users[u] = [NoUser EXCEPT !.live = TRUE, !.balance = amount, !.lock = lock]]

CreditFits(w, u, amount) == w.users[u].balance + amount <= U64_MAX

(* The source is debited before the destination is found unwritable or full. *)
Transfer(source, dest, amount, dest_lock) ==
  /\ Running
  /\ source # dest
  /\ Acts(source)
  /\ Attached(dest)
  /\ work.users[dest].live \/ CanCreate(dest, dest_lock, amount)
  /\ Writable(source)
  /\ work.users[source].balance >= amount
  /\ LET debited == Debit(work, source, amount)
     IN  IF ~Writable(dest) THEN Fails(debited)
         ELSE IF ~work.users[dest].live THEN Applies(Create(debited, dest, dest_lock, amount))
         ELSE IF ~CreditFits(work, dest, amount) THEN Fails(debited)
         ELSE Applies(Credit(debited, dest, amount))

UpdateUserLockUndeclared(u, lock) ==
  /\ Running
  /\ Acts(u)
  /\ Applies([work EXCEPT !.users[u].lock = lock])

UpdateUserLock(u, lock) ==
  /\ Running
  /\ Acts(u)
  /\ Writable(u)
  /\ Applies([work EXCEPT !.users[u].lock = lock])

(* One output of the current transaction, paid to the covenant, funds at     *)
(* most one deposit of it.                                                   *)
CanDeposit(u, output, initial_lock) ==
  /\ output \notin tx.spent
  /\ Attached(u) /\ Attached(Config) /\ work.config.live
  /\ IF work.users[u].live
     THEN initial_lock = u /\ CreditFits(work, u, tx.outputs[output])
     ELSE CanCreate(u, initial_lock, tx.outputs[output])

Deposit(u, output, initial_lock) ==
  /\ Running
  /\ CanDeposit(u, output, initial_lock)
  /\ Writable(u)
  /\ LET value == tx.outputs[output]
     IN  work' = IF work.users[u].live THEN Credit(work, u, value)
                 ELSE Create(work, u, initial_lock, value)
  /\ tx' = [Applied EXCEPT !.spent = @ \cup {output}]
  /\ UNCHANGED <<store, held>>

WithdrawOverdraws(u, amount) ==
  /\ Running
  /\ Attached(Config) /\ work.config.live
  /\ Acts(u)
  /\ amount >= work.config.min
  /\ Writable(u)
  /\ work' = Debit(work, u, amount)
  /\ tx' = [Applied EXCEPT !.exits = @ + amount]
  /\ UNCHANGED <<store, held>>

Withdraw(u, amount) ==
  /\ Running
  /\ Attached(Config) /\ work.config.live
  /\ Acts(u)
  /\ amount >= work.config.min
  /\ work.users[u].balance >= amount
  /\ Writable(u)
  /\ work' = Debit(work, u, amount)
  /\ tx' = [Applied EXCEPT !.exits = @ + amount]
  /\ UNCHANGED <<store, held>>

---------------------------------------------------------------------------
(* action/game.rs: the money and the statistics *)

(* The creator is debited and its counter advanced before the game slot is   *)
(* found unwritable.                                                         *)
CreateGame(creator, game, stake) ==
  /\ Running
  /\ Attached(game)
  /\ work.games[game].state = "New"
  /\ Acts(creator)
  /\ game = <<creator, work.users[creator].started>>
  /\ Writable(creator)
  /\ work.users[creator].balance >= stake
  /\ LET debited == [Debit(work, creator, stake) EXCEPT !.users[creator].started = @ + 1]
     IN  IF Writable(game)
         THEN Applies([debited EXCEPT !.games[game] =
                         [state |-> "Open", joiner |-> Unlocked, stake |-> stake]])
         ELSE Fails(debited)

JoinGameForFree(game, joiner) ==
  /\ Running
  /\ Acts(joiner)
  /\ Attached(game)
  /\ work.games[game].state = "Open"
  /\ joiner # game[1]
  /\ Writable(joiner)
  /\ work.users[joiner].balance >= work.games[game].stake
  /\ Writable(game)
  /\ Applies([work EXCEPT !.games[game].state = "Playing", !.games[game].joiner = joiner])

JoinGame(game, joiner) ==
  /\ Running
  /\ Acts(joiner)
  /\ Attached(game)
  /\ work.games[game].state = "Open"
  /\ joiner # game[1]
  /\ Writable(joiner)
  /\ work.users[joiner].balance >= work.games[game].stake
  /\ LET debited == Debit(work, joiner, work.games[game].stake)
     IN  IF Writable(game)
         THEN Applies([debited EXCEPT !.games[game].state = "Playing",
                                      !.games[game].joiner = joiner])
         ELSE Fails(debited)

Player(w, game, seat) == IF seat = 0 THEN game[1] ELSE w.games[game].joiner

Pot(w, game) == 2 * w.games[game].stake

PrizeForgetsDraw(w, game, seat) ==
  CASE w.games[game].state = "First"  -> IF seat = 0 THEN Pot(w, game) ELSE 0
    [] w.games[game].state = "Second" -> IF seat = 1 THEN Pot(w, game) ELSE 0
    [] w.games[game].state = "Draw"   -> 0

Prize(w, game, seat) ==
  CASE w.games[game].state = "First"  -> IF seat = 0 THEN Pot(w, game) ELSE 0
    [] w.games[game].state = "Second" -> IF seat = 1 THEN Pot(w, game) ELSE 0
    [] w.games[game].state = "Draw"   -> w.games[game].stake

Won(w, game, seat) == w.games[game].state = IF seat = 0 THEN "First" ELSE "Second"

(* settle_match's checked additions for one seat.                            *)
SeatFits(w, game, seat) ==
  LET u == Player(w, game, seat)
  IN  /\ w.users[u].live
      /\ CreditFits(w, u, Prize(w, game, seat))
      /\ w.users[u].finished < U64_MAX
      /\ Won(w, game, seat) => w.users[u].won < U64_MAX

SettleSeatCountsDrawAsWin(w, game, seat) ==
  LET u == Player(w, game, seat)
  IN  [w EXCEPT !.users[u].balance = @ + Prize(w, game, seat),
                !.users[u].finished = @ + 1,
                !.users[u].won = @ + IF Prize(w, game, seat) > 0 THEN 1 ELSE 0]

SettleSeat(w, game, seat) ==
  LET u == Player(w, game, seat)
  IN  [w EXCEPT !.users[u].balance = @ + Prize(w, game, seat),
                !.users[u].finished = @ + 1,
                !.users[u].won = @ + IF Won(w, game, seat) THEN 1 ELSE 0]

(* Both players' resources must be attached and writable; seat 0 is paid     *)
(* before seat 1 is looked up.                                               *)
Settles(w, game) ==
  LET payable(v, seat) == Writable(Player(v, game, seat)) /\ SeatFits(v, game, seat)
      first == SettleSeat(w, game, 0)
  IN  IF Pot(w, game) > U64_MAX \/ ~payable(w, 0) THEN Fails(w)
      ELSE IF ~payable(first, 1) THEN Fails(first)
      ELSE Applies(SettleSeat(first, game, 1))

(* A playing match moves on, and is settled in the same action if it ends.   *)
Plays(game, state) ==
  LET w == [work EXCEPT !.games[game].state = state]
  IN  /\ work.games[game].state = "Playing"
      /\ Writable(game)
      /\ IF state \in Finals THEN Settles(w, game) ELSE Applies(w)

Turn(game, mover, state) ==
  /\ Running
  /\ Acts(mover)
  /\ \E seat \in Seats : mover = Player(work, game, seat)
  /\ Plays(game, state)

Timeout(game, state) ==
  /\ Running
  /\ Attached(Config) /\ work.config.live
  /\ Plays(game, state)

---------------------------------------------------------------------------

UserAction ==
  \/ \E source, dest \in Users, amount \in Amounts, lock \in Locks :
       Transfer(source, dest, amount, lock)
  \/ \E u \in Users, lock \in NewLocks : UpdateUserLock(u, lock)
  \/ \E u \in Users, output \in Outputs, lock \in Locks : Deposit(u, output, lock)
  \/ \E u \in Users, amount \in Amounts : Withdraw(u, amount)

GameAction ==
  \/ \E u \in Users, game \in Games, stake \in Amounts : CreateGame(u, game, stake)
  \/ \E u \in Users, game \in Games : JoinGame(game, u)
  \/ \E u \in Users, game \in Games, state \in Finals \cup {"Playing"} : Turn(game, u, state)
  \/ \E game \in Games, state \in Finals \cup {"Playing"} : Timeout(game, state)

ConfigAction ==
  \E min \in Mins, lock \in ConfigLocks : InitConfig(min, lock) \/ UpdateConfig(min, lock)

Next ==
  \/ \E signers \in SignerSets, access \in Accesses, outputs \in [Outputs -> Amounts \cup {0}] :
       Begin(signers, access, outputs)
  \/ UserAction \/ GameAction \/ ConfigAction
  \/ Reject \/ Commit \/ Rollback

Spec == Init /\ [][Next]_vars

---------------------------------------------------------------------------
(* Properties *)

User == [ live : BOOLEAN, balance : 0..U64_MAX, started : 0..MaxGames,
          finished : 0..U64_MAX, won : 0..U64_MAX, lock : Locks ]
Game == [ state : {"New", "Open", "Playing"} \cup Finals,
          joiner : Users \cup {Unlocked}, stake : 0..U64_MAX ]
Store == [ config : [live : BOOLEAN, min : 0..U64_MAX, lock : Locks],
           users : [Users -> User], games : [Games -> Game] ]

Tx == [ status : {"Idle", "Running", "Failed"},
        signers : SUBSET Signers, pending : SUBSET Signers,
        auth : SUBSET ((Users \cup {Config}) \X Keys),
        access : [Resources -> Modes], outputs : [Outputs -> 0..U64_MAX],
        spent : SUBSET Outputs, exits : Nat, steps : 0..MaxActions ]

(* Balances, stakes and statistics stay in their u64 fields, in the          *)
(* committed resources and in the working copy at every point of a           *)
(* transaction, failed ones included (the checked additions and              *)
(* subtractions of action/*.rs).                                             *)
TypeOK == store \in Store /\ work \in Store /\ tx \in Tx

Staked(w, game) ==
  CASE w.games[game].state = "Open"    -> w.games[game].stake
    [] w.games[game].state = "Playing" -> 2 * w.games[game].stake
    [] OTHER -> 0

Total(w) ==
  SumOver([u \in Users |-> w.users[u].balance], Users)
    + SumOver([g \in Games |-> Staked(w, g)], Games)

(* Every unit a user owns or has at stake is backed by a unit the covenant   *)
(* holds, and none is lost: whatever mix of deposits, transfers, stakes,     *)
(* settlements and exits transactions made, and wherever they failed.        *)
Conserved == Total(store) = held

(* A match being played can be settled with any result: its players exist,   *)
(* and no checked addition of settle_match can refuse them.  The joiner's    *)
(* and the creator's balances move freely while they play.                   *)
CanSettle ==
  \A game \in Games : store.games[game].state = "Playing" =>
    /\ 2 * store.games[game].stake <= U64_MAX
    /\ \A result \in Finals, seat \in Seats :
         LET w == [store EXCEPT !.games[game].state = result]
         IN  SeatFits(IF seat = 0 THEN w ELSE SettleSeat(w, game, 0), game, seat)

InGame(u, game) == u = game[1] \/ u = store.games[game].joiner

Champion(game) ==
  IF store.games[game].state = "First" THEN game[1] ELSE store.games[game].joiner

(* A user's counters tell its games: as many started as it created, with     *)
(* consecutive numbers, as many finished as ended with it, as many won.      *)
StatsTell ==
  \A u \in Users :
    /\ \A n \in 0..(MaxGames - 1) :
         (store.games[<<u, n>>].state # "New") = (n < store.users[u].started)
    /\ store.users[u].finished =
         Cardinality({ g \in Games : store.games[g].state \in Finals /\ InGame(u, g) })
    /\ store.users[u].won =
         Cardinality({ g \in Games : store.games[g].state \in {"First", "Second"}
                                      /\ Champion(g) = u })

(* Whoever takes value out of a user, or changes its lock, opened the lock   *)
(* the user has at that moment, not one it had when the signers were         *)
(* resolved: the transaction carries a signer for it with the current key.   *)
CurrentLockOpened ==
  [][ \A u \in Users :
        LET before == work.users[u]
            after  == work'.users[u]
        IN  (tx.status = "Running" /\ before.live
              /\ (after.balance < before.balance \/ after.lock # before.lock))
            => \/ before.lock = Unlocked
               \/ \E s \in tx.signers : s.resource = u /\ s.key = before.lock
    ]_vars

(* Nothing reaches the committed resources of users and games that the       *)
(* transaction did not declare writable.                                     *)
WritesAreDeclared ==
  [][ \A r \in Users \cup Games : tx.access[r] # "Write" =>
        IF r \in Users THEN store'.users[r] = store.users[r]
                       ELSE store'.games[r] = store.games[r] ]_vars

(* "this module is the single choke point through which all action writes    *)
(* pass" (resources/ext.rs:6): the config too is written only when the       *)
(* transaction declared it writable.                                         *)
ConfigWritesAreDeclared ==
  [][ store'.config # store.config => tx.access[Config] = "Write" ]_vars

=============================================================================
