---------------------------- MODULE LedgerProofs ----------------------------
(***************************************************************************)
(* Theorems about Ledger: its fields keep their types, whoever takes value *)
(* out of a user opened its lock, only declared resources are written, and *)
(* what users own and have at stake adds up to what the covenant holds.    *)
(*                                                                         *)
(* All handlers are built from writes of one user or one game.  Fine(w)    *)
(* says what a working copy must satisfy at any point of a transaction;    *)
(* UserWrite and GameWrite say when a write keeps it; one lemma per        *)
(* handler composes them.                                                  *)
(***************************************************************************)
EXTENDS Ledger, FoldProofs

---------------------------------------------------------------------------
(* Ledger tries some amounts, locks, signers and access lists.  The proofs *)
(* need no such bound: AnySpec takes every argument a carrier can bring,   *)
(* and what stands for a lock in a transfer or a deposit may be anything.  *)

AnyUserAction ==
  \/ \E source, dest \in Users, amount \in 0..U64_MAX : \E lock :
       Transfer(source, dest, amount, lock)
  \/ \E u \in Users, lock \in Locks : UpdateUserLock(u, lock)
  \/ \E u \in Users, output \in Outputs : \E lock : Deposit(u, output, lock)
  \/ \E u \in Users, amount \in 0..U64_MAX : Withdraw(u, amount)

AnyGameAction ==
  \/ \E u \in Users, game \in Games, stake \in 0..U64_MAX : CreateGame(u, game, stake)
  \/ \E u \in Users, game \in Games : JoinGame(game, u)
  \/ \E u \in Users, game \in Games, state \in Finals \cup {"Playing"} : Turn(game, u, state)
  \/ \E game \in Games, state \in Finals \cup {"Playing"} : Timeout(game, state)

AnyConfigAction ==
  \E min \in 0..U64_MAX, lock \in Locks : InitConfig(min, lock) \/ UpdateConfig(min, lock)

AnyNext ==
  \/ \E signers \in SUBSET Signers, access \in [Resources -> Modes],
        outputs \in [Outputs -> 0..U64_MAX] : Begin(signers, access, outputs)
  \/ AnyUserAction \/ AnyGameAction \/ AnyConfigAction
  \/ Reject \/ Commit \/ Rollback

AnySpec == Init /\ [][AnyNext]_vars

(* What Ledger does, AnySpec may do.                                       *)
LEMMA SpecIsAny == Spec => AnySpec
<1>1. UserAction => AnyUserAction
  BY LedgerAssumption DEF UserAction, AnyUserAction
<1>2. GameAction => AnyGameAction
  BY LedgerAssumption DEF GameAction, AnyGameAction
<1>3. ConfigAction => AnyConfigAction
  BY LedgerAssumption DEF ConfigAction, AnyConfigAction
<1>4. ASSUME NEW signers \in SignerSets, NEW access \in Accesses,
             NEW outputs \in [Outputs -> Amounts \cup {0}], Begin(signers, access, outputs)
      PROVE  AnyNext
  <2>1. /\ signers \in SUBSET Signers /\ access \in [Resources -> Modes]
        /\ Amounts \cup {0} \subseteq 0..U64_MAX
    BY LedgerAssumption
  <2>2. outputs \in [Outputs -> 0..U64_MAX]
    BY <2>1
  <2> QED BY <1>4, <2>1, <2>2 DEF AnyNext
<1>5. [Next]_vars => [AnyNext]_vars
  BY <1>1, <1>2, <1>3, <1>4 DEF Next, AnyNext
<1> QED BY <1>5, PTL DEF Spec, AnySpec

---------------------------------------------------------------------------
(* The invariant *)

(* A match that has started has a joiner, hence two players. *)
Seated(w) ==
  \A g \in Games : w.games[g].state \in {"Playing"} \cup Finals => w.games[g].joiner \in Users

(* The lock user u has in the working copy is opened by a signer. *)
Opened(u) ==
  \/ work.users[u].lock = Unlocked
  \/ \E s \in tx.signers : s.resource = u /\ s.key = work.users[u].lock

(* w differs from the committed resources where that was declared. *)
Declared(w) ==
  /\ \A u \in Users : ~Writable(u) => w.users[u] = store.users[u]
  /\ \A g \in Games : ~Writable(g) => w.games[g] = store.games[g]

(* w takes value or a lock from users whose lock was opened. *)
Guarded(w) ==
  \A u \in Users :
    (work.users[u].live
      /\ (w.users[u].balance < work.users[u].balance \/ w.users[u].lock # work.users[u].lock))
    => Opened(u)

Fine(w) == w \in Store /\ Seated(w) /\ Declared(w) /\ Guarded(w)

(* Every unlocker comes from a signer of the transaction. *)
Backed ==
  /\ tx.pending \subseteq tx.signers
  /\ \A p \in tx.auth : \E s \in tx.signers : p = <<s.resource, s.key>>

LedgerInv ==
  /\ TypeOK
  /\ Seated(store) /\ Seated(work)
  /\ Declared(work)
  /\ Backed
  /\ tx.status = "Idle" => work = store

(* What a step of a running transaction does. *)
Keeps == LedgerInv' /\ Guarded(work') /\ store' = store

---------------------------------------------------------------------------
(* Writes *)

(* One user is written: it was declared, and if it loses value or its lock *)
(* that lock was opened, or the user did not exist.                        *)
LEMMA UserWrite ==
  ASSUME NEW w, Fine(w), NEW u \in Users, NEW new \in User, Writable(u),
         \/ w.users[u].balance <= new.balance /\ new.lock = w.users[u].lock
         \/ Opened(u)
         \/ ~work.users[u].live,
         work \in Store
  PROVE  Fine([w EXCEPT !.users[u] = new])
<1> DEFINE v == [w EXCEPT !.users[u] = new]
<1>1. /\ v \in Store /\ v.games = w.games
      /\ v.users[u] = new
      /\ \A x \in Users : x # u => v.users[x] = w.users[x]
  BY DEF Fine, Store
<1>2. Seated(v)
  BY <1>1 DEF Fine, Seated
<1>3. Declared(v)
  BY <1>1 DEF Fine, Declared
<1>4. Guarded(v)
  <2> SUFFICES ASSUME NEW x \in Users, work.users[x].live,
                      v.users[x].balance < work.users[x].balance
                        \/ v.users[x].lock # work.users[x].lock
               PROVE  Opened(x)
    BY DEF Guarded
  <2>1. CASE x # u
    BY <2>1, <1>1 DEF Fine, Guarded
  <2>2. CASE x = u
    <3>1. /\ w.users[u].balance \in Nat /\ new.balance \in Nat
          /\ work.users[u].balance \in Nat
      BY DEF Fine, Store, User
    <3> QED BY <2>2, <3>1, <1>1 DEF Fine, Guarded
  <2> QED BY <2>1, <2>2
<1> HIDE DEF v
<1>5. Fine(v)
  BY <1>1, <1>2, <1>3, <1>4 DEF Fine
<1> QED BY <1>5 DEF v

(* One game is written: it was declared, and has a joiner if it started.   *)
LEMMA GameWrite ==
  ASSUME NEW w, Fine(w), NEW g \in Games, NEW new \in Game, Writable(g),
         new.state \in {"Playing"} \cup Finals => new.joiner \in Users
  PROVE  Fine([w EXCEPT !.games[g] = new])
<1> DEFINE v == [w EXCEPT !.games[g] = new]
<1>1. /\ v \in Store /\ v.users = w.users
      /\ v.games[g] = new
      /\ \A x \in Games : x # g => v.games[x] = w.games[x]
  BY DEF Fine, Store
<1>2. Seated(v)
  BY <1>1 DEF Fine, Seated
<1>3. Declared(v)
  BY <1>1 DEF Fine, Declared
<1>4. Guarded(v)
  BY <1>1 DEF Fine, Guarded
<1> HIDE DEF v
<1>5. Fine(v)
  BY <1>1, <1>2, <1>3, <1>4 DEF Fine
<1> QED BY <1>5 DEF v

(* Who acts opened the lock. *)
LEMMA ActsOpened ==
  ASSUME LedgerInv, NEW u \in Users, Acts(u)
  PROVE  Opened(u)
BY DEF LedgerInv, TypeOK, Backed, Acts, Unlocks, Auth, Ready, Opened, Tx, Signers

(* A working copy that changed nothing. *)
LEMMA WorkFine ==
  ASSUME LedgerInv
  PROVE  Fine(work)
<1>1. Guarded(work)
  BY DEF LedgerInv, TypeOK, Store, User, Guarded
<1> QED BY <1>1 DEF LedgerInv, TypeOK, Fine

---------------------------------------------------------------------------
(* The end of a handler *)

(* The transaction record after an action that succeeded. *)
LEMMA AppliedSound ==
  ASSUME LedgerInv, Running
  PROVE  /\ Applied \in Tx
         /\ Applied.status = "Running"
         /\ Applied.access = tx.access /\ Applied.signers = tx.signers
         /\ Applied.exits = tx.exits /\ Applied.spent = tx.spent
         /\ Applied.pending \subseteq tx.signers
         /\ \A p \in Applied.auth : \E s \in tx.signers : p = <<s.resource, s.key>>
<1>1. Ready \subseteq tx.signers /\ tx \in Tx
  BY DEF LedgerInv, TypeOK, Backed, Ready
<1>2. Auth \subseteq ((Users \cup {Config}) \X Keys)
  BY <1>1 DEF Auth, Tx, Signers
<1>3. \A p \in Auth : \E s \in tx.signers : p = <<s.resource, s.key>>
  BY <1>1 DEF Auth, LedgerInv, Backed
<1>4. tx.steps + 1 \in 0..MaxActions
  BY <1>1, LedgerAssumption DEF Running, Tx
<1>5. tx.pending \ Ready \in SUBSET Signers /\ tx.pending \ Ready \subseteq tx.signers
  BY <1>1 DEF Tx, LedgerInv, Backed
<1> QED BY <1>1, <1>2, <1>3, <1>4, <1>5 DEF Applied, Tx, Running

(* A step of a running transaction whose new working copy is fine, and     *)
(* which keeps the transaction's signers and declarations.                 *)
LEMMA StepKeeps ==
  ASSUME LedgerInv, NEW w, Fine(w), work' = w, store' = store,
         tx' \in Tx, tx'.status # "Idle",
         tx'.access = tx.access, tx'.signers = tx.signers,
         tx'.pending \subseteq tx.signers,
         \A p \in tx'.auth : \E s \in tx.signers : p = <<s.resource, s.key>>
  PROVE  Keeps
<1>1. TypeOK'
  BY DEF LedgerInv, TypeOK, Fine
<1>2. Seated(store)' /\ Seated(work)'
  BY DEF LedgerInv, Seated, Fine
<1>3. Declared(work)'
  BY DEF Fine, Declared, Writable
<1>4. Backed'
  BY DEF Backed
<1>5. Guarded(work')
  BY DEF Fine
<1> QED BY <1>1, <1>2, <1>3, <1>4, <1>5 DEF Keeps, LedgerInv

LEMMA AppliesKeeps ==
  ASSUME LedgerInv, Running, NEW w, Fine(w), Applies(w)
  PROVE  Keeps
BY AppliedSound, StepKeeps DEF Applies

LEMMA FailsKeeps ==
  ASSUME LedgerInv, NEW w, Fine(w), Fails(w)
  PROVE  Keeps
<1>1. tx' \in Tx /\ tx'.status = "Failed" /\ tx'.access = tx.access /\ tx'.signers = tx.signers
        /\ tx'.pending = tx.pending /\ tx'.auth = tx.auth
  BY DEF Fails, LedgerInv, TypeOK, Tx
<1> QED BY <1>1, StepKeeps DEF Fails, LedgerInv, Backed

---------------------------------------------------------------------------
(* The writes the handlers are built from *)

LEMMA DebitFine ==
  ASSUME LedgerInv, NEW w, Fine(w), NEW u \in Users, Writable(u), Opened(u),
         NEW amount \in Nat, amount <= w.users[u].balance
  PROVE  Fine(Debit(w, u, amount)) 
<1> DEFINE new == [w.users[u] EXCEPT !.balance = @ - amount]
<1>1. w.users[u] \in User
  BY DEF Fine, Store
<1>2. new \in User
  <2>1. U64_MAX \in Nat /\ w.users[u].balance \in 0..U64_MAX
    BY <1>1, LedgerAssumption DEF User
  <2>2. w.users[u].balance - amount \in 0..U64_MAX
    BY <2>1
  <2> QED BY <1>1, <2>2 DEF User
<1> HIDE DEF new
<1>3. Fine([w EXCEPT !.users[u] = new])
  BY <1>2, UserWrite DEF LedgerInv, TypeOK
<1>4. Debit(w, u, amount) = [w EXCEPT !.users[u] = new]
  BY <1>1 DEF Debit, new, Fine, Store
<1> QED BY <1>3, <1>4

LEMMA CreditFine ==
  ASSUME LedgerInv, NEW w, Fine(w), NEW u \in Users, Writable(u),
         NEW amount \in Nat, CreditFits(w, u, amount)
  PROVE  Fine(Credit(w, u, amount))
<1> DEFINE new == [w.users[u] EXCEPT !.balance = @ + amount]
<1>1. w.users[u] \in User
  BY DEF Fine, Store
<1>2. /\ new \in User
      /\ w.users[u].balance <= new.balance /\ new.lock = w.users[u].lock
  BY <1>1, LedgerAssumption DEF User, CreditFits
<1> HIDE DEF new
<1>3. Fine([w EXCEPT !.users[u] = new])
  BY <1>2, UserWrite DEF LedgerInv, TypeOK
<1>4. Credit(w, u, amount) = [w EXCEPT !.users[u] = new]
  BY <1>1 DEF Credit, new, Fine, Store
<1> QED BY <1>3, <1>4

LEMMA CreateFine ==
  ASSUME LedgerInv, NEW w, Fine(w), NEW u \in Users, Writable(u), ~work.users[u].live,
         NEW lock \in Locks, NEW amount \in 0..U64_MAX
  PROVE  Fine(Create(w, u, lock, amount))
<1> DEFINE new == [NoUser EXCEPT !.live = TRUE, !.balance = amount, !.lock = lock]
<1>1. new \in User
  <2>1. 0 \in 0..U64_MAX /\ 0 \in 0..MaxGames
    BY LedgerAssumption
  <2> QED BY <2>1 DEF User, NoUser
<1> HIDE DEF new
<1>2. Fine([w EXCEPT !.users[u] = new])
  BY <1>1, UserWrite DEF LedgerInv, TypeOK
<1> QED BY <1>2 DEF Create, new

LEMMA LockFine ==
  ASSUME LedgerInv, NEW u \in Users, Writable(u), Opened(u), NEW lock \in Locks
  PROVE  Fine([work EXCEPT !.users[u].lock = lock])
<1> DEFINE new == [work.users[u] EXCEPT !.lock = lock]
<1>1. work.users[u] \in User
  BY DEF LedgerInv, TypeOK, Store
<1>2. new \in User
  BY <1>1 DEF User
<1> HIDE DEF new
<1>3. Fine([work EXCEPT !.users[u] = new])
  BY <1>2, WorkFine, UserWrite DEF LedgerInv, TypeOK
<1>4. [work EXCEPT !.users[u].lock = lock] = [work EXCEPT !.users[u] = new]
  BY <1>1 DEF new, LedgerInv, TypeOK, Store
<1> QED BY <1>3, <1>4

LEMMA PrizeType ==
  ASSUME NEW w, w \in Store, NEW g \in Games, NEW seat \in Seats, w.games[g].state \in Finals
  PROVE  Prize(w, g, seat) \in Nat
<1>1. w.games[g].stake \in Nat
  BY DEF Store, Game
<1> QED BY <1>1 DEF Prize, Pot, Finals

LEMMA SettleSeatFine ==
  ASSUME LedgerInv, NEW w, Fine(w), NEW g \in Games, NEW seat \in Seats,
         w.games[g].state \in Finals,
         Writable(Player(w, g, seat)), SeatFits(w, g, seat)
  PROVE  /\ Fine(SettleSeat(w, g, seat))
         /\ SettleSeat(w, g, seat).games = w.games
<1> DEFINE u == Player(w, g, seat)
           prize == Prize(w, g, seat)
           won == IF Won(w, g, seat) THEN 1 ELSE 0
           new == [w.users[u] EXCEPT !.balance = @ + prize, !.finished = @ + 1, !.won = @ + won]
<1>1. u \in Users
  BY DEF Player, Games, Fine, Seated
<1>2. prize \in Nat
  BY PrizeType DEF Fine
<1>3. w.users[u] \in User
  BY <1>1 DEF Fine, Store
<1>4. /\ w.users[u].balance + prize <= U64_MAX
      /\ w.users[u].finished < U64_MAX
      /\ won = 1 => w.users[u].won < U64_MAX
  BY DEF SeatFits, CreditFits
<1>5. won \in {0, 1}
  OBVIOUS
<1>6. SettleSeat(w, g, seat) = [w EXCEPT !.users[u] = new]
  BY <1>1, <1>3 DEF SettleSeat, Fine, Store
<1>7. Writable(u)
  OBVIOUS
<1> HIDE DEF prize, won, u
<1>8. /\ new \in User
      /\ w.users[u].balance <= new.balance /\ new.lock = w.users[u].lock
  <2>1. /\ U64_MAX \in Nat /\ w.users[u].balance \in Nat
        /\ w.users[u].finished \in Nat /\ w.users[u].won \in 0..U64_MAX
    BY <1>3, LedgerAssumption DEF User
  <2>2. /\ w.users[u].balance + prize \in 0..U64_MAX
        /\ w.users[u].finished + 1 \in 0..U64_MAX
        /\ w.users[u].won + won \in 0..U64_MAX
        /\ w.users[u].balance <= w.users[u].balance + prize
    BY <2>1, <1>2, <1>4, <1>5
  <2> QED BY <1>3, <2>2 DEF User
<1> HIDE DEF new
<1>9. Fine([w EXCEPT !.users[u] = new])
  BY <1>1, <1>7, <1>8, UserWrite DEF LedgerInv, TypeOK
<1>10. [w EXCEPT !.users[u] = new].games = w.games
  BY DEF Fine, Store
<1> QED BY <1>6, <1>9, <1>10

---------------------------------------------------------------------------
(* The handlers *)

LEMMA ConfigKeeps ==
  ASSUME LedgerInv, Running, NEW min \in 0..U64_MAX, NEW lock \in Locks,
         WriteConfig(min, lock)
  PROVE  Keeps
<1> DEFINE w == [work EXCEPT !.config = [live |-> TRUE, min |-> min, lock |-> lock]]
<1>1. min \in 0..U64_MAX /\ lock \in Locks
  BY LedgerAssumption
<1>2. w \in Store /\ w.users = work.users /\ w.games = work.games
  BY <1>1 DEF LedgerInv, TypeOK, Store
<1>3. Applies(w)
  BY DEF WriteConfig
<1> HIDE DEF w
<1>4. Fine(w)
  BY <1>2, WorkFine DEF Fine, Seated, Declared, Guarded
<1> QED BY <1>3, <1>4, AppliesKeeps

LEMMA TransferKeeps ==
  ASSUME LedgerInv, NEW source \in Users, NEW dest \in Users, NEW amount \in 0..U64_MAX,
         NEW lock, Transfer(source, dest, amount, lock)
  PROVE  Keeps
<1> DEFINE debited == Debit(work, source, amount)
<1>1. /\ Running /\ source # dest /\ Acts(source) /\ Writable(source)
      /\ work.users[source].balance >= amount
      /\ amount \in Nat /\ amount \in 0..U64_MAX
  BY LedgerAssumption DEF Transfer
<1>2. Opened(source) /\ Fine(work)
  BY <1>1, ActsOpened, WorkFine
<1>3. Fine(debited)
  BY <1>1, <1>2, DebitFine DEF Fine, Store, User
<1>4. debited.users[dest] = work.users[dest]
  BY <1>1, <1>2 DEF Debit, Fine, Store
<1>5. CASE ~Writable(dest)
  <2>1. Fails(debited)
    BY <1>5 DEF Transfer
  <2> QED BY <1>3, <2>1, FailsKeeps
<1>6. CASE Writable(dest) /\ ~work.users[dest].live
  <2>1. Applies(Create(debited, dest, lock, amount))
    BY <1>6 DEF Transfer
  <2>2. lock \in Locks
    BY <1>6, LedgerAssumption DEF Transfer, CanCreate
  <2>3. Fine(Create(debited, dest, lock, amount))
    BY <1>1, <1>3, <1>6, <2>2, CreateFine
  <2> QED BY <1>1, <2>1, <2>3, AppliesKeeps
<1>7. CASE Writable(dest) /\ work.users[dest].live /\ ~CreditFits(work, dest, amount)
  <2>1. Fails(debited)
    BY <1>7 DEF Transfer
  <2> QED BY <1>3, <2>1, FailsKeeps
<1>8. CASE Writable(dest) /\ work.users[dest].live /\ CreditFits(work, dest, amount)
  <2>1. Applies(Credit(debited, dest, amount))
    BY <1>8 DEF Transfer
  <2>2. CreditFits(debited, dest, amount)
    BY <1>4, <1>8 DEF CreditFits
  <2>3. Fine(Credit(debited, dest, amount))
    BY <1>1, <1>3, <1>8, <2>2, CreditFine
  <2> QED BY <1>1, <2>1, <2>3, AppliesKeeps
<1> QED BY <1>5, <1>6, <1>7, <1>8

LEMMA UpdateUserLockKeeps ==
  ASSUME LedgerInv, NEW u \in Users, NEW lock \in Locks, UpdateUserLock(u, lock)
  PROVE  Keeps
<1>1. lock \in Locks
  BY LedgerAssumption
<1>2. Fine([work EXCEPT !.users[u].lock = lock])
  BY <1>1, ActsOpened, LockFine DEF UpdateUserLock
<1> QED BY <1>2, AppliesKeeps DEF UpdateUserLock

LEMMA DepositKeeps ==
  ASSUME LedgerInv, NEW u \in Users, NEW output \in Outputs, NEW lock,
         Deposit(u, output, lock)
  PROVE  Keeps
<1> DEFINE value == tx.outputs[output]
           credited == Credit(work, u, value)
           created == Create(work, u, lock, value)
<1>1. /\ Running /\ Writable(u) /\ CanDeposit(u, output, lock)
      /\ work' = IF work.users[u].live THEN credited ELSE created
      /\ tx' = [Applied EXCEPT !.spent = @ \cup {output}]
      /\ store' = store
  BY DEF Deposit
<1>2. value \in 0..U64_MAX /\ value \in Nat
  BY LedgerAssumption DEF LedgerInv, TypeOK, Tx
<1>3. Fine(work')
  <2>1. CASE work.users[u].live
    <3>1. CreditFits(work, u, value)
      BY <1>1, <2>1 DEF CanDeposit
    <3> QED BY <1>1, <1>2, <2>1, <3>1, WorkFine, CreditFine
  <2>2. CASE ~work.users[u].live
    <3>1. lock \in Locks
      BY <1>1, <2>2, LedgerAssumption DEF CanDeposit, CanCreate
    <3> QED BY <1>1, <1>2, <2>2, <3>1, WorkFine, CreateFine
  <2> QED BY <2>1, <2>2
<1>4. /\ tx' \in Tx /\ tx'.status = "Running" /\ tx'.access = tx.access
      /\ tx'.signers = tx.signers /\ tx'.pending = Applied.pending /\ tx'.auth = Applied.auth
  BY <1>1, AppliedSound DEF Tx
<1> QED BY <1>1, <1>3, <1>4, AppliedSound, StepKeeps

LEMMA WithdrawKeeps ==
  ASSUME LedgerInv, NEW u \in Users, NEW amount \in 0..U64_MAX, Withdraw(u, amount)
  PROVE  Keeps
<1>1. /\ Running /\ Writable(u) /\ Acts(u)
      /\ work.users[u].balance >= amount
      /\ work' = Debit(work, u, amount)
      /\ tx' = [Applied EXCEPT !.exits = @ + amount]
      /\ store' = store
      /\ amount \in Nat
  BY LedgerAssumption DEF Withdraw
<1>2. Fine(work')
  BY <1>1, ActsOpened, WorkFine, DebitFine DEF Fine, Store, User
<1>3. Applied.exits + amount \in Nat
  BY <1>1, AppliedSound DEF Tx
<1>4. /\ tx' \in Tx /\ tx'.status = "Running" /\ tx'.access = tx.access
      /\ tx'.signers = tx.signers /\ tx'.pending = Applied.pending /\ tx'.auth = Applied.auth
  BY <1>1, <1>3, AppliedSound DEF Tx
<1> QED BY <1>1, <1>2, <1>4, AppliedSound, StepKeeps

LEMMA CreateGameKeeps ==
  ASSUME LedgerInv, NEW u \in Users, NEW g \in Games, NEW stake \in 0..U64_MAX,
         CreateGame(u, g, stake)
  PROVE  Keeps
<1> DEFINE debited == [Debit(work, u, stake) EXCEPT !.users[u].started = @ + 1]
           new == [work.users[u] EXCEPT !.balance = @ - stake, !.started = @ + 1]
           game == [state |-> "Open", joiner |-> Unlocked, stake |-> stake]
<1>1. /\ Running /\ Acts(u) /\ Writable(u)
      /\ work.users[u].balance >= stake
      /\ g = <<u, work.users[u].started>>
      /\ stake \in Nat /\ stake \in 0..U64_MAX
      /\ IF Writable(g) THEN Applies([debited EXCEPT !.games[g] = game]) ELSE Fails(debited)
  BY LedgerAssumption DEF CreateGame
<1>2. Opened(u) /\ Fine(work) /\ work.users[u] \in User
  BY <1>1, ActsOpened, WorkFine DEF Fine, Store
<1>3. new \in User
  <2>1. MaxGames \in Nat /\ work.users[u].started \in 0..(MaxGames - 1)
    BY <1>1, LedgerAssumption DEF Games
  <2>2. work.users[u].started + 1 \in 0..MaxGames
    BY <2>1
  <2>3. U64_MAX \in Nat /\ work.users[u].balance \in 0..U64_MAX
    BY <1>2, LedgerAssumption DEF User
  <2>4. work.users[u].balance - stake \in 0..U64_MAX
    BY <1>1, <2>3
  <2> QED BY <1>2, <2>2, <2>4 DEF User
<1>4. debited = [work EXCEPT !.users[u] = new]
  BY <1>2 DEF Debit, Fine, Store, User
<1> HIDE DEF new
<1>5. Fine([work EXCEPT !.users[u] = new])
  BY <1>1, <1>2, <1>3, UserWrite DEF Fine
<1> HIDE DEF debited
<1>6. game \in Game
  BY <1>1 DEF Game
<1>7. CASE Writable(g)
  <2>1. Fine([debited EXCEPT !.games[g] = game])
    BY <1>4, <1>5, <1>6, <1>7, GameWrite DEF Finals
  <2> QED BY <1>1, <1>7, <2>1, AppliesKeeps
<1>8. CASE ~Writable(g)
  BY <1>1, <1>4, <1>5, <1>8, FailsKeeps
<1> QED BY <1>7, <1>8

LEMMA JoinGameKeeps ==
  ASSUME LedgerInv, NEW u \in Users, NEW g \in Games, JoinGame(g, u)
  PROVE  Keeps
<1> DEFINE stake == work.games[g].stake
           debited == Debit(work, u, stake)
           new == [work.games[g] EXCEPT !.state = "Playing", !.joiner = u]
<1>1. /\ Running /\ Acts(u) /\ Writable(u)
      /\ work.users[u].balance >= stake
      /\ IF Writable(g) THEN Applies([debited EXCEPT !.games[g].state = "Playing",
                                                     !.games[g].joiner = u])
                        ELSE Fails(debited)
  BY DEF JoinGame
<1>2. Opened(u) /\ Fine(work) /\ work.games[g] \in Game /\ stake \in Nat
      /\ work.users[u].balance \in Nat
  BY <1>1, ActsOpened, WorkFine DEF Fine, Store, Game, User
<1>3. Fine(debited)
  BY <1>1, <1>2, DebitFine
<1>4. debited.games = work.games /\ debited \in Store
  BY <1>2, <1>3 DEF Debit, Fine, Store
<1>5. new \in Game /\ new.joiner = u
  BY <1>2 DEF Game
<1> HIDE DEF stake, debited
<1>6. [debited EXCEPT !.games[g].state = "Playing", !.games[g].joiner = u]
        = [debited EXCEPT !.games[g] = new]
  BY <1>2, <1>4 DEF Store, Game
<1> HIDE DEF new
<1>7. CASE Writable(g)
  <2>1. Fine([debited EXCEPT !.games[g] = new])
    BY <1>3, <1>5, <1>7, GameWrite
  <2> QED BY <1>1, <1>6, <1>7, <2>1, AppliesKeeps
<1>8. CASE ~Writable(g)
  BY <1>1, <1>3, <1>8, FailsKeeps
<1> QED BY <1>7, <1>8

LEMMA SettlesKeeps ==
  ASSUME LedgerInv, Running, NEW w, Fine(w), NEW g \in Games,
         w.games[g].state \in Finals, Settles(w, g)
  PROVE  Keeps
<1> DEFINE first == SettleSeat(w, g, 0)
           payable(v, seat) == Writable(Player(v, g, seat)) /\ SeatFits(v, g, seat)
<1>1. 0 \in Seats /\ 1 \in Seats
  BY DEF Seats
<1>2. CASE Pot(w, g) > U64_MAX \/ ~payable(w, 0)
  <2>1. Fails(w)
    BY <1>2 DEF Settles
  <2> QED BY <2>1, FailsKeeps
<1>3. CASE ~(Pot(w, g) > U64_MAX \/ ~payable(w, 0))
  <2>1. Fine(first) /\ first.games = w.games
    BY <1>1, <1>3, SettleSeatFine
  <2>2. CASE ~payable(first, 1)
    <3>1. Fails(first)
      BY <1>3, <2>2 DEF Settles
    <3> QED BY <2>1, <3>1, FailsKeeps
  <2>3. CASE payable(first, 1)
    <3>1. Applies(SettleSeat(first, g, 1))
      BY <1>3, <2>3 DEF Settles
    <3> HIDE DEF first
    <3>2. Fine(SettleSeat(first, g, 1))
      BY <1>1, <2>1, <2>3, SettleSeatFine
    <3> QED BY <3>1, <3>2, AppliesKeeps
  <2> QED BY <2>2, <2>3
<1> QED BY <1>2, <1>3

LEMMA PlaysKeeps ==
  ASSUME LedgerInv, Running, NEW g \in Games, NEW state \in Finals \cup {"Playing"},
         Plays(g, state)
  PROVE  Keeps
<1> DEFINE w == [work EXCEPT !.games[g].state = state]
           new == [work.games[g] EXCEPT !.state = state]
<1>1. /\ work.games[g].state = "Playing" /\ Writable(g)
      /\ IF state \in Finals THEN Settles(w, g) ELSE Applies(w)
  BY DEF Plays
<1>2. Fine(work) /\ work.games[g] \in Game /\ work.games[g].joiner \in Users
  BY <1>1, WorkFine DEF Fine, Store, Seated
<1>3. new \in Game /\ new.joiner = work.games[g].joiner /\ new.state = state
  BY <1>2 DEF Game
<1>4. w = [work EXCEPT !.games[g] = new] /\ w.games[g].state = state
  BY <1>2, <1>3 DEF Fine, Store, Game
<1> HIDE DEF new, w
<1>5. Fine(w)
  BY <1>1, <1>2, <1>3, <1>4, GameWrite
<1>6. CASE state \in Finals
  BY <1>1, <1>4, <1>5, <1>6, SettlesKeeps
<1>7. CASE state \notin Finals
  BY <1>1, <1>5, <1>7, AppliesKeeps
<1> QED BY <1>6, <1>7

---------------------------------------------------------------------------
(* The whole step *)

LEMMA InvInit == Init => LedgerInv
<1> SUFFICES ASSUME Init PROVE LedgerInv
  OBVIOUS
<1>1. 0 \in 0..U64_MAX /\ 0 \in 0..MaxGames /\ 0 \in 0..MaxActions
  BY LedgerAssumption
<1>2. NoUser \in User /\ NoGame \in Game
  BY <1>1 DEF NoUser, NoGame, User, Game, Locks
<1>3. Empty \in Store
  BY <1>1, <1>2 DEF Empty, Store, Locks
<1>4. Idle \in Tx
  BY <1>1 DEF Idle, Tx, Modes
<1>5. Seated(Empty)
  BY DEF Seated, Empty, NoGame, Finals
<1>6. Declared(Empty) /\ Backed
  BY DEF Declared, Backed, Init, Idle
<1> QED BY <1>3, <1>4, <1>5, <1>6 DEF Init, LedgerInv, TypeOK, Idle

LEMMA BeginKeeps ==
  ASSUME LedgerInv, NEW signers \in SUBSET Signers, NEW access \in [Resources -> Modes],
         NEW outputs \in [Outputs -> 0..U64_MAX], Begin(signers, access, outputs)
  PROVE  LedgerInv'
<1>1. /\ signers \in SUBSET Signers /\ access \in [Resources -> Modes]
      /\ 0 \in 0..MaxActions /\ 0 \in 0..U64_MAX
  BY LedgerAssumption
<1>2. outputs \in [Outputs -> 0..U64_MAX]
  BY <1>1, LedgerAssumption
<1>3. tx' \in Tx /\ tx'.status = "Running" /\ tx'.auth = {}
      /\ tx'.pending = signers /\ tx'.signers = signers
  BY <1>1, <1>2 DEF Begin, Idle, Tx
<1>4. work = store /\ work' = work /\ store' = store
  BY DEF Begin, LedgerInv
<1> QED BY <1>3, <1>4 DEF LedgerInv, TypeOK, Seated, Declared, Backed

LEMMA IdleKeeps ==
  ASSUME LedgerInv, work' = store', store' \in {store, work}, tx' = Idle
  PROVE  LedgerInv'
<1>1. 0 \in 0..U64_MAX /\ 0 \in 0..MaxActions
  BY LedgerAssumption
<1>2. Idle \in Tx /\ Idle.pending = {} /\ Idle.auth = {}
  BY <1>1 DEF Idle, Tx, Modes
<1>3. store' \in Store /\ Seated(store)'
  BY DEF LedgerInv, TypeOK, Seated
<1> QED BY <1>2, <1>3 DEF LedgerInv, TypeOK, Seated, Declared, Backed

(* Every step keeps the invariant; one of a running transaction takes      *)
(* value and locks only from users whose lock was opened; none but Commit  *)
(* changes the committed resources.                                        *)
LEMMA InvNext ==
  ASSUME LedgerInv, [AnyNext]_vars
  PROVE  /\ LedgerInv'
         /\ tx.status = "Running" => Guarded(work')
         /\ Commit \/ store' = store
<1>1. Guarded(work)
  BY WorkFine DEF Fine
<1>2. CASE UNCHANGED vars
  BY <1>1, <1>2 DEF vars, LedgerInv, TypeOK, Seated, Declared, Writable, Backed
<1>3. ASSUME NEW signers \in SUBSET Signers, NEW access \in [Resources -> Modes],
             NEW outputs \in [Outputs -> 0..U64_MAX], Begin(signers, access, outputs)
      PROVE  LedgerInv' /\ tx.status = "Idle" /\ store' = store
  <2>1. LedgerInv'
    BY <1>3, BeginKeeps
  <2> QED BY <1>3, <2>1 DEF Begin
<1>4. CASE AnyUserAction
  BY <1>4, TransferKeeps, UpdateUserLockKeeps, DepositKeeps, WithdrawKeeps DEF AnyUserAction, Keeps
<1>5. CASE AnyGameAction
  BY <1>5, CreateGameKeeps, JoinGameKeeps, PlaysKeeps DEF AnyGameAction, Turn, Timeout, Keeps
<1>6. CASE AnyConfigAction
  BY <1>6, ConfigKeeps DEF AnyConfigAction, InitConfig, UpdateConfig, Keeps
<1>7. CASE Reject
  BY <1>7, WorkFine, FailsKeeps DEF Reject, Keeps
<1>8. CASE Commit
  <2>1. work' = work /\ store' = work /\ tx' = Idle
    BY <1>8 DEF Commit
  <2> QED BY <1>1, <1>8, <2>1, IdleKeeps
<1>9. CASE Rollback
  <2>1. work' = store /\ store' = store /\ tx' = Idle /\ tx.status = "Failed"
    BY <1>9 DEF Rollback
  <2> QED BY <2>1, IdleKeeps
<1> QED BY <1>2, <1>3, <1>4, <1>5, <1>6, <1>7, <1>8, <1>9 DEF AnyNext

(* Every reachable state satisfies the invariant the theorems rest on.     *)
LEMMA AnyInvariant == AnySpec => []LedgerInv
<1>1. LedgerInv /\ [AnyNext]_vars => LedgerInv'
  BY InvNext
<1> QED BY <1>1, InvInit, PTL DEF AnySpec

(* Balances, stakes and statistics stay in their u64 fields at every point *)
(* of every transaction (the checked arithmetic of action/*.rs).           *)
LEMMA AnyType == AnySpec => []TypeOK
<1>1. LedgerInv => TypeOK
  BY DEF LedgerInv
<1> QED BY <1>1, AnyInvariant, PTL

(* Whoever takes value out of a user or rotates its lock carries a signer  *)
(* for the lock of that moment (LockEnum::unlock, lazy resolution).        *)
LEMMA AnyLocks == AnySpec => CurrentLockOpened
<1> DEFINE Opens ==
      \A u \in Users :
        LET before == work.users[u]
            after  == work'.users[u]
        IN  (tx.status = "Running" /\ before.live
              /\ (after.balance < before.balance \/ after.lock # before.lock))
            => \/ before.lock = Unlocked
               \/ \E s \in tx.signers : s.resource = u /\ s.key = before.lock
<1>1. LedgerInv /\ [AnyNext]_vars => Opens
  BY InvNext DEF Guarded, Opened
<1>2. LedgerInv /\ [AnyNext]_vars => [Opens]_vars
  BY <1>1
<1> QED BY <1>2, AnyInvariant, PTL DEF AnySpec, CurrentLockOpened

(* No user or game that a transaction did not declare writable changes in  *)
(* the committed resources (the modify and init combinators of ext.rs).    *)
LEMMA AnyWrites == AnySpec => WritesAreDeclared
<1> DEFINE Kept ==
      \A r \in Users \cup Games : tx.access[r] # "Write" =>
        IF r \in Users THEN store'.users[r] = store.users[r]
                       ELSE store'.games[r] = store.games[r]
<1>1. LedgerInv /\ [AnyNext]_vars => [Kept]_vars
  <2>1. Commit /\ LedgerInv => Kept
    BY DEF Commit, LedgerInv, Declared, Writable
  <2>2. store' = store => Kept
    OBVIOUS
  <2> QED BY <2>1, <2>2, InvNext
<1> QED BY <1>1, AnyInvariant, PTL DEF AnySpec, WritesAreDeclared

---------------------------------------------------------------------------
(* What the covenant holds: nothing is created or lost, and what is out can *)
(* always be settled, in every state of every transaction                   *)

(* What is at stake in a game record. *)
Stake(game) ==
  CASE game.state = "Open"    -> game.stake
    [] game.state = "Playing" -> 2 * game.stake
    [] OTHER -> 0

Balances(w) == [u \in Users |-> w.users[u].balance]
AtStake(w) == [g \in Games |-> Staked(w, g)]

PlayedBy(w, u, g) == u = g[1] \/ u = w.games[g].joiner
ChampionOf(w, g) == IF w.games[g].state = "First" THEN g[1] ELSE w.games[g].joiner

FinishedGames(w, u) == { g \in Games : w.games[g].state \in Finals /\ PlayedBy(w, u, g) }
WonGames(w, u) ==
  { g \in Games : w.games[g].state \in {"First", "Second"} /\ ChampionOf(w, g) = u }

(* A user that is not there yet has nothing. *)
Unborn(w) == \A u \in Users : ~w.users[u].live => w.users[u] = NoUser

(* A user's games are numbered from 0. *)
Numbered(w) ==
  \A u \in Users, n \in 0..(MaxGames - 1) :
    w.games[<<u, n>>].state # "New" <=> n < w.users[u].started

(* A game's players are there, and are two. *)
Paired(w) ==
  \A g \in Games :
    /\ w.games[g].state # "New" => w.users[g[1]].live
    /\ w.games[g].state \in {"Playing"} \cup Finals =>
         /\ w.games[g].joiner \in Users \ {g[1]}
         /\ w.users[w.games[g].joiner].live

Counted(w) ==
  \A u \in Users : /\ w.users[u].finished = Cardinality(FinishedGames(w, u))
                   /\ w.users[u].won = Cardinality(WonGames(w, u))

Told(w) == Unborn(w) /\ Numbered(w) /\ Paired(w) /\ Counted(w)

(* The copy w of transaction t, with h in the covenant: what users own and *)
(* have at stake is what the covenant will hold when t commits.            *)
Covered(w, t, h) ==
  /\ Told(w)
  /\ Total(w) = h + SumOver(t.outputs, t.spent) - t.exits
  /\ h + SumOver(t.outputs, Outputs) <= Supply

MoneyInv ==
  /\ LedgerInv
  /\ Told(store) /\ Total(store) = held /\ held <= Supply
  /\ tx.status = "Running" => Covered(work, tx, held)

LEMMA Finite ==
  /\ IsFiniteSet(Users) /\ IsFiniteSet(Games) /\ IsFiniteSet(Outputs)
  /\ Cardinality(Games) <= U64_MAX /\ Cardinality(Games) \in Nat
<1>1. IsFiniteSet(Users) /\ Cardinality(Users) \in Nat
  BY LedgerAssumption, FS_CardinalityType
<1>2. MaxGames \in Nat /\ U64_MAX \in Nat
  BY LedgerAssumption
<1>3. IsFiniteSet(0..(MaxGames - 1)) /\ Cardinality(0..(MaxGames - 1)) = MaxGames
  BY <1>2, FS_Interval
<1>4. IsFiniteSet(Games) /\ Cardinality(Games) = Cardinality(Users) * MaxGames
  BY <1>1, <1>3, FS_Product DEF Games
<1>5. Cardinality(Users) * MaxGames = MaxGames * Cardinality(Users)
  BY <1>1, <1>2
<1>6. Cardinality(Games) \in Nat
  BY <1>4, FS_CardinalityType
<1> QED BY <1>1, <1>4, <1>5, <1>6, LedgerAssumption

---------------------------------------------------------------------------
(* Totals *)

LEMMA TotalType ==
  ASSUME NEW w \in Store
  PROVE  /\ \A u \in Users : Balances(w)[u] \in Nat /\ Balances(w)[u] = w.users[u].balance
         /\ \A g \in Games : AtStake(w)[g] \in Nat /\ AtStake(w)[g] = Stake(w.games[g])
         /\ SumOver(Balances(w), Users) \in Nat /\ SumOver(AtStake(w), Games) \in Nat
         /\ Total(w) = SumOver(Balances(w), Users) + SumOver(AtStake(w), Games)
         /\ Total(w) \in Nat
<1>1. \A u \in Users : Balances(w)[u] \in Nat /\ Balances(w)[u] = w.users[u].balance
  BY LedgerAssumption DEF Balances, Store, User
<1>2. \A g \in Games : AtStake(w)[g] \in Nat /\ AtStake(w)[g] = Stake(w.games[g])
  <2>1. \A g \in Games : w.games[g].stake \in Nat
    BY LedgerAssumption DEF Store, Game
  <2> QED BY <2>1 DEF AtStake, Staked, Stake
<1>3. SumOver(Balances(w), Users) \in Nat
  BY <1>1, Finite, SumNat DEF SumOver
<1>4. SumOver(AtStake(w), Games) \in Nat
  BY <1>2, Finite, SumNat DEF SumOver
<1>5. Total(w) = SumOver(Balances(w), Users) + SumOver(AtStake(w), Games)
  BY DEF Total, Balances, AtStake
<1> QED BY <1>1, <1>2, <1>3, <1>4, <1>5

(* Nobody has more than the total. *)
LEMMA ShareOfTotal ==
  ASSUME NEW w \in Store, NEW u \in Users, NEW g \in Games
  PROVE  w.users[u].balance + Stake(w.games[g]) <= Total(w)
<1>1. Balances(w)[u] <= SumOver(Balances(w), Users) /\ AtStake(w)[g] <= SumOver(AtStake(w), Games)
  BY TotalType, Finite, SumNat DEF SumOver
<1> HIDE DEF Balances, AtStake
<1> QED BY <1>1, TotalType

LEMMA UserTotal ==
  ASSUME NEW w \in Store, NEW u \in Users, NEW new \in User,
         NEW v, v = [w EXCEPT !.users[u] = new]
  PROVE  /\ v \in Store /\ v.users[u] = new /\ v.games = w.games
         /\ \A x \in Users : x # u => v.users[x] = w.users[x]
         /\ Total(v) = Total(w) - w.users[u].balance + new.balance
<1>1. /\ v \in Store /\ v.users[u] = new /\ v.games = w.games
      /\ \A x \in Users : x # u => v.users[x] = w.users[x]
  BY DEF Store
<1>2. SumOver(Balances(v), Users) = SumOver(Balances(w), Users) - Balances(w)[u] + Balances(v)[u]
  <2>1. \A x \in Users : Balances(w)[x] \in Int /\ Balances(v)[x] \in Int
    BY <1>1, TotalType
  <2>2. \A x \in Users \ {u} : Balances(v)[x] = Balances(w)[x]
    BY <1>1 DEF Balances
  <2>3. IsFiniteSet(Users)
    BY Finite
  <2> HIDE DEF Balances
  <2> QED BY <2>1, <2>2, <2>3, SumChange DEF SumOver
<1>3. AtStake(v) = AtStake(w)
  BY <1>1 DEF AtStake, Staked
<1>4. Balances(w)[u] = w.users[u].balance /\ Balances(v)[u] = new.balance
  BY <1>1 DEF Balances
<1>5. w.users[u].balance \in Nat /\ new.balance \in Nat
  BY LedgerAssumption DEF Store, User
<1> QED BY <1>1, <1>2, <1>3, <1>4, <1>5, TotalType

LEMMA GameTotal ==
  ASSUME NEW w \in Store, NEW g \in Games, NEW new \in Game,
         NEW v, v = [w EXCEPT !.games[g] = new]
  PROVE  /\ v \in Store /\ v.games[g] = new /\ v.users = w.users
         /\ \A x \in Games : x # g => v.games[x] = w.games[x]
         /\ Total(v) = Total(w) - Stake(w.games[g]) + Stake(new)
<1>1. /\ v \in Store /\ v.games[g] = new /\ v.users = w.users
      /\ \A x \in Games : x # g => v.games[x] = w.games[x]
  BY DEF Store
<1>2. SumOver(AtStake(v), Games) = SumOver(AtStake(w), Games) - AtStake(w)[g] + AtStake(v)[g]
  <2>1. \A x \in Games : AtStake(w)[x] \in Int /\ AtStake(v)[x] \in Int
    BY <1>1, TotalType
  <2>2. \A x \in Games \ {g} : AtStake(v)[x] = AtStake(w)[x]
    BY <1>1 DEF AtStake, Staked
  <2> QED BY <2>1, <2>2, Finite, SumChange DEF SumOver
<1>3. Balances(v) = Balances(w)
  BY <1>1 DEF Balances
<1>4. AtStake(w)[g] = Stake(w.games[g]) /\ AtStake(v)[g] = Stake(new)
  BY <1>1, TotalType
<1>5. AtStake(w)[g] \in Nat /\ AtStake(v)[g] \in Nat
  BY <1>1, TotalType
<1>6. /\ Total(w) = SumOver(Balances(w), Users) + SumOver(AtStake(w), Games)
      /\ Total(v) = SumOver(Balances(v), Users) + SumOver(AtStake(v), Games)
      /\ SumOver(Balances(w), Users) \in Nat /\ SumOver(AtStake(w), Games) \in Nat
  BY <1>1, TotalType
<1> QED BY <1>1, <1>2, <1>3, <1>4, <1>5, <1>6

---------------------------------------------------------------------------
(* What the users' counters tell *)

(* A user that is there, or is made now, is given a record with the same   *)
(* counters.                                                               *)
LEMMA UserTold ==
  ASSUME NEW w \in Store, Told(w), NEW u \in Users, NEW new \in User, new.live,
         new.started = w.users[u].started, new.finished = w.users[u].finished,
         new.won = w.users[u].won,
         NEW v, v = [w EXCEPT !.users[u] = new]
  PROVE  Told(v)
<1>1. /\ v.games = w.games /\ v.users[u] = new
      /\ \A x \in Users : x # u => v.users[x] = w.users[x]
  BY DEF Store
<1>2. \A x \in Users : /\ w.users[x].live => v.users[x].live
                      /\ v.users[x].started = w.users[x].started
                      /\ v.users[x].finished = w.users[x].finished
                      /\ v.users[x].won = w.users[x].won
  BY <1>1
<1>3. Unborn(v)
  BY <1>1 DEF Told, Unborn
<1>4. Numbered(v)
  BY <1>1, <1>2 DEF Told, Numbered
<1>5. Paired(v)
  <2> SUFFICES ASSUME NEW g \in Games
               PROVE  /\ w.games[g].state # "New" => v.users[g[1]].live
                      /\ w.games[g].state \in {"Playing"} \cup Finals =>
                           /\ w.games[g].joiner \in Users \ {g[1]}
                           /\ v.users[w.games[g].joiner].live
    BY <1>1 DEF Paired
  <2>1. g[1] \in Users
    BY DEF Games
  <2>2. /\ w.games[g].state # "New" => w.users[g[1]].live
        /\ w.games[g].state \in {"Playing"} \cup Finals =>
             /\ w.games[g].joiner \in Users \ {g[1]}
             /\ w.users[w.games[g].joiner].live
    BY DEF Told, Paired
  <2> QED BY <1>2, <2>1, <2>2
<1>6. Counted(v)
  <2>1. \A x \in Users : /\ FinishedGames(v, x) = FinishedGames(w, x)
                        /\ WonGames(v, x) = WonGames(w, x)
    BY <1>1 DEF FinishedGames, WonGames, PlayedBy, ChampionOf
  <2> QED BY <1>2, <2>1 DEF Told, Counted
<1> QED BY <1>3, <1>4, <1>5, <1>6 DEF Told

---------------------------------------------------------------------------
(* The writes that move value *)

LEMMA DebitMoney ==
  ASSUME NEW w \in Store, Told(w), NEW u \in Users, w.users[u].live,
         NEW amount \in Nat, amount <= w.users[u].balance,
         NEW v, v = Debit(w, u, amount)
  PROVE  /\ v \in Store /\ Told(v) /\ Total(v) = Total(w) - amount
         /\ v.games = w.games /\ v.users[u].live
         /\ \A x \in Users : x # u => v.users[x] = w.users[x]
<1> DEFINE new == [w.users[u] EXCEPT !.balance = @ - amount]
<1>1. w.users[u] \in User
  BY DEF Store
<1>2. new \in User /\ w.users[u].balance \in Nat
  BY <1>1, LedgerAssumption DEF User
<1>3. /\ new.live /\ new.balance = w.users[u].balance - amount
      /\ new.started = w.users[u].started /\ new.finished = w.users[u].finished
      /\ new.won = w.users[u].won
  BY <1>1 DEF User
<1>4. v = [w EXCEPT !.users[u] = new]
  BY <1>1 DEF Debit, Store
<1> HIDE DEF new
<1>5. Told(v)
  BY <1>2, <1>3, <1>4, UserTold
<1>6. v \in Store /\ Total(v) = Total(w) - w.users[u].balance + new.balance
  BY <1>2, <1>4, UserTotal
<1>7. Total(w) \in Nat
  BY TotalType
<1>8. /\ v.users[u] = new /\ v.games = w.games
      /\ \A x \in Users : x # u => v.users[x] = w.users[x]
  BY <1>4 DEF Store
<1> QED BY <1>2, <1>3, <1>5, <1>6, <1>7, <1>8

LEMMA CreditMoney ==
  ASSUME NEW w \in Store, Told(w), NEW u \in Users, w.users[u].live,
         NEW amount \in Nat, CreditFits(w, u, amount),
         NEW v, v = Credit(w, u, amount)
  PROVE  v \in Store /\ Told(v) /\ Total(v) = Total(w) + amount
<1> DEFINE new == [w.users[u] EXCEPT !.balance = @ + amount]
<1>1. w.users[u] \in User
  BY DEF Store
<1>2. new \in User /\ w.users[u].balance \in Nat
  BY <1>1, LedgerAssumption DEF User, CreditFits
<1>3. /\ new.live /\ new.balance = w.users[u].balance + amount
      /\ new.started = w.users[u].started /\ new.finished = w.users[u].finished
      /\ new.won = w.users[u].won
  BY <1>1 DEF User
<1>4. v = [w EXCEPT !.users[u] = new]
  BY <1>1 DEF Credit, Store
<1> HIDE DEF new
<1>5. Told(v)
  BY <1>2, <1>3, <1>4, UserTold
<1>6. v \in Store /\ Total(v) = Total(w) - w.users[u].balance + new.balance
  BY <1>2, <1>4, UserTotal
<1>7. Total(w) \in Nat
  BY TotalType
<1> QED BY <1>2, <1>3, <1>5, <1>6, <1>7

LEMMA CreateMoney ==
  ASSUME NEW w \in Store, Told(w), NEW u \in Users, ~w.users[u].live,
         NEW lock \in Locks, NEW amount \in 0..U64_MAX,
         NEW v, v = Create(w, u, lock, amount)
  PROVE  v \in Store /\ Told(v) /\ Total(v) = Total(w) + amount
<1> DEFINE new == [NoUser EXCEPT !.live = TRUE, !.balance = amount, !.lock = lock]
<1>1. w.users[u] = NoUser
  BY DEF Told, Unborn
<1>2. new \in User
  <2>1. 0 \in 0..U64_MAX /\ 0 \in 0..MaxGames
    BY LedgerAssumption
  <2> QED BY <2>1 DEF User, NoUser
<1>3. /\ new.live /\ new.balance = amount /\ NoUser.balance = 0
      /\ new.started = NoUser.started /\ new.finished = NoUser.finished
      /\ new.won = NoUser.won
  BY DEF NoUser
<1>4. v = [w EXCEPT !.users[u] = new]
  BY DEF Create
<1> HIDE DEF new
<1>5. Told(v)
  BY <1>1, <1>2, <1>3, <1>4, UserTold
<1>6. v \in Store /\ Total(v) = Total(w) - w.users[u].balance + new.balance
  BY <1>2, <1>4, UserTotal
<1>7. Total(w) \in Nat /\ amount \in Nat
  BY TotalType, LedgerAssumption
<1> QED BY <1>1, <1>3, <1>5, <1>6, <1>7

---------------------------------------------------------------------------
(* The end of a handler *)

(* A step of a running transaction: the committed resources stay, and the  *)
(* copy is covered unless the transaction failed.                          *)
KeepsMoney ==
  /\ store' = store /\ held' = held
  /\ tx'.status = "Running" => Covered(work', tx', held)

LEMMA FailsMoney ==
  ASSUME MoneyInv, NEW w, Fails(w)
  PROVE  KeepsMoney
BY DEF Fails, KeepsMoney, MoneyInv, LedgerInv, TypeOK, Tx

LEMMA AppliesMoney ==
  ASSUME MoneyInv, Running, NEW w \in Store, Told(w), Total(w) = Total(work), Applies(w)
  PROVE  KeepsMoney
<1>1. Covered(work, tx, held)
  BY DEF MoneyInv, Running
<1>2. tx'.outputs = tx.outputs /\ tx'.spent = tx.spent /\ tx'.exits = tx.exits
  BY DEF Applies, Applied, MoneyInv, LedgerInv, TypeOK, Tx
<1> QED BY <1>1, <1>2 DEF Applies, KeepsMoney, Covered

(* What a handler may rely on. *)
LEMMA RunningMoney ==
  ASSUME MoneyInv, Running
  PROVE  /\ work \in Store /\ Told(work) /\ Total(work) \in Nat
         /\ Covered(work, tx, held) /\ tx \in Tx /\ held \in Nat
<1>1. work \in Store /\ store \in Store /\ tx \in Tx
  BY DEF MoneyInv, LedgerInv, TypeOK
<1>2. Total(work) \in Nat /\ Total(store) \in Nat
  BY <1>1, TotalType
<1> QED BY <1>1, <1>2 DEF MoneyInv, Running, Covered

---------------------------------------------------------------------------
(* The handlers *)

LEMMA ConfigMoney ==
  ASSUME MoneyInv, Running, NEW min \in 0..U64_MAX, NEW lock \in Locks,
         WriteConfig(min, lock)
  PROVE  KeepsMoney
<1> DEFINE w == [work EXCEPT !.config = [live |-> TRUE, min |-> min, lock |-> lock]]
<1>1. min \in 0..U64_MAX /\ lock \in Locks
  BY LedgerAssumption
<1>2. w \in Store /\ w.users = work.users /\ w.games = work.games
  BY <1>1, RunningMoney DEF Store
<1>3. Applies(w)
  BY DEF WriteConfig
<1> HIDE DEF w
<1>4. Told(w)
  <2>1. \A x \in Users : FinishedGames(w, x) = FinishedGames(work, x)
                        /\ WonGames(w, x) = WonGames(work, x)
    BY <1>2 DEF FinishedGames, WonGames, PlayedBy, ChampionOf
  <2>2. Told(work)
    BY RunningMoney
  <2>3. Unborn(w) /\ Numbered(w) /\ Paired(w)
    BY <1>2, <2>2 DEF Told, Unborn, Numbered, Paired
  <2> QED BY <1>2, <2>1, <2>2, <2>3 DEF Told, Counted
<1>5. Total(w) = Total(work)
  BY <1>2 DEF Total, Staked
<1> QED BY <1>2, <1>3, <1>4, <1>5, AppliesMoney

LEMMA TransferMoney ==
  ASSUME MoneyInv, NEW source \in Users, NEW dest \in Users, NEW amount \in 0..U64_MAX,
         NEW lock, Transfer(source, dest, amount, lock)
  PROVE  KeepsMoney
<1> DEFINE debited == Debit(work, source, amount)
<1>1. /\ Running /\ source # dest /\ work.users[source].live
      /\ work.users[source].balance >= amount
      /\ amount \in Nat /\ amount \in 0..U64_MAX
  BY LedgerAssumption DEF Transfer, Acts, UserReady
<1>2. /\ work \in Store /\ Told(work) /\ Total(work) \in Nat
      /\ work.users[source].balance \in Nat
  BY <1>1, RunningMoney, TotalType
<1>3. /\ debited \in Store /\ Told(debited) /\ Total(debited) = Total(work) - amount
      /\ debited.users[dest] = work.users[dest]
  BY <1>1, <1>2, DebitMoney
<1>4. CASE ~Writable(dest)
  <2>1. Fails(debited)
    BY <1>4 DEF Transfer
  <2> QED BY <2>1, FailsMoney
<1>5. CASE Writable(dest) /\ ~work.users[dest].live
  <2> DEFINE created == Create(debited, dest, lock, amount)
  <2>1. Applies(created)
    BY <1>5 DEF Transfer
  <2> HIDE DEF debited
  <2>2. lock \in Locks
    BY <1>5, LedgerAssumption DEF Transfer, CanCreate
  <2>3. created \in Store /\ Told(created) /\ Total(created) = Total(debited) + amount
    BY <1>1, <1>3, <1>5, <2>2, CreateMoney
  <2> HIDE DEF created
  <2>4. Total(created) = Total(work)
    BY <1>1, <1>2, <1>3, <2>3
  <2> QED BY <1>1, <2>1, <2>3, <2>4, AppliesMoney
<1>6. CASE Writable(dest) /\ work.users[dest].live /\ ~CreditFits(work, dest, amount)
  <2>1. Fails(debited)
    BY <1>6 DEF Transfer
  <2> QED BY <2>1, FailsMoney
<1>7. CASE Writable(dest) /\ work.users[dest].live /\ CreditFits(work, dest, amount)
  <2> DEFINE credited == Credit(debited, dest, amount)
  <2>1. Applies(credited)
    BY <1>7 DEF Transfer
  <2> HIDE DEF debited
  <2>2. credited \in Store /\ Told(credited) /\ Total(credited) = Total(debited) + amount
    BY <1>1, <1>3, <1>7, CreditMoney DEF CreditFits
  <2> HIDE DEF credited
  <2>3. Total(credited) = Total(work)
    BY <1>1, <1>2, <1>3, <2>2
  <2> QED BY <1>1, <2>1, <2>2, <2>3, AppliesMoney
<1> QED BY <1>4, <1>5, <1>6, <1>7

LEMMA UpdateUserLockMoney ==
  ASSUME MoneyInv, NEW u \in Users, NEW lock \in Locks, UpdateUserLock(u, lock)
  PROVE  KeepsMoney
<1> DEFINE new == [work.users[u] EXCEPT !.lock = lock]
           w == [work EXCEPT !.users[u].lock = lock]
<1>1. Running /\ work.users[u].live /\ Applies(w)
  BY DEF UpdateUserLock, Acts, UserReady
<1>2. work \in Store /\ Told(work) /\ Total(work) \in Nat
  BY <1>1, RunningMoney
<1>3. work.users[u] \in User /\ lock \in Locks /\ work.users[u].balance \in Nat
  BY <1>2, LedgerAssumption, TotalType DEF Store
<1>4. /\ new \in User /\ new.live /\ new.balance = work.users[u].balance
      /\ new.started = work.users[u].started /\ new.finished = work.users[u].finished
      /\ new.won = work.users[u].won
  BY <1>1, <1>3 DEF User
<1>5. w = [work EXCEPT !.users[u] = new]
  BY <1>2, <1>3 DEF Store
<1> HIDE DEF new, w
<1>6. Told(w)
  BY <1>2, <1>4, <1>5, UserTold
<1>7. w \in Store /\ Total(w) = Total(work)
  BY <1>2, <1>3, <1>4, <1>5, UserTotal
<1> QED BY <1>1, <1>6, <1>7, AppliesMoney

LEMMA DepositMoney ==
  ASSUME MoneyInv, NEW u \in Users, NEW output \in Outputs, NEW lock,
         Deposit(u, output, lock)
  PROVE  KeepsMoney
<1> DEFINE value == tx.outputs[output]
           credited == Credit(work, u, value)
           created == Create(work, u, lock, value)
           paid(S) == SumOver(tx.outputs, S)
<1>1. /\ Running /\ CanDeposit(u, output, lock)
      /\ work' = IF work.users[u].live THEN credited ELSE created
      /\ tx' = [Applied EXCEPT !.spent = @ \cup {output}]
      /\ store' = store /\ held' = held
  BY DEF Deposit
<1>2. /\ work \in Store /\ Told(work) /\ Total(work) \in Nat /\ tx \in Tx /\ held \in Nat
      /\ Covered(work, tx, held)
  BY <1>1, RunningMoney
<1>3. /\ \A o \in Outputs : tx.outputs[o] \in Nat /\ tx.outputs[o] \in 0..U64_MAX
      /\ tx.spent \in SUBSET Outputs /\ tx.exits \in Nat
  BY <1>2, LedgerAssumption DEF Tx
<1>4. value \in 0..U64_MAX /\ value \in Nat
  BY <1>3
<1>5. Told(work') /\ Total(work') = Total(work) + value
  <2>1. CASE work.users[u].live
    <3>1. CreditFits(work, u, value)
      BY <1>1, <2>1 DEF CanDeposit
    <3> QED BY <1>1, <1>2, <1>4, <2>1, <3>1, CreditMoney
  <2>2. CASE ~work.users[u].live
    <3>1. lock \in Locks
      BY <1>1, <2>2, LedgerAssumption DEF CanDeposit, CanCreate
    <3> QED BY <1>1, <1>2, <1>4, <2>2, <3>1, CreateMoney
  <2> QED BY <2>1, <2>2
<1>6. tx'.outputs = tx.outputs /\ tx'.spent = tx.spent \cup {output} /\ tx'.exits = tx.exits
  BY <1>1, <1>2 DEF Applied, Tx
<1>7. paid(tx.spent \cup {output}) = value + paid(tx.spent)
  <2>1. IsFiniteSet(tx.spent \cup {output})
    BY <1>3, Finite, FS_Subset
  <2>2. (tx.spent \cup {output}) \ {output} = tx.spent
    BY <1>1 DEF CanDeposit
  <2>3. \A o \in tx.spent \cup {output} : tx.outputs[o] \in Int
    BY <1>3
  <2> QED BY <2>1, <2>2, <2>3, SumTakeOne DEF SumOver
<1>8. paid(tx.spent) \in Nat
  <2>1. IsFiniteSet(tx.spent) /\ \A o \in tx.spent : tx.outputs[o] \in Nat
    BY <1>3, Finite, FS_Subset
  <2> QED BY <2>1, SumNat DEF SumOver
<1>9. /\ Total(work) = held + paid(tx.spent) - tx.exits
      /\ held + paid(Outputs) <= Supply
  BY <1>2 DEF Covered
<1> HIDE DEF value, paid, credited, created
<1>10. Total(work') = held + paid(tx.spent \cup {output}) - tx.exits
  BY <1>2, <1>3, <1>4, <1>5, <1>7, <1>8, <1>9
<1> QED BY <1>1, <1>5, <1>6, <1>9, <1>10 DEF KeepsMoney, Covered, paid

LEMMA WithdrawMoney ==
  ASSUME MoneyInv, NEW u \in Users, NEW amount \in 0..U64_MAX, Withdraw(u, amount)
  PROVE  KeepsMoney
<1>1. /\ Running /\ work.users[u].live
      /\ work.users[u].balance >= amount
      /\ work' = Debit(work, u, amount)
      /\ tx' = [Applied EXCEPT !.exits = @ + amount]
      /\ store' = store /\ held' = held
      /\ amount \in Nat
  BY LedgerAssumption DEF Withdraw, Acts, UserReady
<1>2. /\ work \in Store /\ Told(work) /\ Total(work) \in Nat /\ tx \in Tx /\ held \in Nat
      /\ Covered(work, tx, held) /\ work.users[u].balance \in Nat
  BY <1>1, RunningMoney, TotalType
<1>3. Told(work') /\ Total(work') = Total(work) - amount
  BY <1>1, <1>2, DebitMoney
<1>4. tx'.outputs = tx.outputs /\ tx'.spent = tx.spent /\ tx'.exits = tx.exits + amount
  BY <1>1, <1>2 DEF Applied, Tx
<1>5. tx.exits \in Nat /\ SumOver(tx.outputs, tx.spent) \in Nat
  <2>1. /\ \A o \in tx.spent : tx.outputs[o] \in Nat
        /\ tx.spent \in SUBSET Outputs /\ tx.exits \in Nat
    BY <1>2, LedgerAssumption DEF Tx
  <2>2. IsFiniteSet(tx.spent)
    BY <2>1, Finite, FS_Subset
  <2> QED BY <2>1, <2>2, SumNat DEF SumOver
<1>6. Total(work') = held + SumOver(tx.outputs, tx.spent) - (tx.exits + amount)
  BY <1>1, <1>2, <1>3, <1>5 DEF Covered
<1> QED BY <1>1, <1>2, <1>3, <1>4, <1>6 DEF KeepsMoney, Covered

LEMMA CreateGameMoney ==
  ASSUME MoneyInv, NEW u \in Users, NEW g \in Games, NEW stake \in 0..U64_MAX,
         CreateGame(u, g, stake)
  PROVE  KeepsMoney
<1> DEFINE debited == [Debit(work, u, stake) EXCEPT !.users[u].started = @ + 1]
           new == [work.users[u] EXCEPT !.balance = @ - stake, !.started = @ + 1]
           game == [state |-> "Open", joiner |-> Unlocked, stake |-> stake]
           w == [debited EXCEPT !.games[g] = game]
<1>1. /\ Running /\ work.users[u].live
      /\ work.users[u].balance >= stake
      /\ work.games[g].state = "New"
      /\ g = <<u, work.users[u].started>>
      /\ stake \in Nat /\ stake \in 0..U64_MAX
      /\ IF Writable(g) THEN Applies(w) ELSE Fails(debited)
  BY LedgerAssumption DEF CreateGame, Acts, UserReady
<1>2. /\ work \in Store /\ Told(work) /\ Total(work) \in Nat /\ work.users[u] \in User
      /\ work.users[u].balance \in Nat
  BY <1>1, RunningMoney, TotalType DEF Store
<1>3. new \in User /\ MaxGames \in Nat /\ work.users[u].started \in 0..(MaxGames - 1)
  <2>1. MaxGames \in Nat /\ work.users[u].started \in 0..(MaxGames - 1)
    BY <1>1, LedgerAssumption DEF Games
  <2>2. work.users[u].started + 1 \in 0..MaxGames
    BY <2>1
  <2>3. U64_MAX \in Nat /\ work.users[u].balance \in 0..U64_MAX
    BY <1>2, LedgerAssumption DEF User
  <2>4. work.users[u].balance - stake \in 0..U64_MAX
    BY <1>1, <2>3
  <2> QED BY <1>2, <2>1, <2>2, <2>4 DEF User
<1>4. /\ new.live /\ new.balance = work.users[u].balance - stake
      /\ new.started = work.users[u].started + 1
      /\ new.finished = work.users[u].finished /\ new.won = work.users[u].won
  BY <1>1, <1>2 DEF User
<1>5. debited = [work EXCEPT !.users[u] = new]
  BY <1>2 DEF Debit, Store, User
<1>6. game \in Game /\ game.state = "Open" /\ Stake(game) = stake
  BY <1>1 DEF Game, Stake
<1>7. Stake(work.games[g]) = 0
  BY <1>1 DEF Stake
<1> HIDE DEF new, debited, game
<1>8. debited \in Store /\ Total(debited) = Total(work) - work.users[u].balance + new.balance
  BY <1>2, <1>3, <1>5, UserTotal
<1>9. /\ debited.games = work.games /\ debited.users[u] = new
      /\ \A x \in Users : x # u => debited.users[x] = work.users[x]
  BY <1>2, <1>5 DEF Store
<1>10. w \in Store /\ Total(w) = Total(debited) - Stake(debited.games[g]) + Stake(game)
  BY <1>6, <1>8, GameTotal
<1>11. /\ w.users = debited.users /\ w.games[g] = game
       /\ \A x \in Games : x # g => w.games[x] = work.games[x]
  BY <1>8, <1>9 DEF Store
<1>12. Total(w) = Total(work)
  BY <1>1, <1>2, <1>4, <1>6, <1>7, <1>8, <1>9, <1>10
<1> HIDE DEF w
<1>13. Unborn(w)
  BY <1>2, <1>4, <1>9, <1>11 DEF Told, Unborn
<1>14. Numbered(w)
  <2> SUFFICES ASSUME NEW x \in Users, NEW n \in 0..(MaxGames - 1)
               PROVE  w.games[<<x, n>>].state # "New" <=> n < w.users[x].started
    BY DEF Numbered
  <2>1. <<x, n>> \in Games
    BY DEF Games
  <2>2. work.games[<<x, n>>].state # "New" <=> n < work.users[x].started
    BY <1>2 DEF Told, Numbered
  <2>3. CASE x # u
    <3>1. <<x, n>> # g
      BY <1>1, <2>3
    <3> QED BY <1>9, <1>11, <2>1, <2>2, <2>3, <3>1
  <2>4. CASE x = u /\ n = work.users[u].started
    <3>1. <<x, n>> = g
      BY <1>1, <2>4
    <3>2. w.games[<<x, n>>].state # "New"
      BY <1>6, <1>11, <3>1
    <3>3. n < w.users[x].started
      BY <1>3, <1>4, <1>9, <1>11, <2>4
    <3> QED BY <3>2, <3>3
  <2>5. CASE x = u /\ n # work.users[u].started
    <3>1. <<x, n>> # g
      BY <1>1, <2>5
    <3>2. n < w.users[x].started <=> n < work.users[x].started
      BY <1>3, <1>4, <1>9, <1>11, <2>5
    <3>3. w.games[<<x, n>>] = work.games[<<x, n>>]
      BY <1>11, <2>1, <3>1
    <3> QED BY <2>2, <3>2, <3>3
  <2> QED BY <2>3, <2>4, <2>5
<1>15. \A x \in Users : work.users[x].live => w.users[x].live
  BY <1>4, <1>9, <1>11
<1>16. Paired(w)
  <2> SUFFICES ASSUME NEW h \in Games
               PROVE  /\ w.games[h].state # "New" => w.users[h[1]].live
                      /\ w.games[h].state \in {"Playing"} \cup Finals =>
                           /\ w.games[h].joiner \in Users \ {h[1]}
                           /\ w.users[w.games[h].joiner].live
    BY DEF Paired
  <2>1. h[1] \in Users
    BY DEF Games
  <2>2. /\ work.games[h].state # "New" => work.users[h[1]].live
        /\ work.games[h].state \in {"Playing"} \cup Finals =>
             /\ work.games[h].joiner \in Users \ {h[1]}
             /\ work.users[work.games[h].joiner].live
    BY <1>2 DEF Told, Paired
  <2>3. CASE h # g
    BY <1>11, <1>15, <2>1, <2>2, <2>3
  <2>4. CASE h = g
    BY <1>1, <1>4, <1>6, <1>9, <1>11, <2>4 DEF Finals
  <2> QED BY <2>3, <2>4
<1>17. Counted(w)
  <2>1. ASSUME NEW x \in Users
        PROVE  /\ FinishedGames(w, x) = FinishedGames(work, x)
               /\ WonGames(w, x) = WonGames(work, x)
    BY <1>1, <1>6, <1>11 DEF FinishedGames, WonGames, PlayedBy, ChampionOf, Finals
  <2>2. \A x \in Users : /\ w.users[x].finished = work.users[x].finished
                        /\ w.users[x].won = work.users[x].won
    BY <1>4, <1>9, <1>11
  <2> QED BY <1>2, <2>1, <2>2 DEF Told, Counted
<1>18. CASE Writable(g)
  BY <1>1, <1>10, <1>12, <1>13, <1>14, <1>16, <1>17, <1>18, AppliesMoney DEF Told
<1>19. CASE ~Writable(g)
  BY <1>1, <1>19, FailsMoney
<1> QED BY <1>18, <1>19

(* A game is given a record: an unfinished one where an unfinished one was. *)
LEMMA GameTold ==
  ASSUME NEW w \in Store, Told(w), NEW g \in Games, NEW new \in Game,
         w.games[g].state \in {"Open", "Playing"}, new.state \in {"Open", "Playing"},
         new.state = "Playing" =>
           new.joiner \in Users \ {g[1]} /\ w.users[new.joiner].live,
         NEW v, v = [w EXCEPT !.games[g] = new]
  PROVE  Told(v)
<1>1. /\ v.users = w.users /\ v.games[g] = new
      /\ \A x \in Games : x # g => v.games[x] = w.games[x]
  BY DEF Store
<1>2. Unborn(v)
  BY <1>1 DEF Told, Unborn
<1>3. Numbered(v)
  <2> SUFFICES ASSUME NEW x \in Users, NEW n \in 0..(MaxGames - 1)
               PROVE  v.games[<<x, n>>].state # "New" <=> n < v.users[x].started
    BY DEF Numbered
  <2>1. <<x, n>> \in Games
    BY DEF Games
  <2>2. w.games[<<x, n>>].state # "New" <=> n < w.users[x].started
    BY DEF Told, Numbered
  <2>3. v.games[<<x, n>>].state # "New" <=> w.games[<<x, n>>].state # "New"
    BY <1>1, <2>1
  <2> QED BY <1>1, <2>2, <2>3
<1>4. Paired(v)
  <2> SUFFICES ASSUME NEW h \in Games
               PROVE  /\ v.games[h].state # "New" => v.users[h[1]].live
                      /\ v.games[h].state \in {"Playing"} \cup Finals =>
                           /\ v.games[h].joiner \in Users \ {h[1]}
                           /\ v.users[v.games[h].joiner].live
    BY DEF Paired
  <2>1. /\ w.games[h].state # "New" => w.users[h[1]].live
        /\ w.games[h].state \in {"Playing"} \cup Finals =>
             /\ w.games[h].joiner \in Users \ {h[1]}
             /\ w.users[w.games[h].joiner].live
    BY DEF Told, Paired
  <2>2. CASE h # g
    BY <1>1, <2>1, <2>2
  <2>3. CASE h = g
    BY <1>1, <2>1, <2>3 DEF Finals
  <2> QED BY <2>2, <2>3
<1>5. Counted(v)
  <2>1. ASSUME NEW x \in Users
        PROVE  /\ FinishedGames(v, x) = FinishedGames(w, x)
               /\ WonGames(v, x) = WonGames(w, x)
    BY <1>1 DEF FinishedGames, WonGames, PlayedBy, ChampionOf, Finals
  <2> QED BY <1>1, <2>1 DEF Told, Counted
<1> QED BY <1>2, <1>3, <1>4, <1>5 DEF Told

LEMMA JoinGameMoney ==
  ASSUME MoneyInv, NEW u \in Users, NEW g \in Games, JoinGame(g, u)
  PROVE  KeepsMoney
<1> DEFINE stake == work.games[g].stake
           debited == Debit(work, u, stake)
           new == [work.games[g] EXCEPT !.state = "Playing", !.joiner = u]
           w == [debited EXCEPT !.games[g].state = "Playing", !.games[g].joiner = u]
<1>1. /\ Running /\ work.users[u].live /\ u # g[1]
      /\ work.games[g].state = "Open"
      /\ work.users[u].balance >= stake
      /\ IF Writable(g) THEN Applies(w) ELSE Fails(debited)
  BY DEF JoinGame, Acts, UserReady
<1>2. /\ work \in Store /\ Told(work) /\ Total(work) \in Nat
      /\ work.games[g] \in Game /\ stake \in Nat /\ work.users[u].balance \in Nat
  <2>1. work \in Store /\ Told(work) /\ Total(work) \in Nat
    BY <1>1, RunningMoney
  <2> QED BY <2>1, TotalType, LedgerAssumption DEF Store, Game
<1>3. /\ debited \in Store /\ Told(debited) /\ Total(debited) = Total(work) - stake
      /\ debited.games = work.games /\ debited.users[u].live
  BY <1>1, <1>2, DebitMoney
<1>4. /\ new \in Game /\ new.joiner = u /\ new.state = "Playing"
      /\ Stake(new) = 2 * stake /\ Stake(work.games[g]) = stake
  BY <1>1, <1>2 DEF Game, Stake
<1> HIDE DEF stake, debited
<1>5. w = [debited EXCEPT !.games[g] = new]
  BY <1>2, <1>3 DEF Store, Game
<1> HIDE DEF new, w
<1>6. Told(w)
  BY <1>1, <1>3, <1>4, <1>5, GameTold
<1>7. w \in Store /\ Total(w) = Total(debited) - Stake(debited.games[g]) + Stake(new)
  BY <1>3, <1>4, <1>5, GameTotal
<1>8. Total(w) = Total(work)
  BY <1>2, <1>3, <1>4, <1>7
<1>9. CASE Writable(g)
  BY <1>1, <1>6, <1>7, <1>8, <1>9, AppliesMoney
<1>10. CASE ~Writable(g)
  BY <1>1, <1>10, FailsMoney
<1> QED BY <1>9, <1>10

(* v is w with user u of game g settled at that seat. *)
SeatPaid(w, v, g, seat, u) ==
  /\ v \in Store /\ v.games = w.games
  /\ \A x \in Users : x # u => v.users[x] = w.users[x]
  /\ v.users[u].live /\ v.users[u].started = w.users[u].started
  /\ v.users[u].finished = w.users[u].finished + 1
  /\ v.users[u].won = w.users[u].won + IF Won(w, g, seat) THEN 1 ELSE 0
  /\ Total(v) = Total(w) + Prize(w, g, seat)

LEMMA SeatMoney ==
  ASSUME NEW w \in Store, NEW g \in Games, NEW seat \in Seats, w.games[g].state \in Finals,
         NEW u \in Users, u = Player(w, g, seat), SeatFits(w, g, seat)
  PROVE  SeatPaid(w, SettleSeat(w, g, seat), g, seat, u)
<1> DEFINE prize == Prize(w, g, seat)
           won == IF Won(w, g, seat) THEN 1 ELSE 0
           new == [w.users[u] EXCEPT !.balance = @ + prize, !.finished = @ + 1, !.won = @ + won]
           v == SettleSeat(w, g, seat)
<1>1. prize \in Nat /\ won \in {0, 1}
  BY PrizeType
<1>2. w.users[u] \in User
  BY DEF Store
<1>3. /\ w.users[u].live
      /\ w.users[u].balance + prize <= U64_MAX
      /\ w.users[u].finished < U64_MAX
      /\ won = 1 => w.users[u].won < U64_MAX
  BY DEF SeatFits, CreditFits
<1>4. v = [w EXCEPT !.users[u] = new]
  BY <1>2 DEF SettleSeat, Store
<1> HIDE DEF prize, won, v
<1>5. /\ U64_MAX \in Nat /\ w.users[u].balance \in Nat
      /\ w.users[u].finished \in Nat /\ w.users[u].won \in 0..U64_MAX
  BY <1>2, LedgerAssumption DEF User
<1>6. new \in User
  <2>1. /\ w.users[u].balance + prize \in 0..U64_MAX
        /\ w.users[u].finished + 1 \in 0..U64_MAX
        /\ w.users[u].won + won \in 0..U64_MAX
    BY <1>1, <1>3, <1>5
  <2> QED BY <1>2, <2>1 DEF User
<1>7. /\ new.live /\ new.balance = w.users[u].balance + prize
      /\ new.started = w.users[u].started /\ new.finished = w.users[u].finished + 1
      /\ new.won = w.users[u].won + won
  BY <1>2, <1>3 DEF User
<1> HIDE DEF new
<1>8. v \in Store /\ Total(v) = Total(w) - w.users[u].balance + new.balance
  BY <1>4, <1>6, UserTotal
<1>9. /\ v.games = w.games /\ v.users[u] = new
      /\ \A x \in Users : x # u => v.users[x] = w.users[x]
  BY <1>4 DEF Store
<1>10. Total(v) = Total(w) + prize
  <2>1. Total(w) \in Nat
    BY TotalType
  <2> QED BY <1>1, <1>5, <1>7, <1>8, <2>1
<1> QED BY <1>7, <1>8, <1>9, <1>10 DEF prize, won, v, SeatPaid

(* A match ends and both players are settled: the two prizes are what the  *)
(* two staked, and each player's counters count the game once.             *)
LEMMA SettledMoney ==
  ASSUME NEW old \in Store, Told(old), NEW g \in Games, old.games[g].state = "Playing",
         NEW state \in Finals,
         NEW w, w = [old EXCEPT !.games[g].state = state], SeatFits(w, g, 0),
         NEW first, first = SettleSeat(w, g, 0), SeatFits(first, g, 1),
         NEW v, v = SettleSeat(first, g, 1)
  PROVE  v \in Store /\ Told(v) /\ Total(v) = Total(old)
<1> DEFINE stake == old.games[g].stake
           p == g[1]
           q == old.games[g].joiner
           new == [old.games[g] EXCEPT !.state = state]
<1>1. p \in Users /\ q \in Users \ {p} /\ old.users[p].live /\ old.users[q].live
  BY DEF Told, Paired, Games
<1>2. old.games[g] \in Game /\ stake \in Nat
  BY LedgerAssumption DEF Store, Game
<1>3. /\ new \in Game /\ new.state = state /\ new.joiner = q /\ new.stake = stake
      /\ Stake(new) = 0 /\ Stake(old.games[g]) = 2 * stake
  BY <1>2 DEF Game, Stake, Finals
<1>4. w = [old EXCEPT !.games[g] = new]
  BY <1>2 DEF Store, Game
<1> HIDE DEF new, stake
<1>5. w \in Store /\ Total(w) = Total(old) - 2 * stake
  <2>1. w \in Store /\ Total(w) = Total(old) - Stake(old.games[g]) + Stake(new)
    BY <1>3, <1>4, GameTotal
  <2>2. Total(old) \in Nat
    BY TotalType
  <2> QED BY <1>2, <1>3, <2>1, <2>2
<1>6. /\ w.users = old.users /\ w.games[g] = new
      /\ \A x \in Games : x # g => w.games[x] = old.games[x]
  BY <1>4 DEF Store
<1>7. /\ 0 \in Seats /\ 1 \in Seats /\ p = Player(w, g, 0)
      /\ w.games[g].state \in Finals
  BY <1>3, <1>6 DEF Seats, Player
<1> HIDE DEF p, q
<1>8. SeatPaid(w, first, g, 0, p)
  BY <1>1, <1>5, <1>7, SeatMoney
<1>9. q = Player(first, g, 1) /\ first.games[g].state \in Finals
  <2>1. first.games[g] = new
    BY <1>6, <1>8 DEF SeatPaid
  <2>2. Player(first, g, 1) = first.games[g].joiner
    BY DEF Player
  <2> QED BY <1>3, <2>1, <2>2
<1>10. SeatPaid(first, v, g, 1, q)
  BY <1>1, <1>7, <1>8, <1>9, SeatMoney DEF SeatPaid
<1>11. Total(v) = Total(old)
  <2>1. first.games[g].state = state /\ first.games[g].stake = stake
          /\ w.games[g].state = state /\ w.games[g].stake = stake
    BY <1>3, <1>6, <1>8 DEF SeatPaid
  <2>2. /\ Prize(w, g, 0) \in Nat /\ Prize(first, g, 1) \in Nat
        /\ Prize(w, g, 0) + Prize(first, g, 1) = 2 * stake
    <3>1. CASE state = "First"
      <4>1. Prize(w, g, 0) = 2 * stake /\ Prize(first, g, 1) = 0
        BY <2>1, <3>1 DEF Prize, Pot
      <4> QED BY <1>2, <4>1
    <3>2. CASE state = "Second"
      <4>1. Prize(w, g, 0) = 0 /\ Prize(first, g, 1) = 2 * stake
        BY <2>1, <3>2 DEF Prize, Pot
      <4> QED BY <1>2, <4>1
    <3>3. CASE state = "Draw"
      <4>1. Prize(w, g, 0) = stake /\ Prize(first, g, 1) = stake
        BY <2>1, <3>3 DEF Prize
      <4> QED BY <1>2, <4>1
    <3> QED BY <3>1, <3>2, <3>3 DEF Finals
  <2>3. Total(old) \in Nat
    BY TotalType
  <2> QED BY <1>2, <1>5, <1>8, <1>10, <2>2, <2>3 DEF SeatPaid
<1>12. /\ v.games[g] = new
       /\ \A x \in Games : x # g => v.games[x] = old.games[x]
       /\ \A x \in Users \ {p, q} : v.users[x] = old.users[x]
       /\ \A x \in {p, q} : /\ v.users[x].live
                           /\ v.users[x].started = old.users[x].started
                           /\ v.users[x].finished = old.users[x].finished + 1
       /\ v.users[p].won = old.users[p].won + IF state = "First" THEN 1 ELSE 0
       /\ v.users[q].won = old.users[q].won + IF state = "Second" THEN 1 ELSE 0
  <2>1. Won(w, g, 0) <=> state = "First"
    BY <1>3, <1>6 DEF Won
  <2>2. Won(first, g, 1) <=> state = "Second"
    <3>1. first.games[g].state = state
      BY <1>3, <1>6, <1>8 DEF SeatPaid
    <3> QED BY <3>1 DEF Won
  <2>3. v.games = w.games
    BY <1>8, <1>10 DEF SeatPaid
  <2>4. \A x \in Users \ {p, q} : v.users[x] = old.users[x]
    BY <1>6, <1>8, <1>10 DEF SeatPaid
  <2>5. v.users[p] = first.users[p] /\ w.users[p] = old.users[p]
    BY <1>1, <1>6, <1>10 DEF SeatPaid
  <2>6. first.users[q] = old.users[q]
    BY <1>1, <1>6, <1>8 DEF SeatPaid
  <2>7. v.users[p].won = old.users[p].won + IF state = "First" THEN 1 ELSE 0
    BY <1>8, <2>1, <2>5 DEF SeatPaid
  <2>8. v.users[q].won = old.users[q].won + IF state = "Second" THEN 1 ELSE 0
    BY <1>10, <2>2, <2>6 DEF SeatPaid
  <2>9. \A x \in {p, q} : /\ v.users[x].live
                         /\ v.users[x].started = old.users[x].started
                         /\ v.users[x].finished = old.users[x].finished + 1
    BY <1>8, <1>10, <2>5, <2>6 DEF SeatPaid
  <2>10. v.games[g] = new /\ \A x \in Games : x # g => v.games[x] = old.games[x]
    BY <1>6, <2>3
  <2> QED BY <2>4, <2>7, <2>8, <2>9, <2>10
<1>13. Unborn(v)
  BY <1>12 DEF Told, Unborn
<1>14. Numbered(v)
  <2> SUFFICES ASSUME NEW x \in Users, NEW n \in 0..(MaxGames - 1)
               PROVE  v.games[<<x, n>>].state # "New" <=> n < v.users[x].started
    BY DEF Numbered
  <2>1. <<x, n>> \in Games
    BY DEF Games
  <2>2. old.games[<<x, n>>].state # "New" <=> n < old.users[x].started
    BY DEF Told, Numbered
  <2>3. v.games[<<x, n>>].state # "New" <=> old.games[<<x, n>>].state # "New"
    BY <1>3, <1>12, <2>1 DEF Finals
  <2>4. v.users[x].started = old.users[x].started
    BY <1>12
  <2> QED BY <2>2, <2>3, <2>4
<1>15. Paired(v)
  <2> SUFFICES ASSUME NEW h \in Games
               PROVE  /\ v.games[h].state # "New" => v.users[h[1]].live
                      /\ v.games[h].state \in {"Playing"} \cup Finals =>
                           /\ v.games[h].joiner \in Users \ {h[1]}
                           /\ v.users[v.games[h].joiner].live
    BY DEF Paired
  <2>1. /\ old.games[h].state # "New" => old.users[h[1]].live
        /\ old.games[h].state \in {"Playing"} \cup Finals =>
             /\ old.games[h].joiner \in Users \ {h[1]}
             /\ old.users[old.games[h].joiner].live
    BY DEF Told, Paired
  <2>2. \A x \in Users : old.users[x].live => v.users[x].live
    BY <1>12
  <2>3. h[1] \in Users
    BY DEF Games
  <2>4. CASE h # g
    BY <1>12, <2>1, <2>2, <2>3, <2>4
  <2>5. CASE h = g
    BY <1>1, <1>3, <1>12, <2>2, <2>5 DEF p
  <2> QED BY <2>4, <2>5
<1>16. Counted(v)
  <2> SUFFICES ASSUME NEW x \in Users
               PROVE  /\ v.users[x].finished = Cardinality(FinishedGames(v, x))
                      /\ v.users[x].won = Cardinality(WonGames(v, x))
    BY DEF Counted
  <2>1. /\ old.users[x].finished = Cardinality(FinishedGames(old, x))
        /\ old.users[x].won = Cardinality(WonGames(old, x))
    BY DEF Told, Counted
  <2>2. /\ IsFiniteSet(FinishedGames(old, x)) /\ IsFiniteSet(WonGames(old, x))
        /\ g \notin FinishedGames(old, x) /\ g \notin WonGames(old, x)
    <3>1. FinishedGames(old, x) \in SUBSET Games /\ WonGames(old, x) \in SUBSET Games
      BY DEF FinishedGames, WonGames
    <3> QED BY <3>1, Finite, FS_Subset DEF FinishedGames, WonGames, Finals
  <2>3. /\ old.users[x].finished \in Nat /\ old.users[x].won \in Nat
    BY <2>1, <2>2, FS_CardinalityType
  <2>4. FinishedGames(v, x) =
          IF x \in {p, q} THEN FinishedGames(old, x) \cup {g} ELSE FinishedGames(old, x)
    <3>1. g \in FinishedGames(v, x) <=> x \in {p, q}
      BY <1>3, <1>12 DEF FinishedGames, PlayedBy, Finals, p
    <3>2. \A h \in Games : h # g => (h \in FinishedGames(v, x) <=> h \in FinishedGames(old, x))
      BY <1>12 DEF FinishedGames, PlayedBy
    <3>3. FinishedGames(v, x) \subseteq Games /\ FinishedGames(old, x) \subseteq Games
      BY DEF FinishedGames
    <3> QED BY <2>2, <3>1, <3>2, <3>3
  <2>5. v.users[x].finished = Cardinality(FinishedGames(v, x))
    <3>1. CASE x \in {p, q}
      BY <1>12, <2>1, <2>2, <2>4, <3>1, FS_AddElement
    <3>2. CASE x \notin {p, q}
      BY <1>12, <2>1, <2>4, <3>2
    <3> QED BY <3>1, <3>2
  <2> DEFINE won == (state = "First" /\ x = p) \/ (state = "Second" /\ x = q)
  <2>6. WonGames(v, x) = IF won THEN WonGames(old, x) \cup {g} ELSE WonGames(old, x)
    <3>1. g \in WonGames(v, x) <=> won
      BY <1>3, <1>12 DEF WonGames, ChampionOf, Finals, p
    <3>2. \A h \in Games : h # g => (h \in WonGames(v, x) <=> h \in WonGames(old, x))
      BY <1>12 DEF WonGames, ChampionOf
    <3>3. WonGames(v, x) \subseteq Games /\ WonGames(old, x) \subseteq Games
      BY DEF WonGames
    <3> HIDE DEF won
    <3> QED BY <2>2, <3>1, <3>2, <3>3
  <2>7. v.users[x].won = old.users[x].won + IF won THEN 1 ELSE 0
    <3>1. CASE x = p
      BY <1>1, <1>12, <3>1
    <3>2. CASE x = q
      BY <1>1, <1>12, <3>2
    <3>3. CASE x \notin {p, q}
      BY <1>12, <2>3, <3>3
    <3> QED BY <3>1, <3>2, <3>3
  <2> HIDE DEF won
  <2>8. v.users[x].won = Cardinality(WonGames(v, x))
    <3>1. CASE won
      BY <2>1, <2>2, <2>6, <2>7, <3>1, FS_AddElement
    <3>2. CASE ~won
      BY <2>1, <2>3, <2>6, <2>7, <3>2
    <3> QED BY <3>1, <3>2
  <2> QED BY <2>5, <2>8
<1> QED BY <1>10, <1>11, <1>13, <1>14, <1>15, <1>16 DEF Told, SeatPaid

LEMMA PlaysMoney ==
  ASSUME MoneyInv, Running, NEW g \in Games, NEW state \in Finals \cup {"Playing"},
         Plays(g, state)
  PROVE  KeepsMoney
<1> DEFINE w == [work EXCEPT !.games[g].state = state]
           first == SettleSeat(w, g, 0)
           last == SettleSeat(first, g, 1)
           payable(v, seat) == Writable(Player(v, g, seat)) /\ SeatFits(v, g, seat)
<1>1. /\ work.games[g].state = "Playing"
      /\ IF state \in Finals THEN Settles(w, g) ELSE Applies(w)
  BY DEF Plays
<1>2. work \in Store /\ Told(work)
  BY RunningMoney
<1>3. CASE state \notin Finals
  <2>1. w = work
    BY <1>1, <1>2, <1>3 DEF Store, Game
  <2> QED BY <1>1, <1>2, <1>3, <2>1, AppliesMoney
<1>4. CASE state \in Finals
  <2>1. CASE Pot(w, g) > U64_MAX \/ ~payable(w, 0)
    <3>1. Fails(w)
      BY <1>1, <1>4, <2>1 DEF Settles
    <3> QED BY <3>1, FailsMoney
  <2>2. CASE ~(Pot(w, g) > U64_MAX \/ ~payable(w, 0)) /\ ~payable(first, 1)
    <3>1. Fails(first)
      BY <1>1, <1>4, <2>2 DEF Settles
    <3> QED BY <3>1, FailsMoney
  <2>3. CASE ~(Pot(w, g) > U64_MAX \/ ~payable(w, 0)) /\ payable(first, 1)
    <3>1. Applies(last)
      BY <1>1, <1>4, <2>3 DEF Settles
    <3>2. SeatFits(w, g, 0) /\ SeatFits(first, g, 1)
      BY <2>3
    <3> DEFINE v == last
    <3>3. v \in Store /\ Told(v) /\ Total(v) = Total(work)
      BY <1>1, <1>2, <1>4, <3>2, SettledMoney
    <3> HIDE DEF w, first, last
    <3> QED BY <3>1, <3>3, AppliesMoney
  <2> QED BY <2>1, <2>2, <2>3
<1> QED BY <1>3, <1>4

---------------------------------------------------------------------------
(* The whole step *)

LEMMA MoneyInit == Init => MoneyInv
<1> SUFFICES ASSUME Init PROVE MoneyInv
  OBVIOUS
<1>1. LedgerInv /\ store = Empty /\ held = 0 /\ tx.status = "Idle"
  BY InvInit DEF Init, Idle
<1>2. Empty \in Store
  BY <1>1 DEF LedgerInv, TypeOK
<1>3. Total(Empty) = 0
  <2>1. \A u \in Users : Balances(Empty)[u] = 0
    BY DEF Balances, Empty, NoUser
  <2>2. \A g \in Games : AtStake(Empty)[g] = 0
    BY DEF AtStake, Staked, Empty, NoGame
  <2>3. Total(Empty) = SumOver(Balances(Empty), Users) + SumOver(AtStake(Empty), Games)
    BY <1>2, TotalType
  <2> HIDE DEF Balances, AtStake
  <2> QED BY <2>1, <2>2, <2>3, Finite, SumZero DEF SumOver
<1>4. Unborn(Empty) /\ Numbered(Empty) /\ Paired(Empty)
  <2>1. \A n \in 0..(MaxGames - 1) : ~(n < 0)
    BY LedgerAssumption
  <2>2. \A u \in Users, n \in 0..(MaxGames - 1) : <<u, n>> \in Games
    BY DEF Games
  <2>3. /\ \A g \in Games : Empty.games[g].state = "New"
        /\ \A u \in Users : Empty.users[u] = NoUser /\ Empty.users[u].started = 0
    BY DEF Empty, NoGame, NoUser
  <2> QED BY <2>1, <2>2, <2>3 DEF Unborn, Numbered, Paired, Finals
<1>5. Counted(Empty)
  <2>1. \A u \in Users : FinishedGames(Empty, u) = {} /\ WonGames(Empty, u) = {}
    BY DEF FinishedGames, WonGames, Empty, NoGame, Finals
  <2>2. \A u \in Users : Empty.users[u].finished = 0 /\ Empty.users[u].won = 0
    BY DEF Empty, NoUser
  <2> QED BY <2>1, <2>2, FS_EmptySet DEF Counted
<1>6. 0 <= Supply
  BY LedgerAssumption
<1> QED BY <1>1, <1>3, <1>4, <1>5, <1>6 DEF MoneyInv, Told

LEMMA CommitMoney ==
  ASSUME MoneyInv, Commit
  PROVE  Told(store') /\ Total(store') = held' /\ held' <= Supply /\ tx'.status = "Idle"
<1>1. /\ store' = work /\ tx' = Idle
      /\ held' = held + SumOver(tx.outputs, tx.spent) - tx.exits
      /\ Covered(work, tx, held)
  BY DEF Commit, MoneyInv
<1>2. tx \in Tx /\ store \in Store
  BY DEF MoneyInv, LedgerInv, TypeOK
<1>3. held \in Nat
  BY <1>2, TotalType DEF MoneyInv
<1>4. /\ \A o \in Outputs : tx.outputs[o] \in Nat
      /\ tx.spent \in SUBSET Outputs /\ tx.exits \in Nat
  BY <1>2, LedgerAssumption DEF Tx
<1>5. SumOver(tx.outputs, tx.spent) <= SumOver(tx.outputs, Outputs)
  BY <1>4, Finite, SumPart DEF SumOver
<1>6. SumOver(tx.outputs, Outputs) \in Nat /\ SumOver(tx.outputs, tx.spent) \in Nat
  <2>1. IsFiniteSet(tx.spent) /\ \A o \in tx.spent : tx.outputs[o] \in Nat
    BY <1>4, Finite, FS_Subset
  <2> QED BY <1>4, <2>1, Finite, SumNat DEF SumOver
<1>7. Supply \in Nat
  BY LedgerAssumption
<1>8. held' <= Supply
  BY <1>1, <1>3, <1>4, <1>5, <1>6, <1>7 DEF Covered
<1> QED BY <1>1, <1>8 DEF Covered, Idle

(* Every step keeps the money's invariant. *)
LEMMA MoneyNext ==
  ASSUME MoneyInv, [AnyNext]_vars
  PROVE  MoneyInv'
<1>1. LedgerInv'
  BY InvNext DEF MoneyInv
<1>2. ASSUME KeepsMoney PROVE MoneyInv'
  BY <1>1, <1>2 DEF KeepsMoney, MoneyInv
<1>3. CASE UNCHANGED vars
  BY <1>1, <1>3 DEF vars, MoneyInv
<1>4. ASSUME NEW signers \in SUBSET Signers, NEW access \in [Resources -> Modes],
             NEW outputs \in [Outputs -> 0..U64_MAX], Begin(signers, access, outputs)
      PROVE  MoneyInv'
  <2>1. /\ store' = store /\ held' = held /\ work' = work /\ work = store
        /\ held + SumOver(outputs, Outputs) <= Supply
    BY <1>4 DEF Begin, MoneyInv, LedgerInv
  <2>2. tx'.outputs = outputs /\ tx'.spent = {} /\ tx'.exits = 0
    BY <1>4 DEF Begin, Idle
  <2>3. SumOver(outputs, {}) = 0
    BY SumEmpty DEF SumOver
  <2>4. Total(store) \in Nat /\ Total(store) = held /\ Told(store)
    BY TotalType DEF MoneyInv, LedgerInv, TypeOK
  <2>5. held = held + 0 - 0
    BY <2>4
  <2>6. Covered(work', tx', held)
    BY <2>1, <2>2, <2>3, <2>4, <2>5 DEF Covered
  <2> QED BY <1>2, <2>1, <2>6 DEF KeepsMoney
<1>5. CASE AnyUserAction
  BY <1>2, <1>5, TransferMoney, UpdateUserLockMoney, DepositMoney, WithdrawMoney DEF AnyUserAction
<1>6. CASE AnyGameAction
  BY <1>2, <1>6, CreateGameMoney, JoinGameMoney, PlaysMoney DEF AnyGameAction, Turn, Timeout
<1>7. CASE AnyConfigAction
  BY <1>2, <1>7, ConfigMoney DEF AnyConfigAction, InitConfig, UpdateConfig
<1>8. CASE Reject
  BY <1>2, <1>8, FailsMoney DEF Reject
<1>9. CASE Commit
  BY <1>1, <1>9, CommitMoney DEF MoneyInv
<1>10. CASE Rollback
  <2>1. store' = store /\ held' = held /\ tx'.status = "Idle"
    BY <1>10 DEF Rollback, Idle
  <2> QED BY <1>1, <2>1 DEF MoneyInv
<1> QED BY <1>3, <1>4, <1>5, <1>6, <1>7, <1>8, <1>9, <1>10 DEF AnyNext

(* Every reachable state satisfies the money's invariant. *)
LEMMA AnyMoney == AnySpec => []MoneyInv
<1>1. MoneyInv /\ [AnyNext]_vars => MoneyInv'
  BY MoneyNext
<1> QED BY <1>1, MoneyInit, PTL DEF AnySpec

(* What users own and have at stake is what the covenant holds: deposits   *)
(* less exits, however transactions mixed transfers, stakes, settlements   *)
(* and failures (debit, credit and settle_match).                          *)
LEMMA AnyConserves == AnySpec => []Conserved
<1>1. MoneyInv => Conserved
  BY DEF MoneyInv, Conserved
<1> QED BY <1>1, AnyMoney, PTL

(* settle_match never finds a player missing, a balance that the prize     *)
(* would overflow or a counter at its limit.                               *)
LEMMA AnySettles == AnySpec => []CanSettle
<1>1. ASSUME MoneyInv PROVE CanSettle
  <2> SUFFICES ASSUME NEW g \in Games, store.games[g].state = "Playing"
               PROVE  /\ 2 * store.games[g].stake <= U64_MAX
                      /\ \A result \in Finals, seat \in Seats :
                           LET w == [store EXCEPT !.games[g].state = result]
                           IN  SeatFits(IF seat = 0 THEN w ELSE SettleSeat(w, g, 0), g, seat)
    BY DEF CanSettle
  <2> DEFINE stake == store.games[g].stake
             p == g[1]
             q == store.games[g].joiner
  <2>1. store \in Store /\ Told(store) /\ Total(store) <= Supply /\ Supply <= U64_MAX
    BY <1>1, LedgerAssumption DEF MoneyInv, LedgerInv, TypeOK
  <2>2. p \in Users /\ q \in Users \ {p} /\ store.users[p].live /\ store.users[q].live
    BY <2>1 DEF Told, Paired, Games
  <2>3. store.games[g] \in Game /\ stake \in Nat /\ Stake(store.games[g]) = 2 * stake
    BY <2>1, LedgerAssumption DEF Store, Game, Stake
  <2>4. U64_MAX \in Nat /\ Supply \in Nat /\ Total(store) \in Nat
    BY <2>1, LedgerAssumption, TotalType
  <2>5. \A u \in Users :
          /\ store.users[u].balance \in Nat
          /\ store.users[u].balance + 2 * stake <= U64_MAX
    <3> TAKE u \in Users
    <3>1. store.users[u].balance + Stake(store.games[g]) <= Total(store)
      BY <2>1, ShareOfTotal
    <3>2. store.users[u].balance \in Nat
      BY <2>1, TotalType
    <3> HIDE DEF stake
    <3> QED BY <2>1, <2>3, <2>4, <3>1, <3>2
  <2>6. \A u \in Users : store.users[u].finished < U64_MAX /\ store.users[u].won < U64_MAX
    <3> TAKE u \in Users
    <3>1. /\ FinishedGames(store, u) \in SUBSET (Games \ {g})
          /\ WonGames(store, u) \in SUBSET (Games \ {g})
      BY DEF FinishedGames, WonGames, Finals
    <3>2. IsFiniteSet(Games \ {g}) /\ Cardinality(Games \ {g}) = Cardinality(Games) - 1
      BY Finite, FS_RemoveElement
    <3>3. /\ Cardinality(FinishedGames(store, u)) <= Cardinality(Games \ {g})
          /\ Cardinality(WonGames(store, u)) <= Cardinality(Games \ {g})
          /\ Cardinality(FinishedGames(store, u)) \in Nat
          /\ Cardinality(WonGames(store, u)) \in Nat
      BY <3>1, <3>2, FS_Subset, FS_CardinalityType
    <3>4. /\ store.users[u].finished = Cardinality(FinishedGames(store, u))
          /\ store.users[u].won = Cardinality(WonGames(store, u))
      BY <2>1 DEF Told, Counted
    <3> QED BY <2>4, <3>2, <3>3, <3>4, Finite
  <2>7. 2 * stake <= U64_MAX
    <3> HIDE DEF stake
    <3> QED BY <2>2, <2>3, <2>4, <2>5
  <2>8. ASSUME NEW result \in Finals, NEW w, w = [store EXCEPT !.games[g].state = result]
        PROVE  SeatFits(w, g, 0) /\ SeatFits(SettleSeat(w, g, 0), g, 1)
    <3> DEFINE new == [store.games[g] EXCEPT !.state = result]
    <3>1. new \in Game /\ new.state = result /\ new.joiner = q /\ new.stake = stake
      BY <2>3 DEF Game, Finals
    <3>2. w = [store EXCEPT !.games[g] = new]
      BY <2>1, <2>3, <2>8 DEF Store, Game
    <3> HIDE DEF new
    <3>3. w \in Store /\ w.users = store.users /\ w.games[g] = new
      BY <2>1, <3>1, <3>2 DEF Store
    <3>4. 0 \in Seats /\ 1 \in Seats /\ p = Player(w, g, 0) /\ w.games[g].state \in Finals
      BY <3>1, <3>3 DEF Seats, Player
    <3> HIDE DEF stake, p, q
    <3>5. Prize(w, g, 0) \in Nat /\ Prize(w, g, 0) <= 2 * stake
      BY <2>3, <3>1, <3>3 DEF Prize, Pot, Finals
    <3>6. SeatFits(w, g, 0)
      <4>1. w.users[p].balance + Prize(w, g, 0) <= U64_MAX
        BY <2>2, <2>3, <2>4, <2>5, <3>3, <3>5
      <4> QED BY <2>2, <2>6, <3>3, <3>4, <4>1 DEF SeatFits, CreditFits
    <3> DEFINE first == SettleSeat(w, g, 0)
    <3>7. SeatPaid(w, first, g, 0, p)
      BY <2>2, <3>3, <3>4, <3>6, SeatMoney
    <3> HIDE DEF first
    <3>8. first.games[g] = new /\ first.users[q] = store.users[q]
      BY <2>2, <3>3, <3>7 DEF SeatPaid
    <3>9. Player(first, g, 1) = q
      BY <3>1, <3>8 DEF Player
    <3>10. Prize(first, g, 1) \in Nat /\ Prize(first, g, 1) <= 2 * stake
      BY <2>3, <3>1, <3>8 DEF Prize, Pot, Finals
    <3>11. SeatFits(first, g, 1)
      <4>1. first.users[q].balance + Prize(first, g, 1) <= U64_MAX
        BY <2>2, <2>3, <2>4, <2>5, <3>8, <3>10
      <4> QED BY <2>2, <2>6, <3>8, <3>9, <4>1 DEF SeatFits, CreditFits
    <3> QED BY <3>6, <3>11 DEF first
  <2>9. ASSUME NEW result \in Finals, NEW seat \in Seats
        PROVE  LET w == [store EXCEPT !.games[g].state = result]
               IN  SeatFits(IF seat = 0 THEN w ELSE SettleSeat(w, g, 0), g, seat)
    <3>1. CASE seat = 0
      BY <2>8, <3>1
    <3>2. CASE seat = 1
      BY <2>8, <3>2
    <3> QED BY <3>1, <3>2 DEF Seats
  <2> QED BY <2>7, <2>9
<1>2. MoneyInv => CanSettle
  BY <1>1
<1> QED BY <1>2, AnyMoney, PTL

(* A user's counters tell its games: started, finished and won are what    *)
(* the games say, numbered from 0 without a gap (create_game and           *)
(* settle_match).                                                          *)
LEMMA AnyStats == AnySpec => []StatsTell
<1>1. ASSUME MoneyInv PROVE StatsTell
  <2> SUFFICES ASSUME NEW u \in Users
               PROVE  /\ \A n \in 0..(MaxGames - 1) :
                            (store.games[<<u, n>>].state # "New") = (n < store.users[u].started)
                      /\ store.users[u].finished =
                            Cardinality({ g \in Games : store.games[g].state \in Finals
                                                          /\ InGame(u, g) })
                      /\ store.users[u].won =
                            Cardinality({ g \in Games : store.games[g].state \in {"First", "Second"}
                                                          /\ Champion(g) = u })
    BY DEF StatsTell
  <2>1. Told(store)
    BY <1>1 DEF MoneyInv
  <2>2. ASSUME NEW n \in 0..(MaxGames - 1)
        PROVE  (store.games[<<u, n>>].state # "New") = (n < store.users[u].started)
    BY <2>1 DEF Told, Numbered
  <2>3. FinishedGames(store, u) =
          { g \in Games : store.games[g].state \in Finals /\ InGame(u, g) }
    BY DEF FinishedGames, PlayedBy, InGame
  <2>4. WonGames(store, u) =
          { g \in Games : store.games[g].state \in {"First", "Second"} /\ Champion(g) = u }
    BY DEF WonGames, ChampionOf, Champion
  <2>5. /\ store.users[u].finished = Cardinality(FinishedGames(store, u))
        /\ store.users[u].won = Cardinality(WonGames(store, u))
    BY <2>1 DEF Told, Counted
  <2> QED BY <2>2, <2>3, <2>4, <2>5
<1>2. MoneyInv => StatsTell
  BY <1>1
<1> QED BY <1>2, AnyMoney, PTL

---------------------------------------------------------------------------
(* All of it for Ledger, whatever it tries *)

(* Balances, stakes and statistics stay in their u64 fields at every point *)
(* of every transaction (the checked arithmetic of action/*.rs).           *)
THEOREM LedgerType == Spec => []TypeOK
BY SpecIsAny, AnyType

(* Whoever takes value out of a user or rotates its lock carries a signer  *)
(* for the lock of that moment (LockEnum::unlock, lazy resolution).        *)
THEOREM LedgerLocks == Spec => CurrentLockOpened
BY SpecIsAny, AnyLocks

(* No user or game that a transaction did not declare writable changes in  *)
(* the committed resources (the modify and init combinators of ext.rs).    *)
THEOREM LedgerWrites == Spec => WritesAreDeclared
BY SpecIsAny, AnyWrites

(* The money's invariant: committed resources and the running copy of them *)
(* add up to what the covenant holds, seat two players in every match and  *)
(* count the users' games (action/*.rs).                                   *)
THEOREM LedgerMoney == Spec => []MoneyInv
BY SpecIsAny, AnyMoney

(* What users own and have at stake is what the covenant holds: deposits   *)
(* less exits, however transactions mixed transfers, stakes, settlements   *)
(* and failures (debit, credit and settle_match).                          *)
THEOREM LedgerConserves == Spec => []Conserved
BY SpecIsAny, AnyConserves

(* settle_match never finds a player missing, a balance that the prize     *)
(* would overflow or a counter at its limit.                               *)
THEOREM LedgerSettles == Spec => []CanSettle
BY SpecIsAny, AnySettles

(* A user's counters tell its games: started, finished and won are what    *)
(* the games say, numbered from 0 without a gap (create_game and           *)
(* settle_match).                                                          *)
THEOREM LedgerStats == Spec => []StatsTell
BY SpecIsAny, AnyStats

=============================================================================
