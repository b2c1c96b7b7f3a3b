-------------------------------- MODULE Lane --------------------------------
(***************************************************************************)
(* The clients and the guest together.  Three clients build carriers       *)
(* (Carriers), L1 accepts them in some order, and the guest decodes each   *)
(* (Wire), applies its actions one by one (Ledger) and plays the boards    *)
(* they name (Game).                                                       *)
(*                                                                         *)
(*  - The scenario driver runs its script: a carrier is sent when L1 has   *)
(*    accepted the previous one.  It never reads the rollup's state.       *)
(*  - The browser of a third user reads the state the node serves, decides *)
(*    how much to deposit, and submits some time later.                    *)
(*  - Others: the config's owner, and a sweeper of expired turns.          *)
(*                                                                         *)
(* The lane executes carriers in the order of L1 acceptance, so acceptance *)
(* and the start of execution are one step here: a node that lags behind   *)
(* L1 shows as a carrier that waits in the mempool.                        *)
(***************************************************************************)
EXTENDS Ledger, Sequences, Bags

CONSTANTS
  PlayerA, PlayerB,    \* the scenario's players
  Web,                 \* the browser's user
  MIN_WITHDRAWAL,      \* what the script's Init sets: 1_000_000 in the code
  Scenarios,           \* the orders of ids and configurations that are tried
  Stakes,              \* stakes and amounts the browser's user enters
  WebCells             \* cells the browser's user clicks on

ASSUME LaneAssumption ==
  /\ {PlayerA, PlayerB, Web} \subseteq Users \cap Keys
  /\ Cardinality({PlayerA, PlayerB, Web}) = 3
  /\ MIN_WITHDRAWAL \in MIN_CREATE_BALANCE..U64_MAX
  /\ MaxGames > 0
  /\ Stakes \subseteq 0..U64_MAX /\ WebCells \subseteq 0..8
  /\ \A s \in Scenarios :
       /\ s.rank \in [Resources -> Nat]
       /\ \A r, other \in Resources : s.rank[r] = s.rank[other] => r = other
       /\ s.cfg.deposit \in 1..U64_MAX
       /\ s.cfg.stake \in 1..(U64_MAX \div 2)  \* else Step 8 withdraws one stake only
       /\ s.cfg.transfer \in 0..U64_MAX

VARIABLES
  rank,      \* the order of resource ids
  table,     \* [boards, turn_ttl, covenant_id] of the committed resources
  playing,   \* the running transaction's copy of table
  mempool,   \* the bag of carriers sent and not yet accepted by L1
  current,   \* the running carrier
  todo,      \* its actions that are still to apply
  clock,     \* carriers accepted so far, which is the DAA score
  cfg,       \* the driver's configuration; bounds web and others on the carriers sent
  next_step, \* of the script: 1..9, 10 when it is done, 0 when it gave up
  form,      \* the browser's entry: what was entered, and the account fetched
  sent       \* carriers sent so far by the browser and by others

C == INSTANCE Carriers
G == INSTANCE Game WITH
       Cells <- 0..8, PENDING_CAP <- 4, U8_MAX <- 255, NoUser <- Unlocked,
       Lines <- { {0, 1, 2}, {3, 4, 5}, {6, 7, 8}, {0, 3, 6}, {1, 4, 7}, {2, 5, 8},
                  {0, 4, 8}, {2, 4, 6} }

clients == <<mempool, next_step, form, sent>>
guest == <<table, playing, current, todo, clock>>
laneVars == <<vars, guest, clients, rank, cfg>>

NoBoard == [state |-> "New"]
NoCarrier == [client |-> "none"]
NoForm == [kind |-> "none"]
Covenant == "covenant"

LaneInit ==
  /\ Init
  /\ \E s \in Scenarios : rank = s.rank /\ cfg = s.cfg
  /\ table = [boards |-> [g \in Games |-> NoBoard], turn_ttl |-> 0, covenant_id |-> "zero"]
  /\ playing = table
  /\ mempool = EmptyBag /\ current = NoCarrier /\ todo = <<>> /\ clock = 0
  /\ next_step = 1 /\ form = NoForm /\ sent = [web |-> 0, others |-> 0]

---------------------------------------------------------------------------
(* A carrier in the mempool: what L1 sees, who sent it, and what its sender  *)
(* meant, with the resources of every action named instead of indexed.       *)

Send(carrier, client, meant, about) ==
  mempool' = mempool (+) SetToBag({ [client |-> client, meant |-> meant, about |-> about,
                                     access |-> carrier.access, ix |-> carrier.ix,
                                     deposit |-> carrier.deposit] })

InitMeant(tag, min, ttl) ==
  [action_tag |-> tag, config_idx |-> Config, min |-> min, ttl |-> ttl,
   covenant_id |-> Covenant, lock |-> Genesis]

DepositMeant(user) ==
  [action_tag |-> "Deposit", user_idx |-> user, config_idx |-> Config, output_idx |-> 0,
   lock |-> user]

CreateMeant(game, stake, rounds) ==
  [action_tag |-> "CreateGame", creator_idx |-> game[1], game_idx |-> game, stake |-> stake,
   rounds |-> rounds, mark |-> "X"]

JoinMeant(game, joiner) == [action_tag |-> "JoinGame", game_idx |-> game, joiner_idx |-> joiner]

TurnMeant(game, user, cell) ==
  [action_tag |-> "Turn", game_idx |-> game, user_idx |-> user, cell |-> cell]

TransferMeant(source, dest, amount, dest_init) ==
  [action_tag |-> "Transfer", source_idx |-> source, dest_idx |-> dest, amount |-> amount,
   dest_init |-> dest_init]

WithdrawMeant(user, amount) ==
  [action_tag |-> "Withdraw", user_idx |-> user, config_idx |-> Config, amount |-> amount,
   dest |-> user]

TimeoutMeant(game) == [action_tag |-> "Timeout", game_idx |-> game, config_idx |-> Config]

---------------------------------------------------------------------------
(* scenario.rs: run *)

ScriptGame == <<PlayerA, 0>>

Minus(a, b) == IF a >= b THEN a - b ELSE 0  \* saturating_sub

Remainder == Minus(Minus(cfg.deposit, cfg.stake), cfg.transfer)

(* opt_u64(TTFLOW_ROUNDS) as u8 *)
Rounds == cfg.rounds % 256

Script ==
  LET act(payload, key, meant) ==
        Send(C!Carrier(payload, key, 0), "script", meant, [kind |-> "script"])
      fund(user) ==
        Send(C!Carrier(C!BuildDeposit(user), user, cfg.deposit), "script",
             <<DepositMeant(user)>>, [kind |-> "script"])
      turns(user, cells) == [i \in DOMAIN cells |-> TurnMeant(ScriptGame, user, cells[i])]
      withdraws == <<WithdrawMeant(PlayerA, 2 * cfg.stake)>>
                     \o IF Remainder >= MIN_WITHDRAWAL
                        THEN <<WithdrawMeant(PlayerA, Remainder)>> ELSE <<>>
  IN  CASE next_step = 1 -> act(C!BuildInit(Covenant, MIN_WITHDRAWAL, cfg.turn_ttl), Genesis,
                                <<InitMeant("Init", MIN_WITHDRAWAL, cfg.turn_ttl)>>)
        [] next_step = 2 -> fund(PlayerA)
        [] next_step = 3 -> fund(PlayerB)
        [] next_step = 4 -> act(C!BuildCreateGame(PlayerA, ScriptGame, cfg.stake, Rounds, "X"),
                                PlayerA, <<CreateMeant(ScriptGame, cfg.stake, Rounds)>>)
        [] next_step = 5 -> act(C!BuildJoinGame(PlayerB, ScriptGame), PlayerB,
                                <<JoinMeant(ScriptGame, PlayerB)>>)
        [] next_step = 6 -> act(C!BuildTransfer(PlayerA, PlayerB, cfg.transfer), PlayerA,
                                <<TransferMeant(PlayerA, PlayerB, cfg.transfer, C!NoLock)>>)
        [] next_step = 7 -> act(C!BuildTurnA(ScriptGame, PlayerA, PlayerB), PlayerA,
                                turns(PlayerA, <<0, 1, 2>>))
        [] next_step = 8 -> act(C!BuildTurnB(ScriptGame, PlayerA, PlayerB), PlayerB,
                                turns(PlayerB, <<3, 4>>))
        [] next_step = 9 -> act(C!BuildWithdraw(PlayerA, 2 * cfg.stake, Remainder, MIN_WITHDRAWAL),
                                PlayerA, withdraws)

Pending(client) == { carrier \in BagToSet(mempool) : carrier.client = client }

(* submit_action and submit_deposit return once L1 has accepted the carrier. *)
ScriptStep ==
  /\ next_step \in 1..9
  /\ Pending("script") = {}
  /\ Script
  /\ next_step' = IF next_step = 5 /\ cfg.transfer = 0 THEN 7 ELSE next_step + 1
  /\ UNCHANGED <<vars, guest, form, sent, rank, cfg>>

(* The retries are exhausted, whether or not the last attempt reached L1.    *)
ScriptGivesUp ==
  /\ next_step \in 2..9
  /\ next_step' = 0
  /\ UNCHANGED <<vars, guest, mempool, form, sent, rank, cfg>>

---------------------------------------------------------------------------
(* composition.ts: the browser, on the state the node serves *)

Mine == store.users[Web]

EntryDepositNoFloor(account, stake) == Minus(stake, account.balance)

(* The stake's shortfall, and at least what a newborn account needs.         *)
EntryDeposit(account, stake) ==
  LET shortfall == Minus(stake, account.balance)
      floor == IF account.live THEN 0 ELSE MIN_CREATE_BALANCE
  IN  IF shortfall > floor THEN shortfall ELSE floor

WebMaySend == sent.web < cfg.web

(* submitEntry up to its first await, for a game of one's own or one that    *)
(* OpenGames lists: the open games of others.                                *)
FetchAccount ==
  /\ form = NoForm /\ WebMaySend
  /\ store.config.live
  /\ \/ \E stake \in Stakes : form' = [kind |-> "create", stake |-> stake, account |-> Mine]
     \/ \E game \in Games :
          /\ store.games[game].state = "Open" /\ game[1] # Web
          /\ form' = [kind |-> "join", game |-> game, stake |-> store.games[game].stake,
                      account |-> Mine]
  /\ UNCHANGED <<vars, guest, mempool, next_step, sent, rank, cfg>>

(* The rest of submitEntry. *)
SubmitEntry ==
  LET deposit == EntryDeposit(form.account, form.stake)
      game == IF form.kind = "create" THEN <<Web, form.account.started>> ELSE form.game
      carrier == IF form.kind = "create"
                 THEN C!CreateGameTx(Web, form.account.started, form.stake, 1, "X", deposit)
                 ELSE C!JoinGameTx(Web, game, deposit)
      entry == IF form.kind = "create" THEN CreateMeant(game, form.stake, 1)
               ELSE JoinMeant(game, Web)
  IN  /\ form # NoForm
      /\ game \in Games  \* bound: MaxGames
      /\ Send(carrier, "web", IF deposit > 0 THEN <<DepositMeant(Web), entry>> ELSE <<entry>>,
              [kind |-> form.kind, game |-> game, account |-> form.account])
      /\ form' = NoForm
      /\ sent' = [sent EXCEPT !.web = @ + 1]
      /\ UNCHANGED <<vars, guest, next_step, rank, cfg>>

(* No single UTXO covers the deposit and the fee, or L1 refuses the carrier. *)
EntryFails ==
  /\ form # NoForm
  /\ form' = NoForm
  /\ UNCHANGED <<vars, guest, mempool, next_step, sent, rank, cfg>>

WebSends(carrier, meant, about) ==
  /\ WebMaySend
  /\ Send(carrier, "web", <<meant>>, about)
  /\ sent' = [sent EXCEPT !.web = @ + 1]
  /\ UNCHANGED <<vars, guest, form, next_step, rank, cfg>>

(* MatchPanel and submitTurn: an empty cell on one's own turn, and no turn   *)
(* of one's own in flight.                                                   *)
SubmitTurn(game, cell) ==
  LET board == table.boards[game]
  IN  /\ board.state = "Playing"
      /\ board.players[1] = Web \/ board.players[0] = Web
      /\ board.players[G!ToMove(board)] = Web
      /\ board.board[cell] = "Empty"
      /\ ~\E carrier \in Pending("web") : carrier.about.kind = "turn"
      /\ LET opponent == CHOOSE user \in Users \ {Web} : \E s \in Seats : board.players[s] = user
         IN  WebSends(C!TurnTx(Web, opponent, game, cell), TurnMeant(game, Web, cell),
                      [kind |-> "turn", game |-> game, cell |-> cell])

(* TransferForm, to player B: a destination that does not exist is created.  *)
SubmitTransfer(amount) ==
  LET exists == store.users[PlayerB].live
  IN  /\ amount <= Mine.balance
      /\ WebSends(C!TransferTx(Web, PlayerB, exists, amount),
                  TransferMeant(Web, PlayerB, amount, IF exists THEN C!NoLock ELSE PlayerB),
                  [kind |-> "transfer"])

(* WithdrawForm *)
SubmitWithdraw(amount) ==
  /\ store.config.live /\ amount >= store.config.min
  /\ amount <= Mine.balance
  /\ WebSends(C!WithdrawTx(Web, amount), WithdrawMeant(Web, amount), [kind |-> "withdraw"])

---------------------------------------------------------------------------
(* Carriers no client of this repository builds (external) *)

OthersSend(payload, key, meant) ==
  /\ sent.others < cfg.others
  /\ Send(C!Carrier(payload, key, 0), "others", meant, [kind |-> "others"])
  /\ sent' = [sent EXCEPT !.others = @ + 1]
  /\ UNCHANGED <<vars, guest, form, next_step, rank, cfg>>

OwnerUpdates(min) ==
  /\ store.config.live
  /\ OthersSend(C!Payload(<<C!Write(Config)>>,
                          <<C!EncodeUpdate(0, min, cfg.turn_ttl, Covenant, Genesis)>>,
                          C!OwnSignature(0)),
                Genesis, <<InitMeant("Update", min, cfg.turn_ttl)>>)

(* The browser's user changes its lock with another tool. *)
WebRotates(key) ==
  /\ Mine.live
  /\ OthersSend(C!Payload(<<C!Write(Web)>>, <<C!EncodeUpdateUserLock(0, key)>>, C!OwnSignature(0)),
                Web, <<[action_tag |-> "UpdateUserLock", user_idx |-> Web, lock |-> key]>>)

(* The players are not attached: a forfeit that ends the match is rejected,  *)
(* "and the submitter retries with them included" (settle_match).            *)
Sweeps(game) ==
  LET at == C!GameConfigAccess(game)
  IN  /\ store.games[game].state = "Playing"
      /\ OthersSend(C!Payload(at.access, <<C!EncodeTimeout(at.first_idx, at.second_idx)>>, <<>>),
                    Genesis, <<TimeoutMeant(game)>>)

SweepsWithPlayers(game) ==
  LET access == C!SortedAccess(<<C!Write(game), C!Read(Config), C!Write(game[1]),
                                 C!Write(store.games[game].joiner)>>)
  IN  /\ store.games[game].state = "Playing"
      /\ OthersSend(C!Payload(access, <<C!EncodeTimeout(C!Position(access, game),
                                                        C!Position(access, Config))>>, <<>>),
                    Genesis, <<TimeoutMeant(game)>>)

---------------------------------------------------------------------------
(* run.rs over a decoded carrier *)

At(idx) == current.access[idx + 1].id

AccessOf(carrier) ==
  [r \in Resources |->
     LET at == { i \in DOMAIN carrier.access : carrier.access[i].id = r }
     IN  IF at = {} THEN "Absent" ELSE carrier.access[CHOOSE i \in at : TRUE].access_type]

SignersOf(carrier, decoded) ==
  { [ kind |-> IF s.kind = C!SignerTag.SchnorrSigPtr THEN "SigPtr" ELSE "Direct",
      resource |-> carrier.access[s.resource_idx + 1].id,
      key |-> carrier.ix[s.sig_offset].value ] :
    s \in { decoded.signers[i] : i \in DOMAIN decoded.signers } }

Decoded(carrier) == C!DecodeIx(carrier.ix, Len(carrier.access))

(* L1 accepts a carrier and the guest starts on it.  Every carrier sent here *)
(* can be read (MeantIsRead); one that cannot changes nothing.               *)
Accept(carrier) ==
  LET decoded == Decoded(carrier)
  IN  /\ decoded.ok
      /\ Begin(SignersOf(carrier, decoded), AccessOf(carrier), [o \in Outputs |-> carrier.deposit])
      /\ current' = carrier
      /\ todo' = decoded.actions
      /\ mempool' = mempool (-) SetToBag({carrier})
      /\ clock' = clock + 1
      /\ UNCHANGED <<table, playing, next_step, form, sent, rank, cfg>>

(* apply_action: one handler, with the resources the action's indexes name.  *)
Action(tag, Handler(_)) ==
  /\ todo # <<>> /\ Head(todo).action_tag = tag
  /\ Handler(Head(todo))
  /\ todo' = Tail(todo)
  /\ UNCHANGED <<table, current, clock, clients, rank, cfg>>

Unplayed == UNCHANGED playing

(* The board a successful Turn or Timeout leaves, and the money with it.     *)
Board(game) == playing.boards[game]

Puts(game, board) == playing' = [playing EXCEPT !.boards[game] = board]

ConfigWritten(a) ==
  playing' = [playing EXCEPT !.turn_ttl = a.ttl, !.covenant_id = a.covenant_id]

HandleInit(a) == At(a.config_idx) = Config /\ InitConfig(a.min, a.lock) /\ ConfigWritten(a)

HandleUpdate(a) ==
  /\ At(a.config_idx) = Config
  /\ a.covenant_id = playing.covenant_id
  /\ UpdateConfig(a.min, a.lock)
  /\ ConfigWritten(a)

HandleTransfer(a) ==
  /\ At(a.source_idx) \in Users /\ At(a.dest_idx) \in Users
  /\ Transfer(At(a.source_idx), At(a.dest_idx), a.amount, a.dest_init)
  /\ Unplayed

HandleUpdateUserLock(a) ==
  At(a.user_idx) \in Users /\ UpdateUserLock(At(a.user_idx), a.lock) /\ Unplayed

HandleDeposit(a) ==
  /\ At(a.user_idx) \in Users /\ At(a.config_idx) = Config /\ a.output_idx \in Outputs
  /\ Deposit(At(a.user_idx), a.output_idx, a.lock)
  /\ Unplayed

HandleWithdraw(a) ==
  /\ At(a.user_idx) \in Users /\ At(a.config_idx) = Config
  /\ Withdraw(At(a.user_idx), a.amount)
  /\ Unplayed

HandleCreateGame(a) ==
  /\ At(a.creator_idx) \in Users /\ At(a.game_idx) \in Games
  /\ a.rounds # 0
  /\ CreateGame(At(a.creator_idx), At(a.game_idx), a.stake)
  /\ Puts(At(a.game_idx), G!NewGame(At(a.creator_idx), a.mark, a.rounds))

HandleJoinGame(a) ==
  /\ At(a.joiner_idx) \in Users /\ At(a.game_idx) \in Games
  /\ JoinGame(At(a.game_idx), At(a.joiner_idx))
  /\ Puts(At(a.game_idx), G!Join(Board(At(a.game_idx)), At(a.joiner_idx), clock))

Movable(a) ==
  { seat \in Seats :
      /\ At(a.user_idx) \in Users /\ At(a.game_idx) \in Games
      /\ Board(At(a.game_idx)).state = "Playing"
      /\ Board(At(a.game_idx)).players[seat] = At(a.user_idx)
      /\ G!CanPlayTurn(Board(At(a.game_idx)), seat, a.cell) }

HandleTurn(a) ==
  \E seat \in Movable(a) :
    LET game == At(a.game_idx)
        after == G!PlayTurn(Board(game), seat, a.cell, clock)
    IN  Turn(game, At(a.user_idx), after.state) /\ Puts(game, after)

Forfeitable(a) ==
  /\ At(a.game_idx) \in Games /\ At(a.config_idx) = Config
  /\ Board(At(a.game_idx)).state = "Playing"
  /\ G!CanForfeit(Board(At(a.game_idx)), playing.turn_ttl, clock)

HandleTimeout(a) ==
  /\ Forfeitable(a)
  /\ LET game == At(a.game_idx)
         after == G!ForfeitRound(Board(game), clock)
     IN  Timeout(game, after.state) /\ Puts(game, after)

HandleOffBoard ==
  \/ Action("Init", HandleInit)
  \/ Action("Update", HandleUpdate)
  \/ Action("Transfer", HandleTransfer)
  \/ Action("UpdateUserLock", HandleUpdateUserLock)
  \/ Action("Deposit", HandleDeposit)
  \/ Action("Withdraw", HandleWithdraw)
  \/ Action("CreateGame", HandleCreateGame)
  \/ Action("JoinGame", HandleJoinGame)

HandleOnBoard == Action("Turn", HandleTurn) \/ Action("Timeout", HandleTimeout)

(* Whether some handler takes the next action.  Whether a Turn or a Timeout  *)
(* does depends on the board before it, not on the one it leaves.            *)
Applicable ==
  LET a == Head(todo)
  IN  CASE a.action_tag = "Turn" ->
             Movable(a) # {} /\ ENABLED Turn(At(a.game_idx), At(a.user_idx), "Playing")
        [] a.action_tag = "Timeout" ->
             Forfeitable(a) /\ ENABLED Timeout(At(a.game_idx), "Playing")
        [] OTHER -> ENABLED HandleOffBoard

(* The next action cannot be applied, or the last one was and a signer is    *)
(* still pending.                                                            *)
GuestRejects ==
  /\ IF todo = <<>> THEN tx.pending # {} ELSE ~Applicable
  /\ Reject
  /\ UNCHANGED <<guest, clients, rank, cfg>>

GuestCommits ==
  /\ todo = <<>>
  /\ Commit
  /\ table' = playing
  /\ current' = NoCarrier
  /\ UNCHANGED <<playing, todo, clock, clients, rank, cfg>>

GuestRollsBack ==
  /\ Rollback
  /\ playing' = table
  /\ current' = NoCarrier
  /\ todo' = <<>>
  /\ UNCHANGED <<table, clock, clients, rank, cfg>>

---------------------------------------------------------------------------

Clients ==
  \/ ScriptStep \/ ScriptGivesUp
  \/ FetchAccount \/ SubmitEntry \/ EntryFails
  \/ \E game \in Games, cell \in WebCells : SubmitTurn(game, cell)
  \/ \E amount \in Stakes : SubmitTransfer(amount) \/ SubmitWithdraw(amount)
  \/ \E amount \in Stakes : OwnerUpdates(amount)
  \/ \E key \in NewLocks : WebRotates(key)
  \/ \E game \in Games : Sweeps(game) \/ SweepsWithPlayers(game)

Guest ==
  \/ \E carrier \in BagToSet(mempool) : Accept(carrier)
  \/ HandleOffBoard \/ HandleOnBoard
  \/ GuestRejects \/ GuestCommits \/ GuestRollsBack

(* Clients see committed resources only, so that what they do while a        *)
(* transaction runs they might as well do before it or after it.             *)
LaneNext == (tx.status = "Idle" /\ Clients) \/ Guest

LaneSpec == LaneInit /\ [][LaneNext]_laneVars

---------------------------------------------------------------------------
(* Properties *)

IndexFields == { "config_idx", "user_idx", "source_idx", "dest_idx", "creator_idx", "joiner_idx",
                 "game_idx" }

(* What the guest reads in a carrier is what its sender meant, whatever the  *)
(* order of the ids: every action with its arguments, every index naming the *)
(* resource the sender had in mind, one signature by the sender's key for    *)
(* every pointer, and nothing left over but those signatures.  Encoders and  *)
(* decoders are separate code, and each index is computed from a list sorted *)
(* by hashes (encode.rs, ops.rs, ix.rs, action.rs).                          *)
MeantIsRead ==
  \A carrier \in BagToSet(mempool) :
    LET decoded == Decoded(carrier)
        named(action) ==
          [f \in DOMAIN action |-> IF f \in IndexFields THEN carrier.access[action[f] + 1].id
                                                        ELSE action[f]]
    IN  /\ decoded.ok
        /\ [i \in DOMAIN decoded.actions |-> named(decoded.actions[i])] = carrier.meant
        /\ Len(decoded.tail) = Len(decoded.signers)
        /\ \A i \in DOMAIN decoded.signers :
             carrier.ix[decoded.signers[i].sig_offset] = decoded.tail[i]

(* The configuration is one the script's steps can carry out: it plays one   *)
(* round, so TTFLOW_ROUNDS must be 1 once it is cut to a u8.                 *)
Viable ==
  /\ cfg.stake + cfg.transfer <= cfg.deposit
  /\ 2 * cfg.stake >= MIN_WITHDRAWAL
  /\ cfg.deposit >= MIN_CREATE_BALANCE
  /\ Rounds = 1

(* "Player B turn carrier triggering cascade, round win, and match           *)
(* settlement", then "one carrier drains the pot and the deposit remainder": *)
(* when the script ends, player A has won and what it has left could not be  *)
(* withdrawn.  The script never looks at the rollup: this must come out of   *)
(* the order of its carriers alone, while the browser's user creates,        *)
(* transfers and withdraws between them.  It may also try to join the game;  *)
(* if it comes first, or others touch the game, the script is off its track. *)
ScriptDrains ==
  (/\ next_step = 10 /\ Pending("script") = {} /\ tx.status = "Idle"
   /\ Viable
   /\ sent.others = 0 /\ store.games[ScriptGame].joiner # Web)
  => /\ store.games[ScriptGame].state = "First"
     /\ store.users[PlayerA].balance < MIN_WITHDRAWAL

Rejects(kinds) == tx.status = "Failed" /\ current.about.kind \in kinds

(* An entry is rejected, and its deposit lost to the covenant, only if what  *)
(* the browser read before sizing the deposit was overtaken: the balance     *)
(* fell, another game was created, the lock was changed, or the game was     *)
(* taken.  On an account that did not change for the worse, born or not, the *)
(* deposit is enough and comes before the action that spends it              *)
(* (submitEntry, entryDeposit, merge_access).                                *)
FreshEntryApplies ==
  Rejects({"create", "join"}) =>
    LET seen == current.about.account
    IN  \/ Mine.balance < seen.balance
        \/ Mine.live /\ Mine.lock # Web
        \/ current.about.kind = "create" /\ Mine.started # seen.started
        \/ current.about.kind = "join" /\ store.games[current.about.game].state # "Open"

(* A turn the board allows is never rejected, even when its cascade ends the *)
(* match and the pot must be paid: the browser cannot know what the          *)
(* opponent's queue will play, so every turn brings both players' accounts   *)
(* (turn_tx, settle_match).                                                  *)
LegalTurnApplies ==
  Rejects({"turn"}) =>
    LET board == table.boards[current.about.game]
    IN  \/ Mine.lock # Web
        \/ ~\E seat \in Seats :
             board.players[seat] = Web /\ G!CanPlayTurn(board, seat, current.about.cell)

=============================================================================
