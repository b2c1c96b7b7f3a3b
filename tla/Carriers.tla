------------------------------ MODULE Carriers ------------------------------
(***************************************************************************)
(* The carriers that clients build: the payload builders of the scenario   *)
(* driver (driver/src/scenario.rs) and the transaction builders of the     *)
(* browser (encoder-wasm/src/ops.rs).                                      *)
(*                                                                         *)
(* A payload is an access list, encoded actions and signer pointers; a     *)
(* carrier is a payload with its instruction stream assembled and signed,  *)
(* and the value that its output 0 pays to the covenant.  A user is named  *)
(* by the key of the lock it is born with, a game by its creator and       *)
(* number.  Funding, change, fee and mass of the L1 transaction are left   *)
(* out: the guest reads none of them.                                      *)
(***************************************************************************)
EXTENDS Wire

CONSTANT Genesis  \* GENESIS_PUBKEY

Payload(access, actions, signers) == [access |-> access, actions |-> actions, signers |-> signers]

Pointer(resource_idx, kind) == [resource_idx |-> resource_idx, kind |-> kind]

(* schnorr_spec *)
OwnSignature(resource_idx) == <<Pointer(resource_idx, SignerTag.SchnorrSigPtr)>>

(* LanePayload::finish: signers, actions and the signatures they point to.   *)
InstructionStream(payload, key) ==
  LET n == Len(payload.signers)
      bodies == FlattenSeq(payload.actions)
      tail_at == 1 + 3 * n + 1 + Len(bodies)
      signer(i) == <<U8(payload.signers[i].resource_idx), U8(payload.signers[i].kind),
                     U32(tail_at + i)>>
  IN  <<U32(n)>> \o FlattenSeq([i \in 1..n |-> signer(i)])
        \o <<U32(Len(payload.actions))>> \o bodies \o [i \in 1..n |-> Sig(key)]

(* signed_lane_action_tx, signed_deposit_tx: a carrier whose extra outputs   *)
(* come before the change, so that output 0 is the deposit output if any.    *)
Carrier(payload, key, deposit) ==
  [access |-> payload.access, ix |-> InstructionStream(payload, key), deposit |-> deposit]

---------------------------------------------------------------------------
(* scenario.rs *)

BuildInit(covenant_id, min, ttl) ==
  Payload(<<Write(Config)>>, <<EncodeInit(0, min, ttl, covenant_id, Genesis)>>,
          <<Pointer(0, SignerTag.GenesisSchnorrSigPtr)>>)

BuildDeposit(user) ==
  LET at == UserConfigAccess(user)
  IN  Payload(at.access, <<EncodeDeposit(at.first_idx, at.second_idx, 0, user)>>, <<>>)

BuildCreateGame(creator, game, stake, rounds, mark) ==
  LET at == GameUserAccess(game, creator)
  IN  Payload(at.access,
              <<EncodeCreateGame(at.second_idx, at.first_idx, stake, rounds, mark)>>,
              OwnSignature(at.second_idx))

BuildJoinGame(joiner, game) ==
  LET at == GameUserAccess(game, joiner)
  IN  Payload(at.access, <<EncodeJoinGame(at.first_idx, at.second_idx)>>,
              OwnSignature(at.second_idx))

BuildTransfer(source, dest, amount) ==
  LET at == TwoUserAccess(source, dest)
  IN  Payload(at.access, <<EncodeTransfer(at.first_idx, at.second_idx, amount)>>,
              OwnSignature(at.first_idx))

(* An opening mark and two pre-commits. *)
BuildTurnA(game, player_a, player_b) ==
  LET at == GameTwoUserAccess(game, player_a, player_b)
      turn(cell) == EncodeTurn(at.game_idx, at.first_user_idx, cell)
  IN  Payload(at.access, <<turn(0), turn(1), turn(2)>>, OwnSignature(at.first_user_idx))

BuildTurnBAsFirst(game, player_a, player_b) ==
  LET at == GameTwoUserAccess(game, player_a, player_b)
      turn(cell) == EncodeTurn(at.game_idx, at.first_user_idx, cell)
  IN  Payload(at.access, <<turn(3), turn(4)>>, OwnSignature(at.second_user_idx))

(* A reply and a pre-commit. *)
BuildTurnB(game, player_a, player_b) ==
  LET at == GameTwoUserAccess(game, player_a, player_b)
      turn(cell) == EncodeTurn(at.game_idx, at.second_user_idx, cell)
  IN  Payload(at.access, <<turn(3), turn(4)>>, OwnSignature(at.second_user_idx))

(* The pot; when what is left of the deposit reaches the minimum, that too.  *)
BuildWithdraw(user, pot, remainder, min) ==
  LET at == UserConfigAccess(user)
      withdraw(amount) == EncodeWithdraw(at.first_idx, at.second_idx, amount, user)
  IN  Payload(at.access,
              IF remainder >= min THEN <<withdraw(pot), withdraw(remainder)>>
                                  ELSE <<withdraw(pot)>>,
              OwnSignature(at.first_idx))

---------------------------------------------------------------------------
(* ops.rs: the caller's key derives its lock, its user and its games *)

(* A funded entry: the deposit goes before the action it pays for, over the  *)
(* merged access list.                                                       *)
FundedEntry(me, game, Action(_, _), deposit) ==
  LET access == SortedAccess(UserConfigAccess(me).access \o GameUserAccess(game, me).access)
      user_idx == Position(access, me)
  IN  Carrier(Payload(access,
                      <<EncodeDeposit(user_idx, Position(access, Config), 0, me),
                        Action(Position(access, game), user_idx)>>,
                      OwnSignature(user_idx)),
              me, deposit)

BareEntry(me, game, Action(_, _)) ==
  LET at == GameUserAccess(game, me)
  IN  Carrier(Payload(at.access, <<Action(at.first_idx, at.second_idx)>>,
                      OwnSignature(at.second_idx)),
              me, 0)

CreateGameTx(me, games_started, stake, rounds, mark, deposit) ==
  LET game == <<me, games_started>>
      create(game_idx, user_idx) == EncodeCreateGame(user_idx, game_idx, stake, rounds, mark)
  IN  IF deposit > 0 THEN FundedEntry(me, game, create, deposit) ELSE BareEntry(me, game, create)

JoinGameTx(me, game, deposit) ==
  IF deposit > 0 THEN FundedEntry(me, game, EncodeJoinGame, deposit)
                 ELSE BareEntry(me, game, EncodeJoinGame)

TurnTxAlone(me, opponent, game, cell) ==
  LET at == GameUserAccess(game, me)
  IN  Carrier(Payload(at.access, <<EncodeTurn(at.first_idx, at.second_idx, cell)>>,
                      OwnSignature(at.second_idx)),
              me, 0)

(* The opponent is attached too: the turn may end the match and pay it.      *)
TurnTx(me, opponent, game, cell) ==
  LET at == GameTwoUserAccess(game, me, opponent)
  IN  Carrier(Payload(at.access, <<EncodeTurn(at.game_idx, at.first_user_idx, cell)>>,
                      OwnSignature(at.first_user_idx)),
              me, 0)

(* A destination that does not exist yet is sent with its lock. *)
TransferTx(me, dest, dest_exists, amount) ==
  LET at == TwoUserAccess(me, dest)
      action == IF dest_exists THEN EncodeTransfer(at.first_idx, at.second_idx, amount)
                ELSE EncodeTransferCreate(at.first_idx, at.second_idx, amount, dest)
  IN  Carrier(Payload(at.access, <<action>>, OwnSignature(at.first_idx)), me, 0)

WithdrawTx(me, amount) ==
  LET at == UserConfigAccess(me)
  IN  Carrier(Payload(at.access, <<EncodeWithdraw(at.first_idx, at.second_idx, amount, me)>>,
                      OwnSignature(at.first_idx)),
              me, 0)

=============================================================================
