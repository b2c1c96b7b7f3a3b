-------------------------------- MODULE Wire --------------------------------
(***************************************************************************)
(* The instruction stream of a carrier: the encoders of action/encode.rs   *)
(* and the decoders of action.rs, ix.rs, signer.rs and lock.rs.  The two   *)
(* sides are written apart in the code, and both name a resource by its    *)
(* index in the carrier's access list, which is sorted by id.              *)
(*                                                                         *)
(* The wire is a sequence of fields, each with its width in bytes and its  *)
(* value.  A decoder that expects another width than the next field's      *)
(* fails; in bytes it would read something else.  An id is a hash, so the  *)
(* order of ids is any order: rank.                                        *)
(***************************************************************************)
EXTENDS Integers, Sequences, SequencesExt

CONSTANTS
  Unlocked,  \* the lock anyone opens; every other lock here is a Schnorr key
  Config     \* config_resource_id()

VARIABLE
  rank       \* the place of every resource id in the order of ids

---------------------------------------------------------------------------
(* Fields *)

U8(v)  == [width |-> 1, value |-> v]
U32(v) == [width |-> 4, value |-> v]
U64(v) == [width |-> 8, value |-> v]
B32(v) == [width |-> 32, value |-> v]
Spk(v) == [width |-> 33, value |-> v]   \* StandardSpk::PubKey: a tag and a key
Sig(v) == [width |-> 64, value |-> v]   \* a signature of the signed prefix by key v

ActionTag == [ Update |-> 1, Init |-> 2, Transfer |-> 3, UpdateUserLock |-> 4, Deposit |-> 5,
               Withdraw |-> 6, CreateGame |-> 7, JoinGame |-> 8, Turn |-> 9, Timeout |-> 10 ]

LockTag == [Schnorr |-> 1, Unlocked |-> 3]

SignerTag == [SchnorrSigPtr |-> 1, GenesisSchnorrSigPtr |-> 5]

MarkByte == [X |-> 1, O |-> 2]

---------------------------------------------------------------------------
(* encode.rs *)

(* LockEnum::encode *)
EncodeLock(lock) ==
  IF lock = Unlocked THEN <<U8(LockTag.Unlocked)>> ELSE <<U8(LockTag.Schnorr), B32(lock)>>

EncodeConfig(tag, config_idx, min, ttl, covenant_id, lock) ==
  <<U8(tag), U8(config_idx), U64(min), U64(ttl), B32(covenant_id)>> \o EncodeLock(lock)

EncodeUpdate(config_idx, min, ttl, covenant_id, lock) ==
  EncodeConfig(ActionTag.Update, config_idx, min, ttl, covenant_id, lock)

EncodeInit(config_idx, min, ttl, covenant_id, lock) ==
  EncodeConfig(ActionTag.Init, config_idx, min, ttl, covenant_id, lock)

EncodeTransfer(source_idx, dest_idx, amount) ==
  <<U8(ActionTag.Transfer), U8(source_idx), U8(dest_idx), U64(amount), U8(0)>>

EncodeTransferCreate(source_idx, dest_idx, amount, dest_init) ==
  <<U8(ActionTag.Transfer), U8(source_idx), U8(dest_idx), U64(amount), U8(1)>>
    \o EncodeLock(dest_init)

EncodeUpdateUserLock(user_idx, lock) ==
  <<U8(ActionTag.UpdateUserLock), U8(user_idx)>> \o EncodeLock(lock)

EncodeDeposit(user_idx, config_idx, output_idx, lock) ==
  <<U8(ActionTag.Deposit), U8(user_idx), U8(config_idx), U32(output_idx)>> \o EncodeLock(lock)

EncodeWithdraw(user_idx, config_idx, amount, dest) ==
  <<U8(ActionTag.Withdraw), U8(user_idx), U8(config_idx), U64(amount), Spk(dest)>>

EncodeCreateGame(creator_idx, game_idx, stake, rounds, mark) ==
  <<U8(ActionTag.CreateGame), U8(creator_idx), U8(game_idx), U64(stake), U8(rounds),
    U8(MarkByte[mark])>>

EncodeJoinGameUserFirst(game_idx, joiner_idx) ==
  <<U8(ActionTag.JoinGame), U8(joiner_idx), U8(game_idx)>>

EncodeJoinGame(game_idx, joiner_idx) ==
  <<U8(ActionTag.JoinGame), U8(game_idx), U8(joiner_idx)>>

(* The cell is not checked here; the decoder does. *)
EncodeTurn(game_idx, user_idx, cell) ==
  <<U8(ActionTag.Turn), U8(game_idx), U8(user_idx), U8(cell)>>

EncodeTimeout(game_idx, config_idx) ==
  <<U8(ActionTag.Timeout), U8(game_idx), U8(config_idx)>>

---------------------------------------------------------------------------
(* Access lists: entries strictly ascending by id *)

Entry(id, access_type) == [id |-> id, access_type |-> access_type]
Write(id) == Entry(id, "Write")
Read(id) == Entry(id, "Read")

Precedes(id, other) == rank[id] < rank[other]

(* Two entries in order, and where each went. *)
PairAccess(first, second) ==
  IF Precedes(first.id, second.id)
  THEN [first_idx |-> 0, second_idx |-> 1, access |-> <<first, second>>]
  ELSE [first_idx |-> 1, second_idx |-> 0, access |-> <<second, first>>]

UserConfigAccess(user) == PairAccess(Write(user), Read(Config))
TwoUserAccess(source, dest) == PairAccess(Write(source), Write(dest))
GameUserAccess(game, user) == PairAccess(Write(game), Write(user))
GameConfigAccess(game) == PairAccess(Write(game), Read(Config))

(* A sorted list without repeated ids; of two entries with one id the first   *)
(* stays (a stable sort, then dedup_by).                                      *)
SortedAccess(entries) ==
  LET ids == { entries[i].id : i \in DOMAIN entries }
      before(id) == Cardinality({ other \in ids : Precedes(other, id) })
      first(id) == CHOOSE i \in DOMAIN entries :
                     entries[i].id = id /\ \A j \in 1..(i - 1) : entries[j].id # id
  IN  [i \in 1..Cardinality(ids) |-> entries[first(CHOOSE id \in ids : before(id) = i - 1)]]

Position(access, id) == (CHOOSE i \in DOMAIN access : access[i].id = id) - 1

GameTwoUserAccess(game, first_user, second_user) ==
  LET access == SortedAccess(<<Write(game), Write(first_user), Write(second_user)>>)
  IN  [ game_idx |-> Position(access, game), first_user_idx |-> Position(access, first_user),
        second_user_idx |-> Position(access, second_user), access |-> access ]

---------------------------------------------------------------------------
(* Readers take a buffer and return whether it could be read, the value and *)
(* what is left of the buffer.                                              *)

Bad == [ok |-> FALSE]
Good(value, rest) == [ok |-> TRUE, value |-> value, rest |-> rest]

NextIs(buf, width) == buf # <<>> /\ Head(buf).width = width

ReadWidth(buf, width) == IF NextIs(buf, width) THEN Good(Head(buf).value, Tail(buf)) ELSE Bad

ReadByteIn(buf, domain) ==
  IF NextIs(buf, 1) /\ Head(buf).value \in domain THEN Good(Head(buf).value, Tail(buf)) ELSE Bad

ReadResourceIdx(buf, n_resources) == ReadByteIn(buf, 0..(n_resources - 1))

DecodeLock(buf) ==
  LET tag == ReadByteIn(buf, {LockTag.Schnorr, LockTag.Unlocked})
  IN  IF ~tag.ok THEN Bad
      ELSE IF tag.value = LockTag.Unlocked THEN Good(Unlocked, tag.rest)
      ELSE ReadWidth(tag.rest, 32)

(* has_dest_lock: 0 for none, 1 when a lock follows; NoLock stands for None. *)
NoLock == <<>>

ReadDestLock(buf) ==
  LET flag == ReadByteIn(buf, {0, 1})
  IN  IF ~flag.ok THEN Bad
      ELSE IF flag.value = 0 THEN Good(NoLock, flag.rest)
      ELSE DecodeLock(flag.rest)

ReadMark(buf) ==
  LET byte == ReadByteIn(buf, {MarkByte[mark] : mark \in DOMAIN MarkByte})
  IN  IF byte.ok
      THEN Good(CHOOSE mark \in DOMAIN MarkByte : MarkByte[mark] = byte.value, byte.rest)
      ELSE Bad

ReadField(type, buf, n_resources) ==
  CASE type = "idx"       -> ReadResourceIdx(buf, n_resources)
    [] type = "u8"        -> ReadWidth(buf, 1)
    [] type = "u32"       -> ReadWidth(buf, 4)
    [] type = "u64"       -> ReadWidth(buf, 8)
    [] type = "b32"       -> ReadWidth(buf, 32)
    [] type = "spk"       -> ReadWidth(buf, 33)
    [] type = "cell"      -> ReadByteIn(buf, 0..8)
    [] type = "mark"      -> ReadMark(buf)
    [] type = "lock"      -> DecodeLock(buf)
    [] type = "dest_lock" -> ReadDestLock(buf)

ConfigFields == << <<"config_idx", "idx">>, <<"min", "u64">>, <<"ttl", "u64">>,
                   <<"covenant_id", "b32">>, <<"lock", "lock">> >>

(* ActionBody: the fields of every action, in the order decode_action reads. *)
ActionBody ==
  [ Update         |-> ConfigFields,
    Init           |-> ConfigFields,
    Transfer       |-> << <<"source_idx", "idx">>, <<"dest_idx", "idx">>, <<"amount", "u64">>,
                          <<"dest_init", "dest_lock">> >>,
    UpdateUserLock |-> << <<"user_idx", "idx">>, <<"lock", "lock">> >>,
    Deposit        |-> << <<"user_idx", "idx">>, <<"config_idx", "idx">>, <<"output_idx", "u32">>,
                          <<"lock", "lock">> >>,
    Withdraw       |-> << <<"user_idx", "idx">>, <<"config_idx", "idx">>, <<"amount", "u64">>,
                          <<"dest", "spk">> >>,
    CreateGame     |-> << <<"creator_idx", "idx">>, <<"game_idx", "idx">>, <<"stake", "u64">>,
                          <<"rounds", "u8">>, <<"mark", "mark">> >>,
    JoinGame       |-> << <<"game_idx", "idx">>, <<"joiner_idx", "idx">> >>,
    Turn           |-> << <<"game_idx", "idx">>, <<"user_idx", "idx">>, <<"cell", "cell">> >>,
    Timeout        |-> << <<"game_idx", "idx">>, <<"config_idx", "idx">> >> ]

WithField(action, name, value) ==
  [f \in DOMAIN action \cup {name} |-> IF f = name THEN value ELSE action[f]]

(* One field after another; a field that cannot be read fails the action. *)
DecodeAction(buf, n_resources) ==
  LET tag  == ReadByteIn(buf, { ActionTag[name] : name \in DOMAIN ActionTag })
      name == CHOOSE t \in DOMAIN ActionTag : ActionTag[t] = tag.value
      read(sofar, field) ==
        LET got == IF sofar.ok THEN ReadField(field[2], sofar.rest, n_resources) ELSE Bad
        IN  IF got.ok THEN Good(WithField(sofar.value, field[1], got.value), got.rest) ELSE Bad
  IN  IF tag.ok
      THEN FoldLeft(read, Good([action_tag |-> name], tag.rest), ActionBody[name])
      ELSE Bad

(* decode_signer; the witness and multisig kinds are in Auth. *)
DecodeSigner(buf, n_resources) ==
  LET idx    == ReadResourceIdx(buf, n_resources)
      kind   == IF idx.ok THEN ReadByteIn(idx.rest, { SignerTag[k] : k \in DOMAIN SignerTag })
                          ELSE Bad
      offset == IF kind.ok THEN ReadWidth(kind.rest, 4) ELSE Bad
  IN  IF offset.ok
      THEN Good([resource_idx |-> idx.value, kind |-> kind.value, sig_offset |-> offset.value],
                offset.rest)
      ELSE Bad

(* Reader::many: a u32 count, then as many entries. *)
Many(buf, Decode(_)) ==
  LET read(sofar, i) ==
        LET got == IF sofar.ok THEN Decode(sofar.rest) ELSE Bad
        IN  IF got.ok THEN Good(Append(sofar.value, got.value), got.rest) ELSE Bad
  IN  IF NextIs(buf, 4)
      THEN FoldLeft(read, Good(<<>>, Tail(buf)), [i \in 1..Head(buf).value |-> i])
      ELSE Bad

SignersAscend(signers) ==
  \A i \in 1..(Len(signers) - 1) : signers[i].resource_idx <= signers[i + 1].resource_idx

DecodeIx(ix, n_resources) ==
  LET signers == Many(ix, LAMBDA buf : DecodeSigner(buf, n_resources))
      actions == IF signers.ok /\ SignersAscend(signers.value)
                 THEN Many(signers.rest, LAMBDA buf : DecodeAction(buf, n_resources))
                 ELSE Bad
  IN  IF actions.ok
      THEN [ok |-> TRUE, signers |-> signers.value, actions |-> actions.value,
            tail |-> actions.rest]
      ELSE Bad

=============================================================================
