-------------------------------- MODULE Auth --------------------------------
(***************************************************************************)
(* Locks and signers of the guest program: how run.rs resolves the signers *)
(* of a transaction round by round, how their keys are collected in the    *)
(* buckets of AuthContext, which locks they open, and how a lock is stored *)
(* in a user or config resource and replaced there.                        *)
(*                                                                         *)
(* Ledger has single keys only, and a set for the buckets; here are the    *)
(* multisig locks, whose keys must reach the matcher together and in       *)
(* order.                                                                  *)
(***************************************************************************)
EXTENDS Integers, FiniteSets, Sequences, SequencesExt

CONSTANTS
  Config,        \* index of the config resource in the access list
  Born,          \* the lock each user resource is born with, by index
  Genesis,       \* GENESIS_PUBKEY
  NewLocks,      \* locks that UpdateUserLock, Init and Update are given
  SignerLists,   \* signers sections a transaction may carry
  Writables,     \* sets of resources a transaction may declare writable
  MaxActions,    \* bound: actions of one transaction
  MaxBalance     \* bound: a balance deposits may reach

Accounts == DOMAIN Born
Slots == Accounts \cup {Config}

VARIABLES
  store,  \* the committed resources
  work,   \* the running transaction's copy
  tx      \* the running transaction

vars == <<store, work, tx>>

---------------------------------------------------------------------------
(* runtime/lock.rs, runtime/lock_codec.rs: a lock is a tag and a body        *)

SCHNORR == 1
MULTISIG == 2
UNLOCKED == 3

Schnorr(key) == [tag |-> SCHNORR, body |-> <<key>>]
Multisig(threshold, keys) ==
  [tag |-> MULTISIG, body |-> <<threshold, Len(keys)>> \o keys]
Anyone == [tag |-> UNLOCKED, body |-> <<>>]

Ascending(keys) == \A i, j \in DOMAIN keys : i < j => keys[i] < keys[j]

(* What MultisigLockView::decode accepts, consuming the body exactly.        *)
MultisigBody(body) ==
  /\ Len(body) > 2
  /\ body[2] = Len(body) - 2
  /\ body[1] \in 1..body[2]
  /\ Ascending(SubSeq(body, 3, Len(body)))

ValidBody(tag, body) ==
  CASE tag = SCHNORR  -> Len(body) = 1
    [] tag = MULTISIG -> MultisigBody(body)
    [] tag = UNLOCKED -> body = <<>>
    [] OTHER          -> FALSE

Threshold(lock) == lock.body[1]
KeysOf(lock) == SubSeq(lock.body, 3, Len(lock.body))

(* A signer is for a resource `at`; `by` is the key that signed the payload, *)
(* or spent the output it shows.                                             *)
SignerKinds ==
  { "SchnorrSigPtr", "MultisigSchnorrSigPtr", "GenesisSchnorrSigPtr",
    "PrevTxV1Witness", "MultisigPrevTxV1Witness" }

Signers == [kind : SignerKinds, at : Slots, pubkey_idx : Nat, by : Nat]

(* decode_ix refuses a signers section whose resource indexes descend.       *)
ByResource(signers) ==
  \A i, j \in DOMAIN signers : i < j => signers[i].at <= signers[j].at

(* The indexes are of different resources, and every signers section and     *)
(* every lock an action carries has come through its decoder.                *)
ASSUME AuthAssumption ==
  /\ Config \notin Accounts
  /\ Slots \subseteq Nat
  /\ SignerLists \subseteq Seq(Signers)
  /\ \A signers \in SignerLists : ByResource(signers)
  /\ \A r \in Accounts : ValidBody(Born[r].tag, Born[r].body)
  /\ \A lock \in NewLocks : ValidBody(lock.tag, lock.body)

---------------------------------------------------------------------------
(* resources/user.rs, resources/config.rs, resources/ext.rs                  *)

Vacant == [kind |-> "None", head |-> <<>>, tag |-> 0, body |-> <<>>]

(* write_user, write_config: the fixed fields, then the lock.                *)
UserData(balance, born, lock) ==
  [kind |-> "User", head |-> <<balance, born>>, tag |-> lock.tag, body |-> lock.body]
ConfigData(lock) ==  \* its settings are Ledger's and Lane's business
  [kind |-> "Config", head |-> <<>>, tag |-> lock.tag, body |-> lock.body]

(* UserBody::from_bytes, ConfigBody::from_bytes *)
Parses(data, kind) == data.kind = kind /\ ValidBody(data.tag, data.body)

LockIn(data) == [tag |-> data.tag, body |-> data.body]
Balance(data) == data.head[1]
BirthLock(data) == data.head[2]

Writable(r) == r \in tx.writable

SetUserLockRehashed(data, lock) == UserData(Balance(data), lock, lock)

(* set_user_lock: what is not the lock is read before the resource is        *)
(* resized, and written back.                                                *)
SetUserLock(data, lock) == UserData(Balance(data), BirthLock(data), lock)

SetBalance(data, balance) == UserData(balance, BirthLock(data), LockIn(data))

---------------------------------------------------------------------------
(* runtime/signer_variants.rs, run.rs                                        *)

Gated(s) == s.kind \in {"SchnorrSigPtr", "MultisigSchnorrSigPtr"}
ForMultisig(s) == s.kind \in {"MultisigSchnorrSigPtr", "MultisigPrevTxV1Witness"}

LockBearing(r) == work[r].kind \in {"User", "Config"}

Verifies(s) ==
  LET lock == LockIn(work[s.at])
  IN  CASE s.kind = "SchnorrSigPtr" -> lock = Schnorr(s.by)
        [] s.kind = "MultisigSchnorrSigPtr" ->
             /\ lock.tag = MULTISIG
             /\ s.pubkey_idx < Len(KeysOf(lock))
             /\ KeysOf(lock)[s.pubkey_idx + 1] = s.by
        [] s.kind = "GenesisSchnorrSigPtr" -> s.by = Genesis
        [] OTHER -> TRUE

AppendContribToAnyLast(bucket, r, key) ==
  IF bucket # <<>>
  THEN [bucket EXCEPT ![Len(bucket)].keys = Append(@, key)]
  ELSE Append(bucket, [at |-> r, keys |-> <<key>>])

AppendContribNoMerge(bucket, r, key) == Append(bucket, [at |-> r, keys |-> <<key>>])

(* append_multisig_contrib looks at the last entry only.                     *)
AppendContrib(bucket, r, key) ==
  IF bucket # <<>> /\ Last(bucket).at = r
  THEN [bucket EXCEPT ![Len(bucket)].keys = Append(@, key)]
  ELSE Append(bucket, [at |-> r, keys |-> <<key>>])

ResolveOne(round, s) ==
  IF Gated(s) /\ ~LockBearing(s.at) THEN [round EXCEPT !.pending = Append(@, s)]
  ELSE IF ~Verifies(s) THEN [round EXCEPT !.ok = FALSE]
  ELSE IF ForMultisig(s) THEN [round EXCEPT !.multisig = AppendContrib(@, s.at, s.by)]
  ELSE [round EXCEPT !.schnorr = @ \cup {<<s.at, s.by>>}]

(* resolve_pending, up to its sorts. *)
Round(signers, schnorr, multisig) ==
  FoldLeft(ResolveOne,
           [ok |-> TRUE, pending |-> <<>>, schnorr |-> schnorr, multisig |-> multisig], signers)

(* sort_unstable_by_key: entries of one resource end in any order.           *)
Sorted(bucket) ==
  LET places == DOMAIN bucket
      orders == { p \in [places -> places] : Cardinality({ p[i] : i \in places }) = Len(bucket) }
  IN  { b \in { [i \in places |-> bucket[p[i]]] : p \in orders } :
          \A i, j \in places : i < j => b[i].at <= b[j].at }

---------------------------------------------------------------------------
(* LockEnum::unlock, and the matchers it dispatches to                       *)

(* One entry's keys against a multisig lock: ascending, and enough of them.  *)
Satisfies(keys, lock) ==
  /\ Ascending(keys)
  /\ Cardinality(ToSet(keys) \cap ToSet(KeysOf(lock))) >= Threshold(lock)

EntriesOf(r) == { e \in ToSet(tx.multisig) : e.at = r }

(* With two entries for one resource the matcher may come upon either.       *)
Opens(r, lock) ==
  CASE lock.tag = SCHNORR  -> <<r, lock.body[1]>> \in tx.schnorr
    [] lock.tag = MULTISIG -> \E e \in EntriesOf(r) : Satisfies(e.keys, lock)
    [] lock.tag = UNLOCKED -> TRUE

---------------------------------------------------------------------------
(* run.rs *)

Idle == [ status |-> "Idle", signers |-> <<>>, pending |-> <<>>, schnorr |-> {},
          multisig |-> <<>>, writable |-> {}, changed |-> {}, steps |-> 0 ]

Init == store = [r \in Slots |-> Vacant] /\ work = store /\ tx = Idle

(* changed: the resources whose lock this transaction wrote.                 *)
Resolves(t, status, signers) ==
  LET round == Round(signers, t.schnorr, t.multisig)
  IN  IF round.ok
      THEN \E bucket \in Sorted(round.multisig) :
             tx' = [t EXCEPT !.status = status, !.pending = round.pending,
                             !.schnorr = round.schnorr, !.multisig = bucket]
      ELSE tx' = [t EXCEPT !.status = "Failed"]

Begin(signers, writable) ==
  /\ tx.status = "Idle"
  /\ Resolves([Idle EXCEPT !.signers = signers, !.writable = writable], "Running", signers)
  /\ UNCHANGED <<store, work>>

(* Before an action, while signers are pending: an action must follow.       *)
ResolveAgain ==
  /\ tx.status = "Running"
  /\ tx.pending # <<>>
  /\ tx.steps < MaxActions
  /\ Resolves(tx, "Resolved", tx.pending)
  /\ UNCHANGED <<store, work>>

Ready ==
  /\ tx.steps < MaxActions
  /\ tx.status = "Resolved" \/ (tx.status = "Running" /\ tx.pending = <<>>)

Applies(w, changed) ==
  /\ work' = w
  /\ tx' = [tx EXCEPT !.status = "Running", !.steps = @ + 1, !.changed = @ \cup changed]
  /\ UNCHANGED store

(* An action refused, or signers still pending after the last one.           *)
Reject ==
  /\ tx.status \in {"Running", "Resolved"}
  /\ tx' = [tx EXCEPT !.status = "Failed"]
  /\ UNCHANGED <<store, work>>

Commit ==
  /\ tx.status = "Running"
  /\ tx.pending = <<>>
  /\ store' = work
  /\ tx' = Idle
  /\ UNCHANGED work

(* The framework drops what a failed transaction wrote.                      *)
Rollback ==
  /\ tx.status = "Failed"
  /\ work' = store
  /\ tx' = Idle
  /\ UNCHANGED store

---------------------------------------------------------------------------
(* action/config.rs, action/deposit.rs, action/user.rs: the locks they ask   *)
(* for and write; a deposit is of 1                                          *)

(* view_user, and the unlock of the lock it shows.                           *)
Acts(r) == Parses(work[r], "User") /\ Opens(r, LockIn(work[r]))

InitConfig(lock) ==
  /\ Ready
  /\ work[Config] = Vacant
  /\ Opens(Config, Schnorr(Genesis))
  /\ Applies([work EXCEPT ![Config] = ConfigData(lock)], {Config})

UpdateConfig(lock) ==
  /\ Ready
  /\ Parses(work[Config], "Config")
  /\ Opens(Config, LockIn(work[Config]))
  /\ Applies([work EXCEPT ![Config] = ConfigData(lock)], {Config})

Deposit(r) ==
  /\ Ready
  /\ Parses(work[Config], "Config")
  /\ Writable(r)
  /\ IF work[r] = Vacant
     THEN Applies([work EXCEPT ![r] = UserData(1, Born[r], Born[r])], {r})
     ELSE /\ Balance(work[r]) < MaxBalance
          /\ Applies([work EXCEPT ![r] = SetBalance(@, Balance(@) + 1)], {})

Transfer(source, dest) ==
  /\ Ready
  /\ source # dest
  /\ Acts(source)
  /\ Writable(source) /\ Writable(dest)
  /\ Balance(work[source]) >= 1
  /\ LET debited == [work EXCEPT ![source] = SetBalance(@, Balance(@) - 1)]
     IN  IF work[dest] = Vacant
         THEN Applies([debited EXCEPT ![dest] = UserData(1, Born[dest], Born[dest])], {dest})
         ELSE /\ Balance(work[dest]) < MaxBalance
              /\ Applies([debited EXCEPT ![dest] = SetBalance(@, Balance(@) + 1)], {})

UpdateUserLock(r, lock) ==
  /\ Ready
  /\ Acts(r)
  /\ Writable(r)
  /\ Applies([work EXCEPT ![r] = SetUserLock(@, lock)], {r})

Next ==
  \/ \E signers \in SignerLists, writable \in Writables : Begin(signers, writable)
  \/ ResolveAgain \/ Reject \/ Commit \/ Rollback
  \/ \E lock \in NewLocks : InitConfig(lock) \/ UpdateConfig(lock)
  \/ \E r \in Accounts : Deposit(r) \/ \E lock \in NewLocks : UpdateUserLock(r, lock)
  \/ \E source, dest \in Accounts : Transfer(source, dest)

Spec == Init /\ [][Next]_vars

---------------------------------------------------------------------------
(* Properties *)

(* The keys that really signed for r.                                        *)
Signed(r, multisig) ==
  { s.by : s \in { x \in ToSet(tx.signers) : x.at = r /\ ForMultisig(x) = multisig } }

SignedFor(r, lock) ==
  CASE lock.tag = SCHNORR  -> lock.body[1] \in Signed(r, FALSE)
    [] lock.tag = MULTISIG -> Cardinality(Signed(r, TRUE) \cap ToSet(KeysOf(lock)))
                                >= Threshold(lock)
    [] lock.tag = UNLOCKED -> TRUE

(* Whoever lowers a balance or replaces a lock was authorized for that very  *)
(* resource by its lock of the moment: enough of the lock's own keys signed  *)
(* for it, however the signers were spread over the rounds and collected in  *)
(* the buckets (run.rs, LockEnum::unlock).                                   *)
UnlockIsSigned ==
  [][ \A r \in Slots :
        ( /\ tx.status \in {"Running", "Resolved"}
          /\ work[r] # Vacant
          /\ LockIn(work'[r]) # LockIn(work[r])
              \/ (r \in Accounts /\ Balance(work'[r]) < Balance(work[r])) )
        => SignedFor(r, LockIn(work[r])) ]_vars

(* The keys that sign for r's multisig lock, in the order of the wire.       *)
SignsFor(s, r) == s.at = r /\ ForMultisig(s)

SignedInOrder(signers, r) ==
  LET upTo[n \in 0..Len(signers)] ==
        IF n = 0 THEN <<>>
        ELSE IF SignsFor(signers[n], r) THEN Append(upTo[n - 1], signers[n].by)
        ELSE upTo[n - 1]
  IN  upTo[Len(signers)]

Mixed(r) == \E s, t \in ToSet(tx.signers) : s.at = r /\ t.at = r /\ Gated(s) /\ ~Gated(t)

(* A multisig lock that was there before the transaction opens to the keys   *)
(* that signed for it in the order it asks for, and so does that of a user   *)
(* the transaction creates, unless pointers and witnesses sign for it        *)
(* together: those resolve in different rounds (append_multisig_contrib).    *)
SignersSuffice ==
  \A r \in Slots :
    LET lock == LockIn(work[r])
    IN  ( /\ tx.status \in {"Running", "Resolved"}
          /\ lock.tag = MULTISIG
          /\ Satisfies(SignedInOrder(tx.signers, r), lock)
          /\ \A s \in ToSet(tx.pending) : s.at # r
          /\ r \in tx.changed => (store[r] = Vacant /\ ~Mixed(r)) )
        => EntriesOf(r) # {} /\ \A e \in EntriesOf(r) : Satisfies(e.keys, lock)

(* A committed resource parses as what its address says, its lock can be     *)
(* opened, and a user keeps the birth lock its address is derived from,      *)
(* through any number of rotations and whatever their order (set_user_lock). *)
SlotsStayAddressed ==
  \A r \in Slots : store[r] # Vacant =>
    IF r = Config THEN Parses(store[r], "Config")
    ELSE Parses(store[r], "User") /\ BirthLock(store[r]) = Born[r]

=============================================================================
