----------------------------- MODULE AuthProofs -----------------------------
(* What the resources that hold locks keep through every transaction, for   *)
(* every access list, every set of locks and every list of signers.         *)
EXTENDS Auth, FoldProofs

(* A user resource at r: its lock parses, and its birth lock is the one its *)
(* address was derived from.                                                *)
UserAt(r, data) ==
  Parses(data, "User") /\ BirthLock(data) = Born[r] /\ Balance(data) \in Nat

InPlace(r, data) ==
  data # Vacant => IF r = Config THEN Parses(data, "Config") ELSE UserAt(r, data)

(* The running transaction's copy is in place as well: it is what Commit    *)
(* stores.                                                                  *)
AuthInv ==
  /\ DOMAIN store = Slots /\ DOMAIN work = Slots
  /\ \A r \in Slots : InPlace(r, store[r]) /\ InPlace(r, work[r])

---------------------------------------------------------------------------
(* What is written *)

LEMMA BornUser ==
  ASSUME NEW r \in Accounts, NEW balance \in Nat
  PROVE  UserAt(r, UserData(balance, Born[r], Born[r]))
BY AuthAssumption DEF UserAt, UserData, Parses, BirthLock, Balance

LEMMA BalanceKeepsLock ==
  ASSUME NEW r, NEW data, UserAt(r, data), NEW balance \in Nat
  PROVE  /\ UserAt(r, SetBalance(data, balance))
         /\ Balance(SetBalance(data, balance)) = balance
         /\ LockIn(SetBalance(data, balance)) = LockIn(data)
BY DEF UserAt, SetBalance, UserData, LockIn, Parses, BirthLock, Balance

LEMMA RotationKeepsBirthLock ==
  ASSUME NEW r, NEW data, UserAt(r, data), NEW lock \in NewLocks
  PROVE  UserAt(r, SetUserLock(data, lock))
BY AuthAssumption DEF UserAt, SetUserLock, UserData, Parses, BirthLock, Balance

LEMMA ConfigParses ==
  ASSUME NEW lock \in NewLocks
  PROVE  Parses(ConfigData(lock), "Config")
BY AuthAssumption DEF ConfigData, Parses

(* A user resource that is there was born at its address. *)
LEMMA UserThere ==
  ASSUME NEW r \in Accounts, NEW data, InPlace(r, data), data # Vacant
  PROVE  UserAt(r, data)
BY AuthAssumption DEF InPlace

(* One resource is written, and what is written belongs there. *)
LEMMA WriteInPlace ==
  ASSUME NEW w, DOMAIN w = Slots, \A r \in Slots : InPlace(r, w[r]),
         NEW at \in Slots, NEW data, InPlace(at, data),
         NEW v, v = [w EXCEPT ![at] = data]
  PROVE  DOMAIN v = Slots /\ \A r \in Slots : InPlace(r, v[r])
<1>1. \A r \in Slots : v[r] = IF r = at THEN data ELSE w[r]
  OBVIOUS
<1> QED BY <1>1

(* A user who acts is there: no vacant resource parses. *)
LEMMA ActorThere ==
  ASSUME AuthInv, NEW r \in Accounts, Acts(r)
  PROVE  UserAt(r, work[r])
BY UserThere DEF Acts, Parses, Vacant, AuthInv, Slots

---------------------------------------------------------------------------
(* The steps *)

LEMMA AuthInit == Init => AuthInv
BY DEF Init, AuthInv, InPlace

LEMMA AppliesKeeps ==
  ASSUME AuthInv, NEW w, NEW changed, Applies(w, changed),
         DOMAIN w = Slots, \A r \in Slots : InPlace(r, w[r])
  PROVE  AuthInv'
BY DEF AuthInv, Applies, InPlace

LEMMA ConfigStep ==
  ASSUME AuthInv, NEW lock \in NewLocks, InitConfig(lock) \/ UpdateConfig(lock)
  PROVE  AuthInv'
<1> DEFINE w == [work EXCEPT ![Config] = ConfigData(lock)]
<1>1. Applies(w, {Config})
  BY DEF InitConfig, UpdateConfig
<1>2. Config \in Slots /\ InPlace(Config, ConfigData(lock))
  BY ConfigParses DEF Slots, InPlace
<1>3. DOMAIN w = Slots /\ \A r \in Slots : InPlace(r, w[r])
  BY <1>2, WriteInPlace DEF AuthInv
<1> QED BY <1>1, <1>3, AppliesKeeps

LEMMA DepositStep ==
  ASSUME AuthInv, NEW at \in Accounts, Deposit(at)
  PROVE  AuthInv'
<1>1. at \in Slots /\ at # Config
  BY AuthAssumption DEF Slots
<1>2. CASE work[at] = Vacant
  <2> DEFINE w == [work EXCEPT ![at] = UserData(1, Born[at], Born[at])]
  <2>1. Applies(w, {at})
    BY <1>2 DEF Deposit
  <2>2. InPlace(at, UserData(1, Born[at], Born[at]))
    BY <1>1, BornUser DEF InPlace
  <2>3. DOMAIN w = Slots /\ \A r \in Slots : InPlace(r, w[r])
    BY <1>1, <2>2, WriteInPlace DEF AuthInv
  <2> QED BY <2>1, <2>3, AppliesKeeps
<1>3. CASE work[at] # Vacant
  <2> DEFINE data == SetBalance(work[at], Balance(work[at]) + 1)
             w == [work EXCEPT ![at] = data]
  <2>1. Applies(w, {})
    BY <1>3 DEF Deposit
  <2>2. UserAt(at, work[at])
    BY <1>1, <1>3, UserThere DEF AuthInv
  <2>3. InPlace(at, data)
    <3>1. Balance(work[at]) + 1 \in Nat
      BY <2>2 DEF UserAt
    <3> QED BY <1>1, <2>2, <3>1, BalanceKeepsLock DEF InPlace
  <2>4. DOMAIN w = Slots /\ \A r \in Slots : InPlace(r, w[r])
    BY <1>1, <2>3, WriteInPlace DEF AuthInv
  <2> QED BY <2>1, <2>4, AppliesKeeps
<1> QED BY <1>2, <1>3

LEMMA TransferStep ==
  ASSUME AuthInv, NEW source \in Accounts, NEW dest \in Accounts, Transfer(source, dest)
  PROVE  AuthInv'
<1> DEFINE paid == SetBalance(work[source], Balance(work[source]) - 1)
           debited == [work EXCEPT ![source] = paid]
<1>1. /\ source \in Slots /\ dest \in Slots /\ source # dest
      /\ source # Config /\ dest # Config /\ Acts(source)
  BY AuthAssumption DEF Slots, Transfer
<1>2. InPlace(source, paid)
  <2>1. UserAt(source, work[source])
    BY <1>1, ActorThere
  <2>2. Balance(work[source]) - 1 \in Nat
    BY <2>1 DEF Transfer, UserAt
  <2> QED BY <1>1, <2>1, <2>2, BalanceKeepsLock DEF InPlace
<1>3. DOMAIN debited = Slots /\ \A r \in Slots : InPlace(r, debited[r])
  BY <1>1, <1>2, WriteInPlace DEF AuthInv
<1>4. debited[dest] = work[dest]
  BY <1>1 DEF AuthInv
<1>5. CASE work[dest] = Vacant
  <2> DEFINE w == [debited EXCEPT ![dest] = UserData(1, Born[dest], Born[dest])]
  <2>1. Applies(w, {dest})
    BY <1>5 DEF Transfer
  <2>2. InPlace(dest, UserData(1, Born[dest], Born[dest]))
    BY <1>1, BornUser DEF InPlace
  <2> HIDE DEF debited
  <2>3. DOMAIN w = Slots /\ \A r \in Slots : InPlace(r, w[r])
    BY <1>1, <1>3, <2>2, WriteInPlace
  <2> QED BY <2>1, <2>3, AppliesKeeps
<1>6. CASE work[dest] # Vacant
  <2> DEFINE data == SetBalance(work[dest], Balance(work[dest]) + 1)
             w == [debited EXCEPT ![dest] = data]
  <2>1. Applies([debited EXCEPT ![dest] = SetBalance(@, Balance(@) + 1)], {})
    BY <1>6 DEF Transfer
  <2> HIDE DEF debited
  <2>2. [debited EXCEPT ![dest] = SetBalance(@, Balance(@) + 1)] = w
    BY <1>4
  <2>3. UserAt(dest, work[dest])
    BY <1>1, <1>6, UserThere DEF AuthInv
  <2>4. InPlace(dest, data)
    <3>1. Balance(work[dest]) + 1 \in Nat
      BY <2>3 DEF UserAt
    <3> QED BY <1>1, <2>3, <3>1, BalanceKeepsLock DEF InPlace
  <2> HIDE DEF data
  <2>5. DOMAIN w = Slots /\ \A r \in Slots : InPlace(r, w[r])
    BY <1>1, <1>3, <2>4, WriteInPlace
  <2> QED BY <2>1, <2>2, <2>5, AppliesKeeps
<1> QED BY <1>5, <1>6

LEMMA UpdateUserLockStep ==
  ASSUME AuthInv, NEW at \in Accounts, NEW lock \in NewLocks, UpdateUserLock(at, lock)
  PROVE  AuthInv'
<1> DEFINE data == SetUserLock(work[at], lock)
           w == [work EXCEPT ![at] = data]
<1>1. Applies(w, {at}) /\ Acts(at)
  BY DEF UpdateUserLock
<1>2. at \in Slots /\ at # Config
  BY AuthAssumption DEF Slots
<1>3. InPlace(at, data)
  BY <1>1, <1>2, ActorThere, RotationKeepsBirthLock DEF InPlace
<1>4. DOMAIN w = Slots /\ \A r \in Slots : InPlace(r, w[r])
  BY <1>2, <1>3, WriteInPlace DEF AuthInv
<1> QED BY <1>1, <1>4, AppliesKeeps

(* A step of run.rs between the actions moves whole copies only. *)
LEMMA RunStep ==
  ASSUME AuthInv,
         \/ UNCHANGED <<store, work>>
         \/ Commit
         \/ Rollback
  PROVE  AuthInv'
BY DEF AuthInv, Commit, Rollback, InPlace

LEMMA AuthNext == AuthInv /\ [Next]_vars => AuthInv'
<1> SUFFICES ASSUME AuthInv, [Next]_vars PROVE AuthInv'
  OBVIOUS
<1>1. ASSUME NEW signers \in SignerLists, NEW writable \in Writables, Begin(signers, writable)
      PROVE  AuthInv'
  BY <1>1, RunStep DEF Begin
<1>2. CASE ResolveAgain \/ Reject
  BY <1>2, RunStep DEF ResolveAgain, Reject
<1>3. CASE UNCHANGED vars
  BY <1>3, RunStep DEF vars
<1> QED
  BY <1>1, <1>2, <1>3, RunStep, ConfigStep, DepositStep, TransferStep, UpdateUserLockStep DEF Next

(* A user keeps the birth lock its address is derived from, and its lock    *)
(* and the config's can be read back, through any number of rotations       *)
(* (set_user_lock, UserBody::from_bytes, ConfigBody::from_bytes).           *)
THEOREM AuthSlots == Spec => []SlotsStayAddressed
<1>1. AuthInv => SlotsStayAddressed
  BY DEF AuthInv, InPlace, UserAt, SlotsStayAddressed
<1>2. Spec => []AuthInv
  BY AuthInit, AuthNext, PTL DEF Spec
<1> QED BY <1>1, <1>2, PTL

---------------------------------------------------------------------------
(* Rounds of signers (resolve_pending) *)

LEMMA MaxIn ==
  ASSUME NEW n \in Nat, NEW T, T \subseteq 1..n, T # {}
  PROVE  Max(T) \in T
<1> DEFINE Below == {n - t : t \in T}
<1>1. Below \subseteq Nat /\ Below # {}
  <2>1. \A t \in T : n - t \in Nat
    OBVIOUS
  <2> QED BY <2>1
<1> HIDE DEF Below
<1>2. PICK b \in Below : \A c \in Below : b <= c
  BY <1>1, LeastNat
<1>3. PICK t \in T : b = n - t
  BY DEF Below
<1>4. \A u \in T : t >= u
  <2> TAKE u \in T
  <2>1. n - u \in Below
    BY DEF Below
  <2>2. b <= n - u
    BY <1>2, <2>1
  <2>3. u \in Int /\ t \in Int
    OBVIOUS
  <2> QED BY <1>3, <2>2, <2>3
<1> QED BY <1>4 DEF Max

Begun(schnorr, multisig) ==
  [ok |-> TRUE, pending |-> <<>>, schnorr |-> schnorr, multisig |-> multisig]

RoundOf(it, base, s, T) == IF T = {} THEN base ELSE ResolveOne(it[T \ {Max(T)}], s[Max(T)])

(* it[T] is what the round makes of the signers at the positions T of s.    *)
Resolution(it, base, s) == it = [T \in SUBSET (DOMAIN s) |-> RoundOf(it, base, s, T)]

LEMMA RoundIsChosen ==
  ASSUME NEW s, NEW schnorr, NEW multisig
  PROVE  Round(s, schnorr, multisig) =
           (CHOOSE it : Resolution(it, Begun(schnorr, multisig), s))[DOMAIN s]
BY DEF Round, FoldLeft, MapThenFoldSet, Resolution, RoundOf, Begun

LEMMA ResolutionExists ==
  ASSUME NEW s \in Seq(Signers), NEW base
  PROVE  \E it : Resolution(it, base, s)
<1> DEFINE D == DOMAIN s
           Good == {n \in Nat : \E it : it = [T \in UpTo(D, n) |-> RoundOf(it, base, s, T)]}
<1>1. D = 1..Len(s) /\ Len(s) \in Nat
  OBVIOUS
<1>2. IsFiniteSet(D) /\ \A T \in SUBSET D : IsFiniteSet(T) /\ Cardinality(T) \in Nat
  <2>1. IsFiniteSet(1..Len(s))
    BY <1>1, FS_Interval
  <2> QED BY <1>1, <2>1, FS_Subset, FS_CardinalityType
<1> HIDE DEF D
<1>3. \A T \in SUBSET D : T # {} => Cardinality(T \ {Max(T)}) = Cardinality(T) - 1
  BY <1>1, <1>2, MaxIn, FS_RemoveElement
<1>4. 0 \in Good
  <2> DEFINE it == [T \in UpTo(D, 0) |-> base]
  <2>1. \A T \in UpTo(D, 0) : T = {}
    BY <1>2, FS_EmptySet DEF UpTo
  <2>2. it = [T \in UpTo(D, 0) |-> RoundOf(it, base, s, T)]
    BY <2>1 DEF RoundOf
  <2> QED BY <2>2
<1>5. ASSUME NEW n \in Nat, n \in Good PROVE n + 1 \in Good
  <2>1. PICK it : it = [T \in UpTo(D, n) |-> RoundOf(it, base, s, T)]
    BY <1>5
  <2> DEFINE next == [T \in UpTo(D, n + 1) |-> RoundOf(it, base, s, T)]
  <2>2. ASSUME NEW T \in UpTo(D, n + 1), T # {}
        PROVE  next[T \ {Max(T)}] = it[T \ {Max(T)}]
    <3>1. T \ {Max(T)} \in UpTo(D, n) /\ T \ {Max(T)} \in UpTo(D, n + 1)
      BY <1>2, <1>3, <2>2 DEF UpTo
    <3>2. it[T \ {Max(T)}] = RoundOf(it, base, s, T \ {Max(T)})
      BY <2>1, <3>1
    <3> QED BY <3>1, <3>2
  <2>3. \A T \in UpTo(D, n + 1) : RoundOf(next, base, s, T) = RoundOf(it, base, s, T)
    <3> HIDE DEF next
    <3> QED BY <2>2 DEF RoundOf
  <2>4. next = [T \in UpTo(D, n + 1) |-> RoundOf(next, base, s, T)]
    BY <2>3
  <2> HIDE DEF next
  <2>5. \E f : f = [T \in UpTo(D, n + 1) |-> RoundOf(f, base, s, T)]
    BY <2>4
  <2> QED BY <2>5
<1>6. Cardinality(D) \in Good
  <2> HIDE DEF Good
  <2> QED BY <1>2, <1>4, <1>5, NatSetInduction
<1>7. UpTo(D, Cardinality(D)) = SUBSET D
  BY <1>2, FS_Subset DEF UpTo
<1> QED BY <1>6, <1>7 DEF Resolution, D

Entries == [at : Slots, keys : Seq(Nat)]

Rounds == [ ok : BOOLEAN, pending : Seq(Signers), schnorr : SUBSET (Slots \X Nat),
            multisig : Seq(Entries) ]

(* Whatever is in the buckets, one of the signers S brought it. *)
SingleBacked(schnorr, S) ==
  \A p \in schnorr : \E s \in S : ~ForMultisig(s) /\ p = <<s.at, s.by>>

EntryBacked(e, S) ==
  \A k \in DOMAIN e.keys : \E s \in S : ForMultisig(s) /\ s.at = e.at /\ s.by = e.keys[k]

BucketBacked(bucket, S) == \A i \in DOMAIN bucket : EntryBacked(bucket[i], S)

RoundBacked(round, S) ==
  /\ round \in Rounds
  /\ \A i \in DOMAIN round.pending : round.pending[i] \in S
  /\ SingleBacked(round.schnorr, S)
  /\ BucketBacked(round.multisig, S)

LEMMA AppendBacked ==
  ASSUME NEW S, S \subseteq Signers, NEW bucket \in Seq(Entries), BucketBacked(bucket, S),
         NEW s \in S, ForMultisig(s)
  PROVE  /\ AppendContrib(bucket, s.at, s.by) \in Seq(Entries)
         /\ BucketBacked(AppendContrib(bucket, s.at, s.by), S)
<1>1. s.at \in Slots /\ s.by \in Nat
  BY DEF Signers
<1>2. CASE bucket # <<>> /\ Last(bucket).at = s.at
  <2> DEFINE n == Len(bucket)
             e == bucket[n]
             more == [e EXCEPT !.keys = Append(@, s.by)]
  <2>1. n \in 1..Len(bucket) /\ e \in Entries /\ e.at = s.at /\ EntryBacked(e, S)
    BY <1>2 DEF Last, BucketBacked
  <2> HIDE DEF e
  <2>2. more \in Entries /\ more.at = e.at /\ more.keys = Append(e.keys, s.by)
    <3>1. e.keys \in Seq(Nat)
      BY <2>1 DEF Entries
    <3>2. Append(e.keys, s.by) \in Seq(Nat)
      BY <1>1, <3>1
    <3> QED BY <2>1, <3>2 DEF Entries
  <2>3. EntryBacked(more, S)
    <3>1. e.keys \in Seq(Nat)
      BY <2>1 DEF Entries
    <3> QED BY <1>1, <2>1, <2>2, <3>1 DEF EntryBacked
  <2>4. AppendContrib(bucket, s.at, s.by) = [bucket EXCEPT ![n] = more]
    BY <1>2, <2>1 DEF AppendContrib, e
  <2> HIDE DEF more
  <2>5. [bucket EXCEPT ![n] = more] \in Seq(Entries)
    BY <2>1, <2>2
  <2>6. BucketBacked([bucket EXCEPT ![n] = more], S)
    BY <2>1, <2>3 DEF BucketBacked, e
  <2> QED BY <2>4, <2>5, <2>6
<1>3. CASE ~(bucket # <<>> /\ Last(bucket).at = s.at)
  <2> DEFINE e == [at |-> s.at, keys |-> <<s.by>>]
  <2>1. AppendContrib(bucket, s.at, s.by) = Append(bucket, e)
    BY <1>3 DEF AppendContrib
  <2>2. e \in Entries /\ EntryBacked(e, S)
    BY <1>1 DEF Entries, EntryBacked
  <2> HIDE DEF e
  <2> QED BY <2>1, <2>2 DEF BucketBacked
<1> QED BY <1>2, <1>3

LEMMA ResolveOneBacked ==
  ASSUME NEW S, S \subseteq Signers, NEW round, RoundBacked(round, S), NEW s \in S
  PROVE  RoundBacked(ResolveOne(round, s), S)
<1>1. /\ round.ok \in BOOLEAN /\ round.pending \in Seq(Signers)
      /\ round.schnorr \in SUBSET (Slots \X Nat) /\ round.multisig \in Seq(Entries)
      /\ round \in Rounds /\ s \in Signers /\ s.at \in Slots /\ s.by \in Nat
  BY DEF RoundBacked, Rounds, Signers
<1>2. CASE Gated(s) /\ ~LockBearing(s.at)
  <2> DEFINE more == Append(round.pending, s)
  <2>1. ResolveOne(round, s) = [round EXCEPT !.pending = more]
    BY <1>2 DEF ResolveOne
  <2>2. more \in Seq(Signers) /\ \A i \in DOMAIN more : more[i] \in S
    BY <1>1 DEF RoundBacked
  <2> HIDE DEF more
  <2> QED BY <1>1, <2>1, <2>2 DEF RoundBacked, Rounds
<1>3. CASE ~(Gated(s) /\ ~LockBearing(s.at)) /\ ~Verifies(s)
  <2>1. ResolveOne(round, s) = [round EXCEPT !.ok = FALSE]
    BY <1>3 DEF ResolveOne
  <2> QED BY <1>1, <2>1 DEF RoundBacked, Rounds
<1>4. CASE ~(Gated(s) /\ ~LockBearing(s.at)) /\ Verifies(s) /\ ForMultisig(s)
  <2> DEFINE more == AppendContrib(round.multisig, s.at, s.by)
  <2>1. ResolveOne(round, s) = [round EXCEPT !.multisig = more]
    BY <1>4 DEF ResolveOne
  <2>2. more \in Seq(Entries) /\ BucketBacked(more, S)
    BY <1>1, <1>4, AppendBacked DEF RoundBacked
  <2> HIDE DEF more
  <2> QED BY <1>1, <2>1, <2>2 DEF RoundBacked, Rounds
<1>5. CASE ~(Gated(s) /\ ~LockBearing(s.at)) /\ Verifies(s) /\ ~ForMultisig(s)
  <2> DEFINE more == round.schnorr \cup {<<s.at, s.by>>}
  <2>1. ResolveOne(round, s) = [round EXCEPT !.schnorr = more]
    BY <1>5 DEF ResolveOne
  <2>2. more \in SUBSET (Slots \X Nat) /\ SingleBacked(more, S)
    BY <1>1, <1>5 DEF RoundBacked, SingleBacked
  <2> HIDE DEF more
  <2> QED BY <1>1, <2>1, <2>2 DEF RoundBacked, Rounds
<1> QED BY <1>2, <1>3, <1>4, <1>5

(* The signers are taken one by one, in the order of the wire. *)
OneByOne(f, s, base) == f[0] = base /\ \A n \in 1..Len(s) : f[n] = ResolveOne(f[n - 1], s[n])

LEMMA RoundTakes ==
  ASSUME NEW s \in Seq(Signers), NEW schnorr, NEW multisig
  PROVE  \E f : /\ OneByOne(f, s, Begun(schnorr, multisig))
                /\ Round(s, schnorr, multisig) = f[Len(s)]
<1> DEFINE base == Begun(schnorr, multisig)
           it == CHOOSE f : Resolution(f, base, s)
           f == [n \in 0..Len(s) |-> it[1..n]]
<1>1. Resolution(it, base, s)
  BY ResolutionExists
<1>2. Round(s, schnorr, multisig) = it[DOMAIN s]
  BY RoundIsChosen
<1>3. DOMAIN s = 1..Len(s) /\ Len(s) \in Nat
  OBVIOUS
<1>4. \A T \in SUBSET (1..Len(s)) : it[T] = RoundOf(it, base, s, T)
  BY <1>1, <1>3 DEF Resolution
<1> HIDE DEF it, base
<1>5. f[0] = base
  <2>1. 1..0 = {} /\ 1..0 \in SUBSET (1..Len(s))
    OBVIOUS
  <2>2. f[0] = it[1..0]
    BY <1>3
  <2> QED BY <1>4, <2>1, <2>2 DEF RoundOf
<1>6. ASSUME NEW n \in 1..Len(s) PROVE f[n] = ResolveOne(f[n - 1], s[n])
  <2>1. 1..n \in SUBSET (1..Len(s)) /\ 1..n # {} /\ n \in 1..n
    <3>1. n \in Nat /\ 1 <= n /\ n <= Len(s)
      BY <1>3
    <3>2. n \in 1..n /\ \A k \in 1..n : k \in 1..Len(s)
      BY ONLY <1>3, <3>1
    <3> QED BY <3>2
  <2>2. Max(1..n) = n
    <3>1. \A m \in 1..n : n >= m
      OBVIOUS
    <3>2. \A m \in 1..n : (\A k \in 1..n : m >= k) => m = n
      BY <2>1
    <3> QED BY <2>1, <3>1, <3>2 DEF Max
  <2>3. (1..n) \ {n} = 1..(n - 1)
    OBVIOUS
  <2>4. f[n] = it[1..n] /\ f[n - 1] = it[1..(n - 1)]
    BY <1>3
  <2> HIDE DEF f
  <2> QED BY <1>4, <2>1, <2>2, <2>3, <2>4 DEF RoundOf
<1>7. f[Len(s)] = it[DOMAIN s]
  BY <1>3
<1> HIDE DEF f
<1> QED BY <1>2, <1>5, <1>6, <1>7 DEF base, OneByOne

(* A whole round, from buckets that were backed. *)
LEMMA RoundStaysBacked ==
  ASSUME NEW S, S \subseteq Signers, NEW s \in Seq(Signers), \A i \in DOMAIN s : s[i] \in S,
         NEW base, RoundBacked(base, S), NEW f, OneByOne(f, s, base)
  PROVE  \A n \in 0..Len(s) : RoundBacked(f[n], S)
<1> DEFINE Good == {n \in Nat : n <= Len(s) => RoundBacked(f[n], S)}
<1>1. Len(s) \in Nat /\ \A n \in 1..Len(s) : s[n] \in S
  OBVIOUS
<1>2. 0 \in Good
  BY DEF OneByOne
<1>3. ASSUME NEW n \in Nat, n \in Good, n + 1 <= Len(s) PROVE RoundBacked(f[n + 1], S)
  <2>1. RoundBacked(f[n], S) /\ n + 1 \in 1..Len(s) /\ (n + 1) - 1 = n
    BY <1>1, <1>3
  <2>2. f[n + 1] = ResolveOne(f[n], s[n + 1])
    BY <2>1 DEF OneByOne
  <2>3. s[n + 1] \in S
    BY <1>1, <2>1
  <2> QED BY <2>1, <2>2, <2>3, ResolveOneBacked
<1>4. \A n \in Nat : n \in Good
  <2>1. \A n \in Nat : n \in Good => n + 1 \in Good
    BY <1>3
  <2> HIDE DEF Good
  <2> QED BY <1>2, <2>1, NatSetInduction
<1> QED BY <1>1, <1>4

LEMMA BegunBacked ==
  ASSUME NEW S, NEW schnorr \in SUBSET (Slots \X Nat), SingleBacked(schnorr, S),
         NEW multisig \in Seq(Entries), BucketBacked(multisig, S)
  PROVE  RoundBacked(Begun(schnorr, multisig), S)
BY DEF Begun, RoundBacked, Rounds

---------------------------------------------------------------------------
(* Whatever opens a lock was signed *)

Txs == [ status : {"Idle", "Running", "Resolved", "Failed"}, signers : Seq(Signers),
         pending : Seq(Signers), schnorr : SUBSET (Slots \X Nat), multisig : Seq(Entries),
         writable : Writables \cup {{}}, changed : SUBSET Slots, steps : Nat ]

TxBacked(t) ==
  /\ t \in Txs
  /\ \A i \in DOMAIN t.pending : t.pending[i] \in ToSet(t.signers)
  /\ SingleBacked(t.schnorr, ToSet(t.signers))
  /\ BucketBacked(t.multisig, ToSet(t.signers))

SignedInv == AuthInv /\ TxBacked(tx)

LEMMA SortedBacked ==
  ASSUME NEW S, NEW bucket \in Seq(Entries), BucketBacked(bucket, S), NEW b \in Sorted(bucket)
  PROVE  b \in Seq(Entries) /\ BucketBacked(b, S)
<1> DEFINE places == DOMAIN bucket
<1>1. PICK p \in [places -> places] : b = [i \in places |-> bucket[p[i]]]
  BY DEF Sorted
<1>2. places = 1..Len(bucket) /\ Len(bucket) \in Nat
  OBVIOUS
<1>3. \A i \in places : b[i] \in Entries /\ EntryBacked(b[i], S)
  BY <1>1 DEF BucketBacked
<1>4. b = [i \in 1..Len(bucket) |-> b[i]]
  BY <1>1, <1>2
<1> HIDE DEF places
<1>5. b \in Seq(Entries)
  BY <1>2, <1>3, <1>4
<1> QED BY <1>1, <1>3, <1>5 DEF BucketBacked

LEMMA ResolvesBacked ==
  ASSUME NEW t, TxBacked(t), NEW status \in {"Running", "Resolved"},
         NEW s \in Seq(Signers), \A i \in DOMAIN s : s[i] \in ToSet(t.signers),
         Resolves(t, status, s)
  PROVE  TxBacked(tx')
<1> DEFINE round == Round(s, t.schnorr, t.multisig)
           S == ToSet(t.signers)
<1>1. t \in Txs /\ S \subseteq Signers
  BY DEF TxBacked, Txs, ToSet
<1>2. /\ t.schnorr \in SUBSET (Slots \X Nat) /\ SingleBacked(t.schnorr, S)
      /\ t.multisig \in Seq(Entries) /\ BucketBacked(t.multisig, S)
  BY <1>1 DEF TxBacked, Txs
<1> HIDE DEF S
<1>3. RoundBacked(round, S)
  <2>1. PICK f : OneByOne(f, s, Begun(t.schnorr, t.multisig)) /\ round = f[Len(s)]
    BY RoundTakes
  <2>2. RoundBacked(Begun(t.schnorr, t.multisig), S)
    BY <1>2, BegunBacked
  <2>3. \A i \in DOMAIN s : s[i] \in S
    BY DEF S
  <2> HIDE DEF round
  <2>4. \A n \in 0..Len(s) : RoundBacked(f[n], S)
    BY <1>1, <2>1, <2>2, <2>3, RoundStaysBacked
  <2>5. Len(s) \in 0..Len(s)
    OBVIOUS
  <2> QED BY <2>1, <2>4, <2>5
<1> HIDE DEF round
<1>4. CASE ~round.ok
  <2>1. tx' = [t EXCEPT !.status = "Failed"]
    BY <1>4 DEF Resolves, round
  <2> QED BY <1>1, <2>1 DEF TxBacked, Txs
<1>5. CASE round.ok
  <2>1. PICK bucket \in Sorted(round.multisig) :
          tx' = [t EXCEPT !.status = status, !.pending = round.pending,
                          !.schnorr = round.schnorr, !.multisig = bucket]
    BY <1>5 DEF Resolves, round
  <2>2. bucket \in Seq(Entries) /\ BucketBacked(bucket, S)
    BY <1>3, SortedBacked DEF RoundBacked, Rounds
  <2>3. /\ round.pending \in Seq(Signers) /\ round.schnorr \in SUBSET (Slots \X Nat)
        /\ \A i \in DOMAIN round.pending : round.pending[i] \in S
        /\ SingleBacked(round.schnorr, S)
    BY <1>3 DEF RoundBacked, Rounds
  <2>4. /\ tx' \in Txs /\ tx'.signers = t.signers /\ tx'.pending = round.pending
        /\ tx'.schnorr = round.schnorr /\ tx'.multisig = bucket
    BY <1>1, <2>1, <2>2, <2>3 DEF Txs
  <2> QED BY <2>2, <2>3, <2>4 DEF TxBacked, S
<1> QED BY <1>4, <1>5

LEMMA IdleBacked == TxBacked(Idle)
<1>1. Idle \in Txs
  BY DEF Idle, Txs
<1> QED BY <1>1 DEF TxBacked, Idle, SingleBacked, BucketBacked

LEMMA AppliesBacked ==
  ASSUME TxBacked(tx), NEW w, NEW changed \in SUBSET Slots, Applies(w, changed)
  PROVE  TxBacked(tx')
<1>1. tx.steps + 1 \in Nat /\ tx.changed \cup changed \in SUBSET Slots
  BY DEF TxBacked, Txs
<1>2. /\ tx' \in Txs /\ tx'.signers = tx.signers /\ tx'.pending = tx.pending
      /\ tx'.schnorr = tx.schnorr /\ tx'.multisig = tx.multisig
  BY <1>1 DEF Applies, TxBacked, Txs
<1> QED BY <1>2 DEF TxBacked

LEMMA SignedInit == Init => SignedInv
BY AuthInit, IdleBacked DEF Init, SignedInv

LEMMA SignedNext == SignedInv /\ [Next]_vars => SignedInv'
<1> SUFFICES ASSUME SignedInv, [Next]_vars PROVE TxBacked(tx')
  BY AuthNext DEF SignedInv
<1>1. TxBacked(tx) /\ tx \in Txs
  BY DEF SignedInv, TxBacked
<1>2. ASSUME NEW signers \in SignerLists, NEW writable \in Writables, Begin(signers, writable)
      PROVE  TxBacked(tx')
  <2> DEFINE t == [Idle EXCEPT !.signers = signers, !.writable = writable]
  <2>1. signers \in Seq(Signers)
    BY AuthAssumption
  <2>2. Idle \in Txs
    BY IdleBacked DEF TxBacked
  <2>3. /\ t \in Txs /\ t.signers = signers /\ t.pending = Idle.pending
        /\ t.schnorr = Idle.schnorr /\ t.multisig = Idle.multisig
    BY <2>1, <2>2 DEF Txs
  <2> HIDE DEF t
  <2>5. TxBacked(t)
    BY <2>3 DEF TxBacked, SingleBacked, BucketBacked, Idle
  <2>4. Resolves(t, "Running", signers)
    BY <1>2 DEF Begin, t
  <2> QED BY <2>1, <2>3, <2>4, <2>5, ResolvesBacked DEF ToSet
<1>3. CASE ResolveAgain
  <2>1. /\ tx.pending \in Seq(Signers) /\ Resolves(tx, "Resolved", tx.pending)
        /\ \A i \in DOMAIN tx.pending : tx.pending[i] \in ToSet(tx.signers)
    BY <1>1, <1>3 DEF ResolveAgain, TxBacked, Txs
  <2> QED BY <1>1, <2>1, ResolvesBacked
<1>4. CASE Reject
  <2>1. tx' = [tx EXCEPT !.status = "Failed"]
    BY <1>4 DEF Reject
  <2> QED BY <1>1, <2>1 DEF TxBacked, Txs
<1>5. CASE Commit \/ Rollback
  BY <1>5, IdleBacked DEF Commit, Rollback
<1>6. CASE UNCHANGED vars
  BY <1>1, <1>6 DEF vars
<1>7. ASSUME NEW lock \in NewLocks, InitConfig(lock) \/ UpdateConfig(lock) PROVE TxBacked(tx')
  <2>1. \E w : Applies(w, {Config})
    BY <1>7 DEF InitConfig, UpdateConfig
  <2> QED BY <1>1, <2>1, AppliesBacked DEF Slots
<1>8. ASSUME NEW r \in Accounts, Deposit(r) PROVE TxBacked(tx')
  <2>1. \E w : Applies(w, {r}) \/ Applies(w, {})
    BY <1>8 DEF Deposit
  <2> QED BY <1>1, <2>1, AppliesBacked DEF Slots
<1>9. ASSUME NEW r \in Accounts, NEW lock \in NewLocks, UpdateUserLock(r, lock)
      PROVE  TxBacked(tx')
  <2>1. \E w : Applies(w, {r})
    BY <1>9 DEF UpdateUserLock
  <2> QED BY <1>1, <2>1, AppliesBacked DEF Slots
<1>10. ASSUME NEW source \in Accounts, NEW dest \in Accounts, Transfer(source, dest)
       PROVE  TxBacked(tx')
  <2>1. \E w : Applies(w, {dest}) \/ Applies(w, {})
    BY <1>10 DEF Transfer
  <2> QED BY <1>1, <2>1, AppliesBacked DEF Slots
<1> QED BY <1>2, <1>3, <1>4, <1>5, <1>6, <1>7, <1>8, <1>9, <1>10 DEF Next

(* A matcher that opens a lock found keys that signed for the resource.     *)
LEMMA OpensIsSigned ==
  ASSUME TxBacked(tx), NEW r, NEW lock, ValidBody(lock.tag, lock.body), Opens(r, lock)
  PROVE  SignedFor(r, lock)
<1> DEFINE S == ToSet(tx.signers)
<1>1. tx.signers \in Seq(Signers) /\ tx.multisig \in Seq(Entries)
  BY DEF TxBacked, Txs
<1>2. CASE lock.tag = SCHNORR
  <2>1. <<r, lock.body[1]>> \in tx.schnorr
    BY <1>2 DEF Opens, SCHNORR, MULTISIG, UNLOCKED
  <2>2. PICK s \in S : ~ForMultisig(s) /\ <<r, lock.body[1]>> = <<s.at, s.by>>
    BY <2>1 DEF TxBacked, SingleBacked
  <2>3. lock.body[1] \in Signed(r, FALSE)
    BY <2>2 DEF Signed, ForMultisig
  <2>4. lock.tag = SCHNORR /\ lock.tag # MULTISIG /\ lock.tag # UNLOCKED
    BY <1>2 DEF SCHNORR, MULTISIG, UNLOCKED
  <2> QED BY ONLY <2>3, <2>4, Zenon DEF SignedFor
<1>3. CASE lock.tag = MULTISIG
  <2> DEFINE theirs == ToSet(KeysOf(lock))
  <2>1. PICK e \in ToSet(tx.multisig) : e.at = r /\ Satisfies(e.keys, lock)
    BY <1>3 DEF Opens, EntriesOf, SCHNORR, MULTISIG, UNLOCKED
  <2>2. PICK i \in DOMAIN tx.multisig : e = tx.multisig[i]
    BY DEF ToSet
  <2>3. ToSet(e.keys) \subseteq Signed(r, TRUE)
    <3> SUFFICES ASSUME NEW k \in DOMAIN e.keys PROVE e.keys[k] \in Signed(r, TRUE)
      BY DEF ToSet
    <3>1. PICK s \in S : ForMultisig(s) /\ s.at = e.at /\ s.by = e.keys[k]
      BY <2>2 DEF TxBacked, BucketBacked, EntryBacked
    <3> QED BY <2>1, <3>1 DEF Signed, ForMultisig
  <2>4. IsFiniteSet(Signed(r, TRUE))
    <3>1. IsFiniteSet(1..Len(tx.signers)) /\ DOMAIN tx.signers = 1..Len(tx.signers)
      BY <1>1, FS_Interval
    <3> DEFINE by == [j \in 1..Len(tx.signers) |-> tx.signers[j].by]
               All == {by[j] : j \in 1..Len(tx.signers)}
    <3>2. by \in Surjection(1..Len(tx.signers), All)
      BY DEF Surjection
    <3>3. Signed(r, TRUE) \subseteq All
      BY <3>1 DEF Signed, ToSet
    <3> HIDE DEF All, by
    <3> QED BY <3>1, <3>2, <3>3, FS_Surjection, FS_Subset
  <2>5. /\ ToSet(e.keys) \cap theirs \in SUBSET (Signed(r, TRUE) \cap theirs)
        /\ IsFiniteSet(Signed(r, TRUE) \cap theirs)
    BY <2>3, <2>4, FS_Subset
  <2>6. /\ Cardinality(ToSet(e.keys) \cap theirs) <= Cardinality(Signed(r, TRUE) \cap theirs)
        /\ Cardinality(ToSet(e.keys) \cap theirs) \in Nat
        /\ Cardinality(Signed(r, TRUE) \cap theirs) \in Nat
    BY <2>5, FS_Subset, FS_CardinalityType
  <2>7. Cardinality(ToSet(e.keys) \cap theirs) >= Threshold(lock)
    BY <2>1 DEF Satisfies
  <2>8. Threshold(lock) \in Int
    BY <1>3 DEF ValidBody, MultisigBody, Threshold, SCHNORR, MULTISIG, UNLOCKED
  <2>9. Cardinality(Signed(r, TRUE) \cap theirs) >= Threshold(lock)
    BY <2>6, <2>7, <2>8
  <2> QED BY <1>3, <2>9 DEF SignedFor, SCHNORR, MULTISIG, UNLOCKED
<1>4. CASE lock.tag = UNLOCKED
  BY <1>4 DEF SignedFor, SCHNORR, MULTISIG, UNLOCKED
<1> QED BY <1>2, <1>3, <1>4 DEF ValidBody

(* A step takes from r when it replaces its lock or lowers its balance.     *)
Takes(w, r) ==
  \/ LockIn(w[r]) # LockIn(work[r])
  \/ r \in Accounts /\ Balance(w[r]) < Balance(work[r])

(* What is there has a lock that decodes, and a user a balance. *)
LEMMA LockThere ==
  ASSUME AuthInv, NEW r \in Slots, work[r] # Vacant
  PROVE  /\ ValidBody(LockIn(work[r]).tag, LockIn(work[r]).body)
         /\ r \in Accounts => UserAt(r, work[r]) /\ Balance(work[r]) \in Nat
<1>1. InPlace(r, work[r]) /\ (r \in Accounts => r # Config)
  BY AuthAssumption DEF AuthInv
<1> QED BY <1>1 DEF InPlace, UserAt, Parses, LockIn

(* A resource that is not written, and a balance that does not fall, is not *)
(* taken from.                                                              *)
LEMMA KeptIsNotTaken ==
  ASSUME AuthInv, NEW r \in Slots, work[r] # Vacant, NEW w, w[r] = work[r]
  PROVE  ~Takes(w, r)
BY LockThere DEF Takes

LEMMA RaisedIsNotTaken ==
  ASSUME AuthInv, NEW r \in Accounts, work[r] # Vacant, NEW balance \in Nat,
         balance >= Balance(work[r]), NEW w, w[r] = SetBalance(work[r], balance)
  PROVE  ~Takes(w, r)
<1>1. UserAt(r, work[r]) /\ Balance(work[r]) \in Nat
  BY LockThere DEF Slots
<1>2. Balance(w[r]) = balance /\ LockIn(w[r]) = LockIn(work[r])
  BY <1>1, BalanceKeepsLock
<1> QED BY <1>1, <1>2 DEF Takes

LEMMA ActsIsSigned ==
  ASSUME SignedInv, NEW r \in Accounts, Acts(r)
  PROVE  SignedFor(r, LockIn(work[r]))
<1>1. ValidBody(LockIn(work[r]).tag, LockIn(work[r]).body)
  BY DEF Acts, Parses, LockIn
<1> QED BY <1>1, OpensIsSigned DEF Acts, SignedInv

(* Every step that takes from a resource that is there goes through its     *)
(* lock.                                                                    *)
LEMMA UnlockStep ==
  ASSUME SignedInv, [Next]_vars, NEW r \in Slots,
         tx.status \in {"Running", "Resolved"}, work[r] # Vacant, Takes(work', r)
  PROVE  SignedFor(r, LockIn(work[r]))
<1>1. AuthInv /\ TxBacked(tx)
  BY DEF SignedInv
<1>2. work'[r] # work[r]
  BY <1>1, KeptIsNotTaken
<1>3. ASSUME NEW signers \in SignerLists, NEW writable \in Writables, Begin(signers, writable)
      PROVE  FALSE
  BY <1>2, <1>3 DEF Begin
<1>4. ~(ResolveAgain \/ Reject \/ Commit \/ Rollback \/ UNCHANGED vars)
  BY <1>2 DEF ResolveAgain, Reject, Commit, Rollback, vars
<1>5. ASSUME NEW lock \in NewLocks, InitConfig(lock) \/ UpdateConfig(lock)
      PROVE  SignedFor(r, LockIn(work[r]))
  <2>1. work' = [work EXCEPT ![Config] = ConfigData(lock)]
    BY <1>5 DEF InitConfig, UpdateConfig, Applies
  <2>2. r = Config
    BY <1>1, <1>2, <2>1 DEF AuthInv
  <2>3. UpdateConfig(lock)
    BY <1>5, <2>2 DEF InitConfig
  <2>4. Opens(r, LockIn(work[r]))
    BY <2>2, <2>3 DEF UpdateConfig
  <2>5. ValidBody(LockIn(work[r]).tag, LockIn(work[r]).body)
    BY <1>1, LockThere
  <2> QED BY <1>1, <2>4, <2>5, OpensIsSigned
<1>6. ASSUME NEW at \in Accounts, Deposit(at) PROVE FALSE
  <2> DEFINE born == [work EXCEPT ![at] = UserData(1, Born[at], Born[at])]
             raised == SetBalance(work[at], Balance(work[at]) + 1)
  <2>1. CASE work[at] = Vacant
    <3>1. work' = born
      BY <1>6, <2>1 DEF Deposit, Applies
    <3> QED BY <1>1, <1>2, <2>1, <3>1 DEF AuthInv
  <2>2. CASE work[at] # Vacant
    <3>1. work' = [work EXCEPT ![at] = raised]
      BY <1>6, <2>2 DEF Deposit, Applies
    <3>2. r = at
      BY <1>1, <1>2, <3>1 DEF AuthInv
    <3>3. Balance(work[r]) + 1 \in Nat /\ Balance(work[r]) + 1 >= Balance(work[r])
      BY <1>1, <3>2, LockThere
    <3>4. work'[r] = raised
      BY <1>1, <3>1, <3>2 DEF AuthInv
    <3> QED BY <1>1, <3>2, <3>3, <3>4, RaisedIsNotTaken
  <2> QED BY <2>1, <2>2
<1>7. ASSUME NEW at \in Accounts, NEW lock \in NewLocks, UpdateUserLock(at, lock)
      PROVE  SignedFor(r, LockIn(work[r]))
  <2>1. work' = [work EXCEPT ![at] = SetUserLock(@, lock)] /\ Acts(at)
    BY <1>7 DEF UpdateUserLock, Applies
  <2>2. r = at
    BY <1>1, <1>2, <2>1 DEF AuthInv
  <2> QED BY <2>1, <2>2, ActsIsSigned
<1>8. ASSUME NEW source \in Accounts, NEW dest \in Accounts, Transfer(source, dest)
      PROVE  SignedFor(r, LockIn(work[r]))
  <2> DEFINE debited == [work EXCEPT ![source] = SetBalance(@, Balance(@) - 1)]
             born == [debited EXCEPT ![dest] = UserData(1, Born[dest], Born[dest])]
             credited == [debited EXCEPT ![dest] = SetBalance(@, Balance(@) + 1)]
  <2>1. /\ Acts(source) /\ source # dest
        /\ IF work[dest] = Vacant THEN work' = born ELSE work' = credited
    BY <1>8 DEF Transfer, Applies
  <2>2. debited[dest] = work[dest] /\ DOMAIN debited = Slots /\ dest \in Slots
    BY <1>1, <2>1 DEF AuthInv, Slots
  <2>3. ASSUME r # source PROVE debited[r] = work[r]
    BY <1>1, <2>3 DEF AuthInv
  <2>4. CASE r = source
    BY <2>1, <2>4, ActsIsSigned
  <2> HIDE DEF debited
  <2>5. ASSUME r # source PROVE FALSE
    <3>1. r = dest /\ work[dest] # Vacant
      BY <1>2, <2>1, <2>2, <2>3, <2>5
    <3>2. Balance(work[r]) + 1 \in Nat /\ Balance(work[r]) + 1 >= Balance(work[r])
      BY <1>1, <3>1, LockThere
    <3>3. work'[r] = SetBalance(work[r], Balance(work[r]) + 1)
      BY <2>1, <2>2, <3>1
    <3> QED BY <1>1, <3>1, <3>2, <3>3, RaisedIsNotTaken
  <2> QED BY <2>4, <2>5
<1> QED BY <1>3, <1>4, <1>5, <1>6, <1>7, <1>8 DEF Next

(* Whoever lowers a balance or replaces a lock had enough of the keys of    *)
(* that lock sign for that very resource: run.rs collects no key nobody     *)
(* signed with, no sort loses track of whom a key was for, and the matchers *)
(* count distinct keys (resolve_pending, append_multisig_contrib,           *)
(* LockEnum::unlock).                                                       *)
THEOREM AuthUnlocks == Spec => UnlockIsSigned
<1> DEFINE Step == \A r \in Slots :
                     ( /\ tx.status \in {"Running", "Resolved"}
                       /\ work[r] # Vacant
                       /\ LockIn(work'[r]) # LockIn(work[r])
                           \/ (r \in Accounts /\ Balance(work'[r]) < Balance(work[r])) )
                     => SignedFor(r, LockIn(work[r]))
<1>1. SignedInv /\ [Next]_vars => Step
  BY UnlockStep DEF Takes
<1>2. Spec => []SignedInv
  BY SignedInit, SignedNext, PTL DEF Spec
<1>3. Spec => [][Step]_vars
  BY <1>1, <1>2, PTL DEF Spec
<1> QED BY <1>3 DEF UnlockIsSigned

---------------------------------------------------------------------------
(* What SignedInOrder computes: the keys for r, one by one *)

Picks(g, s, r) ==
  /\ g[0] = <<>>
  /\ \A n \in 1..Len(s) :
       g[n] = IF SignsFor(s[n], r) THEN Append(g[n - 1], s[n].by) ELSE g[n - 1]

LEMMA InOrderPicks ==
  ASSUME NEW s \in Seq(Signers), NEW r
  PROVE  \E g : Picks(g, s, r) /\ SignedInOrder(s, r) = g[Len(s)]
<1> DEFINE N == Len(s)
           next(f, n) == IF SignsFor(s[n], r) THEN Append(f[n - 1], s[n].by) ELSE f[n - 1]
           Below(f, m) == f = [n \in 0..m |-> IF n = 0 THEN <<>> ELSE next(f, n)]
           Good == {m \in Nat : \E f : Below(f, m)}
           upTo == CHOOSE f : Below(f, N)
<1>0. N \in Nat
  OBVIOUS
<1>1. 0 \in Good
  <2> DEFINE f == [n \in 0..0 |-> <<>>]
  <2>1. Below(f, 0)
    OBVIOUS
  <2> QED BY <2>1
<1>2. ASSUME NEW m \in Nat, m \in Good PROVE m + 1 \in Good
  <2>1. PICK f : Below(f, m)
    BY <1>2
  <2> DEFINE g == [n \in 0..(m + 1) |-> IF n <= m THEN f[n] ELSE next(f, n)]
  <2>2. \A n \in 0..m : g[n] = f[n]
    OBVIOUS
  <2>3. \A n \in 1..(m + 1) : next(g, n) = next(f, n)
    <3> TAKE n \in 1..(m + 1)
    <3>1. n - 1 \in 0..m
      OBVIOUS
    <3>2. g[n - 1] = f[n - 1]
      BY <2>2, <3>1
    <3> QED BY <3>2
  <2>4. \A n \in 0..(m + 1) : g[n] = IF n = 0 THEN <<>> ELSE next(g, n)
    <3> TAKE n \in 0..(m + 1)
    <3>1. CASE n <= m
      <4>1. n \in 0..m
        BY <3>1
      <4>2. g[n] = f[n] /\ f[n] = IF n = 0 THEN <<>> ELSE next(f, n)
        BY <2>1, <2>2, <4>1
      <4>3. n # 0 => next(g, n) = next(f, n)
        BY <2>3, <4>1
      <4> HIDE DEF g, next
      <4> QED BY <4>2, <4>3
    <3>2. CASE n = m + 1
      <4>1. g[n] = next(f, n) /\ n # 0 /\ n \in 1..(m + 1)
        BY <3>2
      <4>2. next(g, n) = next(f, n)
        BY <2>3, <4>1
      <4> HIDE DEF g, next
      <4> QED BY <4>1, <4>2
    <3> QED BY <3>1, <3>2
  <2>5. Below(g, m + 1)
    <3> HIDE DEF next
    <3>1. g = [n \in 0..(m + 1) |-> g[n]]
      OBVIOUS
    <3> HIDE DEF g
    <3> QED BY <2>4, <3>1
  <2> HIDE DEF g, Below
  <2>6. \E h : Below(h, m + 1)
    BY <2>5
  <2> QED BY <2>6
<1>3. N \in Good
  <2> HIDE DEF Good
  <2> QED BY <1>0, <1>1, <1>2, NatSetInduction
<1>4. Below(upTo, N)
  BY <1>3
<1>5. SignedInOrder(s, r) = upTo[N]
  BY DEF SignedInOrder
<1> HIDE DEF upTo
<1>6. upTo[0] = <<>> /\ \A n \in 1..N : upTo[n] = next(upTo, n)
  <2> HIDE DEF next
  <2> QED BY <1>0, <1>4
<1>7. Picks(upTo, s, r)
  BY <1>6 DEF Picks
<1> QED BY <1>5, <1>7

(* Two ways to pick agree as far as the signers do. *)
Agree(g, h, m) == \A n \in 0..m : h[n] = g[n]

LEMMA PicksAgree ==
  ASSUME NEW s \in Seq(Signers), NEW t \in Seq(Signers), NEW r, Len(s) <= Len(t),
         \A n \in 1..Len(s) : t[n] = s[n],
         NEW g, Picks(g, s, r), NEW h, Picks(h, t, r)
  PROVE  Agree(g, h, Len(s))
<1> DEFINE Good == {n \in Nat : n <= Len(s) => h[n] = g[n]}
<1>1. Len(s) \in Nat /\ Len(t) \in Nat
  OBVIOUS
<1>2. 0 \in Good
  BY DEF Picks
<1>3. ASSUME NEW n \in Nat, n \in Good, n + 1 <= Len(s) PROVE h[n + 1] = g[n + 1]
  <2>1. /\ h[n] = g[n] /\ n + 1 \in 1..Len(s) /\ n + 1 \in 1..Len(t)
        /\ (n + 1) - 1 = n /\ t[n + 1] = s[n + 1]
    BY <1>1, <1>3
  <2>2. g[n + 1] = IF SignsFor(s[n + 1], r) THEN Append(g[n], s[n + 1].by) ELSE g[n]
    BY <2>1 DEF Picks
  <2>3. h[n + 1] = IF SignsFor(t[n + 1], r) THEN Append(h[n], t[n + 1].by) ELSE h[n]
    BY <2>1 DEF Picks
  <2> QED BY <2>1, <2>2, <2>3
<1>4. \A n \in Nat : n \in Good
  <2>1. \A n \in Nat : n \in Good => n + 1 \in Good
    BY <1>3
  <2> HIDE DEF Good
  <2> QED BY <1>2, <2>1, NatSetInduction
<1> QED BY <1>1, <1>4 DEF Agree

LEMMA InOrderEmpty ==
  ASSUME NEW r
  PROVE  SignedInOrder(<<>>, r) = <<>>
<1>1. <<>> \in Seq(Signers) /\ Len(<<>>) = 0
  OBVIOUS
<1> QED BY <1>1, InOrderPicks DEF Picks

LEMMA InOrderGrows ==
  ASSUME NEW s \in Seq(Signers), NEW x \in Signers, NEW r
  PROVE  SignedInOrder(Append(s, x), r) =
           IF SignsFor(x, r) THEN Append(SignedInOrder(s, r), x.by) ELSE SignedInOrder(s, r)
<1> DEFINE t == Append(s, x)
<1>1. /\ t \in Seq(Signers) /\ Len(s) \in Nat /\ Len(t) = Len(s) + 1 /\ t[Len(s) + 1] = x
      /\ \A n \in 1..Len(s) : t[n] = s[n]
  OBVIOUS
<1> HIDE DEF t
<1>2. PICK g : Picks(g, s, r) /\ SignedInOrder(s, r) = g[Len(s)]
  BY InOrderPicks
<1>3. PICK h : Picks(h, t, r) /\ SignedInOrder(t, r) = h[Len(t)]
  BY <1>1, InOrderPicks
<1>4. h[Len(s)] = g[Len(s)]
  <2>1. Len(s) <= Len(t)
    BY <1>1
  <2>2. Picks(g, s, r) /\ Picks(h, t, r) /\ \A n \in 1..Len(s) : t[n] = s[n]
    BY <1>1, <1>2, <1>3
  <2>3. Agree(g, h, Len(s))
    BY <1>1, <2>1, <2>2, PicksAgree
  <2> QED BY <1>1, <2>3 DEF Agree
<1>5. h[Len(t)] = IF SignsFor(x, r) THEN Append(h[Len(s)], x.by) ELSE h[Len(s)]
  <2>1. Len(t) \in 1..Len(t) /\ Len(t) - 1 = Len(s)
    BY <1>1
  <2> QED BY <1>1, <1>3, <2>1 DEF Picks
<1> QED BY <1>2, <1>3, <1>4, <1>5 DEF t

(* What is picked are keys, and something is once somebody signs for r.     *)
LEMMA PicksAreKeys ==
  ASSUME NEW s \in Seq(Signers), NEW r, NEW g, Picks(g, s, r)
  PROVE  \A n \in 0..Len(s) :
           /\ g[n] \in Seq(Nat)
           /\ g[n] # <<>> => \E k \in 1..n : SignsFor(s[k], r)
<1> DEFINE Keys(n) == g[n] \in Seq(Nat)
           Some(n) == g[n] # <<>> => \E k \in 1..n : SignsFor(s[k], r)
           Good == {n \in Nat : n <= Len(s) => Keys(n) /\ Some(n)}
<1>1. Len(s) \in Nat /\ \A n \in 1..Len(s) : s[n].by \in Nat
  <2>1. \A n \in 1..Len(s) : s[n] \in Signers
    OBVIOUS
  <2> QED BY <2>1 DEF Signers
<1>2. 0 \in Good
  <2>1. g[0] = <<>>
    BY DEF Picks
  <2>2. Keys(0) /\ Some(0)
    BY <2>1
  <2> HIDE DEF Keys, Some
  <2> QED BY <2>2
<1>3. ASSUME NEW n \in Nat, n \in Good, n + 1 <= Len(s) PROVE Keys(n + 1) /\ Some(n + 1)
  <2>1. Keys(n) /\ Some(n) /\ n + 1 \in 1..Len(s) /\ (n + 1) - 1 = n
    BY <1>1, <1>3
  <2>2. g[n + 1] = IF SignsFor(s[n + 1], r) THEN Append(g[n], s[n + 1].by) ELSE g[n]
    BY <2>1 DEF Picks
  <2>3. Keys(n + 1)
    BY <1>1, <2>1, <2>2
  <2>4. n + 1 \in 1..(n + 1) /\ \A k \in 1..n : k \in 1..(n + 1)
    OBVIOUS
  <2>5. Some(n + 1)
    <3>1. CASE SignsFor(s[n + 1], r)
      BY <2>4, <3>1
    <3>2. CASE ~SignsFor(s[n + 1], r)
      BY <2>1, <2>2, <2>4, <3>2
    <3> QED BY <3>1, <3>2
  <2> QED BY <2>3, <2>5
<1>4. \A n \in Nat : n \in Good
  <2>1. \A n \in Nat : n \in Good => n + 1 \in Good
    BY <1>3
  <2> HIDE DEF Good
  <2> QED BY <1>2, <2>1, NatSetInduction
<1> QED BY <1>1, <1>4

NoneFor(signers, r) == \A i \in DOMAIN signers : ~SignsFor(signers[i], r)

LEMMA InOrderNone ==
  ASSUME NEW s \in Seq(Signers), NEW r, NoneFor(s, r)
  PROVE  SignedInOrder(s, r) = <<>>
<1>1. PICK g : Picks(g, s, r) /\ SignedInOrder(s, r) = g[Len(s)]
  BY InOrderPicks
<1>2. Len(s) \in 0..Len(s) /\ DOMAIN s = 1..Len(s)
  OBVIOUS
<1> QED BY <1>1, <1>2, PicksAreKeys DEF NoneFor

---------------------------------------------------------------------------
(* What the bucket holds for one resource *)

(* All that was collected for r are these keys, in one entry at least.      *)
Whole(bucket, r, keys) ==
  /\ \A i \in DOMAIN bucket : bucket[i].at = r => bucket[i].keys = keys
  /\ keys # <<>> <=> \E i \in DOMAIN bucket : bucket[i].at = r

(* An entry of r can only be the one append_multisig_contrib looks at.      *)
OnlyLast(bucket, r) == \A i \in DOMAIN bucket : bucket[i].at = r => i = Len(bucket)

NoEntry(bucket, r) == \A i \in DOMAIN bucket : bucket[i].at # r

(* The two ways a key gets into the bucket: the last entry takes it, or it  *)
(* starts an entry.                                                         *)
LastTakes(bucket, at, key, next) ==
  /\ Len(bucket) > 0 /\ bucket[Len(bucket)].at = at
  /\ Len(next) = Len(bucket) /\ next[Len(bucket)].at = at
  /\ next[Len(bucket)].keys = Append(bucket[Len(bucket)].keys, key)
  /\ \A i \in 1..(Len(bucket) - 1) : next[i] = bucket[i]

StartsEntry(bucket, at, key, next) ==
  /\ Len(bucket) > 0 => bucket[Len(bucket)].at # at
  /\ Len(next) = Len(bucket) + 1
  /\ next[Len(next)].at = at /\ next[Len(next)].keys = <<key>>
  /\ \A i \in 1..Len(bucket) : next[i] = bucket[i]

LEMMA AppendWays ==
  ASSUME NEW bucket \in Seq(Entries), NEW at \in Slots, NEW key \in Nat,
         NEW next, next = AppendContrib(bucket, at, key)
  PROVE  /\ Len(bucket) \in Nat /\ DOMAIN bucket = 1..Len(bucket)
         /\ next \in Seq(Entries) /\ Len(next) \in Nat /\ DOMAIN next = 1..Len(next)
         /\ LastTakes(bucket, at, key, next) \/ StartsEntry(bucket, at, key, next)
<1>1. Len(bucket) \in Nat /\ DOMAIN bucket = 1..Len(bucket) /\ (bucket # <<>> <=> Len(bucket) > 0)
  OBVIOUS
<1>2. CASE bucket # <<>> /\ Last(bucket).at = at
  <2> DEFINE n == Len(bucket)
             e == bucket[n]
             more == [e EXCEPT !.keys = Append(@, key)]
  <2>1. n \in 1..n /\ e \in Entries /\ e.at = at
    BY <1>1, <1>2 DEF Last
  <2> HIDE DEF e
  <2>2. more \in Entries /\ more.at = at /\ more.keys = Append(e.keys, key)
    <3>1. e.keys \in Seq(Nat)
      BY <2>1 DEF Entries
    <3>2. Append(e.keys, key) \in Seq(Nat)
      BY <3>1
    <3> QED BY <2>1, <3>2 DEF Entries
  <2>3. next = [bucket EXCEPT ![n] = more]
    BY <1>2, <2>1 DEF AppendContrib, e
  <2> HIDE DEF more
  <2>4. /\ next \in Seq(Entries) /\ Len(next) = n /\ DOMAIN next = 1..Len(next)
        /\ next[n] = more /\ \A i \in 1..(n - 1) : next[i] = bucket[i]
    BY <1>1, <2>1, <2>2, <2>3
  <2> QED BY <1>1, <1>2, <2>1, <2>2, <2>4 DEF e, LastTakes
<1>3. CASE ~(bucket # <<>> /\ Last(bucket).at = at)
  <2> DEFINE e == [at |-> at, keys |-> <<key>>]
  <2>1. next = Append(bucket, e)
    BY <1>3 DEF AppendContrib
  <2>2. e \in Entries /\ e.at = at /\ e.keys = <<key>>
    BY DEF Entries
  <2> HIDE DEF e
  <2>3. /\ next \in Seq(Entries) /\ Len(next) = Len(bucket) + 1 /\ DOMAIN next = 1..Len(next)
        /\ next[Len(next)] = e /\ \A i \in 1..Len(bucket) : next[i] = bucket[i]
    BY <1>1, <2>1, <2>2
  <2>4. Len(bucket) > 0 => bucket[Len(bucket)].at # at
    BY <1>1, <1>3 DEF Last
  <2> QED BY <1>1, <2>2, <2>3, <2>4 DEF StartsEntry
<1> QED BY <1>2, <1>3

(* A key for another resource leaves the entries of r alone. *)
LEMMA AppendKeeps ==
  ASSUME NEW bucket \in Seq(Entries), NEW at \in Slots, NEW key \in Nat, NEW r, r # at,
         NEW keys
  PROVE  /\ Whole(bucket, r, keys) => Whole(AppendContrib(bucket, at, key), r, keys)
         /\ NoEntry(bucket, r) => NoEntry(AppendContrib(bucket, at, key), r)
<1> DEFINE next == AppendContrib(bucket, at, key)
<1>1. /\ Len(bucket) \in Nat /\ DOMAIN bucket = 1..Len(bucket) /\ Len(next) \in Nat
      /\ DOMAIN next = 1..Len(next)
      /\ LastTakes(bucket, at, key, next) \/ StartsEntry(bucket, at, key, next)
  BY AppendWays
<1> HIDE DEF next
<1>2. /\ \A i \in DOMAIN next : next[i].at = r => i \in DOMAIN bucket /\ next[i] = bucket[i]
      /\ \A i \in DOMAIN bucket : bucket[i].at = r => i \in DOMAIN next /\ next[i] = bucket[i]
  <2>1. CASE LastTakes(bucket, at, key, next)
    BY <1>1, <2>1 DEF LastTakes
  <2>2. CASE StartsEntry(bucket, at, key, next)
    BY <1>1, <2>2 DEF StartsEntry
  <2> QED BY <1>1, <2>1, <2>2
<1>3. Whole(bucket, r, keys) => Whole(next, r, keys)
  BY <1>2 DEF Whole
<1>4. NoEntry(bucket, r) => NoEntry(next, r)
  BY <1>2 DEF NoEntry
<1> QED BY <1>3, <1>4 DEF next

(* A key for r joins the keys it has, if they are where it is looked for.   *)
LEMMA AppendJoins ==
  ASSUME NEW bucket \in Seq(Entries), NEW r \in Slots, NEW key \in Nat, NEW keys \in Seq(Nat),
         Whole(bucket, r, keys), OnlyLast(bucket, r)
  PROVE  /\ Whole(AppendContrib(bucket, r, key), r, Append(keys, key))
         /\ OnlyLast(AppendContrib(bucket, r, key), r)
<1> DEFINE next == AppendContrib(bucket, r, key)
           more == Append(keys, key)
<1>1. /\ Len(bucket) \in Nat /\ DOMAIN bucket = 1..Len(bucket) /\ Len(next) \in Nat
      /\ DOMAIN next = 1..Len(next)
      /\ LastTakes(bucket, r, key, next) \/ StartsEntry(bucket, r, key, next)
  BY AppendWays
<1> HIDE DEF next
<1>2. more # <<>>
  <2>1. Len(more) = Len(keys) + 1 /\ Len(keys) \in Nat
    OBVIOUS
  <2>2. Len(<<>>) = 0
    OBVIOUS
  <2> HIDE DEF more
  <2> QED BY <2>1, <2>2
<1>3. keys = <<>> => more = <<key>>
  <2>1. Append(<<>>, key) = <<key>>
    OBVIOUS
  <2> QED BY <2>1
<1> HIDE DEF more
<1>4. \A i \in DOMAIN bucket : bucket[i].at = r => i = Len(bucket) /\ bucket[i].keys = keys
  BY DEF OnlyLast, Whole
<1>5. /\ Len(next) \in DOMAIN next /\ next[Len(next)].at = r /\ next[Len(next)].keys = more
      /\ \A i \in DOMAIN next : next[i].at = r => i = Len(next)
  <2>1. CASE LastTakes(bucket, r, key, next)
    <3>1. Len(bucket) \in DOMAIN bucket /\ bucket[Len(bucket)].keys = keys
      BY <1>1, <1>4, <2>1 DEF LastTakes
    <3>2. next[Len(next)].keys = more /\ next[Len(next)].at = r /\ Len(next) \in DOMAIN next
      BY <1>1, <2>1, <3>1 DEF LastTakes, more
    <3>3. ASSUME NEW i \in DOMAIN next, i # Len(next) PROVE next[i].at # r
      <4>1. i \in 1..(Len(bucket) - 1) /\ i \in DOMAIN bucket /\ i # Len(bucket)
        BY <1>1, <2>1, <3>3 DEF LastTakes
      <4>2. next[i] = bucket[i]
        BY <2>1, <4>1 DEF LastTakes
      <4> QED BY <1>4, <4>1, <4>2
    <3> QED BY <3>2, <3>3
  <2>2. CASE StartsEntry(bucket, r, key, next)
    <3>1. \A i \in DOMAIN bucket : bucket[i].at # r
      BY <1>1, <1>4, <2>2 DEF StartsEntry
    <3>2. keys = <<>>
      BY <3>1 DEF Whole
    <3>3. next[Len(next)].keys = more /\ next[Len(next)].at = r /\ Len(next) \in DOMAIN next
      BY <1>1, <1>3, <2>2, <3>2 DEF StartsEntry
    <3>4. ASSUME NEW i \in DOMAIN next, i # Len(next) PROVE next[i].at # r
      <4>1. i \in 1..Len(bucket)
        BY <1>1, <2>2, <3>4 DEF StartsEntry
      <4>2. next[i] = bucket[i]
        BY <2>2, <4>1 DEF StartsEntry
      <4> QED BY <1>1, <3>1, <4>1, <4>2
    <3> QED BY <3>3, <3>4
  <2> QED BY <1>1, <2>1, <2>2
<1>6. Whole(next, r, more)
  BY <1>2, <1>5 DEF Whole
<1>7. OnlyLast(next, r)
  BY <1>5 DEF OnlyLast
<1> QED BY <1>6, <1>7 DEF next, more

(* Sorting the bucket neither loses nor invents an entry. *)
LEMMA SortedWhole ==
  ASSUME NEW bucket \in Seq(Entries), NEW b \in Sorted(bucket), NEW r, NEW keys,
         Whole(bucket, r, keys)
  PROVE  Whole(b, r, keys)
<1> DEFINE places == DOMAIN bucket
<1>1. PICK p \in [places -> places] :
        /\ b = [i \in places |-> bucket[p[i]]]
        /\ Cardinality({ p[i] : i \in places }) = Len(bucket)
  BY DEF Sorted
<1>2. \A j \in places : \E i \in places : p[i] = j
  <2> DEFINE image == { p[i] : i \in places }
  <2>1. places = 1..Len(bucket) /\ Len(bucket) \in Nat
    OBVIOUS
  <2>2. IsFiniteSet(1..Len(bucket)) /\ Cardinality(1..Len(bucket)) = Len(bucket)
    <3> HIDE DEF places
    <3>1. Len(bucket) \in Int /\ 1 \in Int
      BY <2>1
    <3>2. IsFiniteSet(1..Len(bucket))
      BY ONLY <3>1, FS_Interval
    <3>3. Cardinality(1..Len(bucket)) = IF 1 > Len(bucket) THEN 0 ELSE Len(bucket) - 1 + 1
      BY ONLY <3>1, FS_Interval
    <3> QED BY <2>1, <3>2, <3>3
  <2>3. image \in SUBSET places /\ Cardinality(image) = Len(bucket)
    BY <1>1
  <2> HIDE DEF image, places
  <2>4. image = places
    BY <2>1, <2>2, <2>3, FS_Subset
  <2> QED BY <2>4 DEF image
<1>3. DOMAIN b = places /\ \A i \in places : b[i] = bucket[p[i]] /\ p[i] \in places
  BY <1>1
<1> HIDE DEF places
<1>4. (\E i \in DOMAIN b : b[i].at = r) <=> (\E j \in places : bucket[j].at = r)
  BY <1>2, <1>3
<1>5. \A i \in DOMAIN b : b[i].at = r => b[i].keys = keys
  BY <1>3 DEF Whole, places
<1> QED BY <1>4, <1>5 DEF Whole, places

---------------------------------------------------------------------------
(* What a round makes of the signers for one resource *)

Waits(s) == Gated(s) /\ ~LockBearing(s.at)

(* A signer waits, or its key is collected, and nothing else changes; a     *)
(* round that failed stays failed.                                          *)
LEMMA OneSigner ==
  ASSUME NEW round \in Rounds, NEW s \in Signers, ResolveOne(round, s).ok
  PROVE  /\ round.ok
         /\ ResolveOne(round, s).pending =
              IF Waits(s) THEN Append(round.pending, s) ELSE round.pending
         /\ ResolveOne(round, s).multisig =
              IF ~Waits(s) /\ ForMultisig(s) THEN AppendContrib(round.multisig, s.at, s.by)
              ELSE round.multisig
<1> DEFINE pending == Append(round.pending, s)
           multisig == AppendContrib(round.multisig, s.at, s.by)
           schnorr == round.schnorr \cup {<<s.at, s.by>>}
<1>1. ResolveOne(round, s) =
        IF Waits(s) THEN [round EXCEPT !.pending = pending]
        ELSE IF ~Verifies(s) THEN [round EXCEPT !.ok = FALSE]
        ELSE IF ForMultisig(s) THEN [round EXCEPT !.multisig = multisig]
        ELSE [round EXCEPT !.schnorr = schnorr]
  BY DEF ResolveOne, Waits
<1> HIDE DEF pending, multisig, schnorr
<1>2. CASE Waits(s)
  BY <1>1, <1>2 DEF Rounds, pending
<1>3. CASE ~Waits(s) /\ ~Verifies(s)
  BY <1>1, <1>3 DEF Rounds
<1>4. CASE ~Waits(s) /\ Verifies(s) /\ ForMultisig(s)
  BY <1>1, <1>4 DEF Rounds, multisig
<1>5. CASE ~Waits(s) /\ Verifies(s) /\ ~ForMultisig(s)
  BY <1>1, <1>5 DEF Rounds
<1> QED BY <1>2, <1>3, <1>4, <1>5

(* The signers that wait are some of the round's, in their order. *)
Waiting(pending, s, n) ==
  /\ pending \in Seq(Signers)
  /\ \A i \in DOMAIN pending : Waits(pending[i]) /\ \E k \in 1..n : pending[i] = s[k]
  /\ ByResource(pending)

LEMMA WaitingGrows ==
  ASSUME NEW s \in Seq(Signers), ByResource(s), NEW n \in Nat, n + 1 <= Len(s),
         NEW pending, Waiting(pending, s, n)
  PROVE  /\ Waiting(pending, s, n + 1)
         /\ Waits(s[n + 1]) => Waiting(Append(pending, s[n + 1]), s, n + 1)
<1>1. /\ Len(s) \in Nat /\ DOMAIN s = 1..Len(s) /\ n + 1 \in 1..Len(s) /\ s[n + 1] \in Signers
      /\ n + 1 \in 1..(n + 1) /\ \A k \in 1..n : k \in 1..(n + 1) /\ k \in DOMAIN s /\ k < n + 1
  OBVIOUS
<1>2. /\ pending \in Seq(Signers) /\ ByResource(pending)
      /\ \A i \in DOMAIN pending : Waits(pending[i]) /\ \E k \in 1..n : pending[i] = s[k]
  BY DEF Waiting
<1>3. Waiting(pending, s, n + 1)
  BY <1>1, <1>2 DEF Waiting
<1>4. ASSUME Waits(s[n + 1]) PROVE Waiting(Append(pending, s[n + 1]), s, n + 1)
  <2> DEFINE more == Append(pending, s[n + 1])
             m == Len(pending)
  <2>1. /\ m \in Nat /\ DOMAIN pending = 1..m /\ more \in Seq(Signers) /\ DOMAIN more = 1..(m + 1)
        /\ more[m + 1] = s[n + 1] /\ \A i \in 1..m : more[i] = pending[i]
    BY <1>1, <1>2
  <2> HIDE DEF more, m
  <2>2. \A i \in DOMAIN more : Waits(more[i]) /\ \E k \in 1..(n + 1) : more[i] = s[k]
    <3> TAKE i \in DOMAIN more
    <3>1. i \in 1..m \/ i = m + 1
      BY <2>1
    <3> QED BY <1>1, <1>2, <1>4, <2>1, <3>1
  <2>3. ByResource(more)
    <3> SUFFICES ASSUME NEW i \in DOMAIN more, NEW j \in DOMAIN more, i < j
                 PROVE  more[i].at <= more[j].at
      BY DEF ByResource
    <3>1. i \in 1..m /\ (j \in 1..m \/ j = m + 1)
      BY <2>1
    <3>2. CASE j \in 1..m
      BY <1>2, <2>1, <3>1, <3>2 DEF ByResource
    <3>3. CASE j = m + 1
      <4>1. PICK k \in 1..n : pending[i] = s[k]
        BY <1>2, <2>1, <3>1
      <4>2. s[k].at <= s[n + 1].at
        BY <1>1, <4>1 DEF ByResource
      <4> QED BY <2>1, <3>1, <3>3, <4>1, <4>2
    <3> QED BY <3>1, <3>2, <3>3
  <2> QED BY <2>1, <2>2, <2>3 DEF Waiting, more
<1> QED BY <1>3, <1>4

(* A round that did not fail had not failed before its last signer. *)
LEMMA RoundIsRight ==
  ASSUME NEW s \in Seq(Signers), ByResource(s), NEW base \in Rounds, base.pending = <<>>,
         NEW f, OneByOne(f, s, base), \A n \in 0..Len(s) : f[n] \in Rounds, f[Len(s)].ok
  PROVE  \A n \in 0..Len(s) : f[n].ok /\ Waiting(f[n].pending, s, n)
<1>1. Len(s) \in Nat /\ \A n \in 1..Len(s) : s[n] \in Signers
  OBVIOUS
<1>2. ASSUME NEW n \in 0..Len(s), n + 1 <= Len(s), f[n + 1].ok
      PROVE  /\ f[n].ok
             /\ f[n + 1].pending = IF Waits(s[n + 1]) THEN Append(f[n].pending, s[n + 1])
                                   ELSE f[n].pending
  <2>1. n + 1 \in 1..Len(s) /\ (n + 1) - 1 = n /\ f[n] \in Rounds
    BY <1>1, <1>2
  <2>2. f[n + 1] = ResolveOne(f[n], s[n + 1]) /\ s[n + 1] \in Signers
    BY <1>1, <2>1 DEF OneByOne
  <2> QED BY <1>2, <2>1, <2>2, OneSigner
<1>3. \A n \in 0..Len(s) : f[n].ok
  <2> DEFINE Good == {m \in Nat : m <= Len(s) => f[Len(s) - m].ok}
  <2>1. 0 \in Good
    BY <1>1
  <2>2. ASSUME NEW m \in Nat, m \in Good, m + 1 <= Len(s) PROVE f[Len(s) - (m + 1)].ok
    <3>1. /\ Len(s) - (m + 1) \in 0..Len(s) /\ (Len(s) - (m + 1)) + 1 = Len(s) - m
          /\ Len(s) - m <= Len(s) /\ f[Len(s) - m].ok
      BY <1>1, <2>2
    <3> QED BY <1>2, <3>1
  <2>3. \A m \in Nat : m \in Good
    <3>1. \A m \in Nat : m \in Good => m + 1 \in Good
      BY <2>2
    <3> HIDE DEF Good
    <3> QED BY <2>1, <3>1, NatSetInduction
  <2> TAKE n \in 0..Len(s)
  <2>4. Len(s) - n \in Nat /\ Len(s) - n <= Len(s) /\ Len(s) - (Len(s) - n) = n
    BY <1>1
  <2> QED BY <2>3, <2>4
<1>4. \A n \in 0..Len(s) : Waiting(f[n].pending, s, n)
  <2> DEFINE Good == {n \in Nat : n <= Len(s) => Waiting(f[n].pending, s, n)}
  <2>1. 0 \in Good
    <3>1. f[0].pending = <<>>
      BY DEF OneByOne
    <3>2. Waiting(<<>>, s, 0)
      BY DEF Waiting, ByResource
    <3> QED BY <3>1, <3>2
  <2>2. ASSUME NEW n \in Nat, n \in Good, n + 1 <= Len(s)
        PROVE  Waiting(f[n + 1].pending, s, n + 1)
    <3>1. Waiting(f[n].pending, s, n) /\ n \in 0..Len(s) /\ n + 1 \in 0..Len(s)
      BY <1>1, <2>2
    <3>2. f[n + 1].pending = IF Waits(s[n + 1]) THEN Append(f[n].pending, s[n + 1])
                             ELSE f[n].pending
      BY <1>2, <1>3, <2>2, <3>1
    <3> QED BY <2>2, <3>1, <3>2, WaitingGrows
  <2>3. \A m \in Nat : m \in Good
    <3>1. \A m \in Nat : m \in Good => m + 1 \in Good
      BY <2>2
    <3> HIDE DEF Good
    <3> QED BY <2>1, <3>1, NatSetInduction
  <2> QED BY <1>1, <2>3
<1> QED BY <1>3, <1>4

(* A round of the signers s, from base. *)
Rounding(f, s, base) ==
  /\ s \in Seq(Signers) /\ ByResource(s)
  /\ base \in Rounds /\ base.pending = <<>>
  /\ OneByOne(f, s, base)
  /\ \A n \in 0..Len(s) : f[n] \in Rounds
  /\ f[Len(s)].ok

(* Its step from the n-th signer to the next. *)
LEMMA RoundStep ==
  ASSUME NEW s, NEW base, NEW f, Rounding(f, s, base), NEW n \in Nat, n + 1 <= Len(s)
  PROVE  /\ n \in 0..Len(s) /\ n + 1 \in 1..Len(s) /\ s[n + 1] \in Signers
         /\ s[n + 1].at \in Slots /\ s[n + 1].by \in Nat
         /\ f[n].multisig \in Seq(Entries) /\ f[n].pending \in Seq(Signers)
         /\ f[n + 1].pending = IF Waits(s[n + 1]) THEN Append(f[n].pending, s[n + 1])
                               ELSE f[n].pending
         /\ f[n + 1].multisig =
              IF ~Waits(s[n + 1]) /\ ForMultisig(s[n + 1])
              THEN AppendContrib(f[n].multisig, s[n + 1].at, s[n + 1].by)
              ELSE f[n].multisig
<1>1. /\ Len(s) \in Nat /\ n \in 0..Len(s) /\ n + 1 \in 0..Len(s) /\ n + 1 \in 1..Len(s)
      /\ (n + 1) - 1 = n /\ s[n + 1] \in Signers
  BY DEF Rounding
<1>2. \A k \in 0..Len(s) : f[k].ok
  BY RoundIsRight DEF Rounding
<1>3. f[n + 1] = ResolveOne(f[n], s[n + 1]) /\ f[n + 1].ok /\ f[n] \in Rounds
  BY <1>1, <1>2 DEF Rounding, OneByOne
<1>4. s[n + 1].at \in Slots /\ s[n + 1].by \in Nat
  BY <1>1 DEF Signers
<1>5. f[n].multisig \in Seq(Entries) /\ f[n].pending \in Seq(Signers)
  BY <1>3 DEF Rounds
<1> QED BY <1>1, <1>3, <1>4, <1>5, OneSigner

(* While all that sign for r wait, its entries stay, and so do its signers  *)
(* and their order.                                                         *)
LEMMA RoundKeeps ==
  ASSUME NEW s, NEW base, NEW f, Rounding(f, s, base), NEW r \in Slots, NEW keys,
         \A k \in 1..Len(s) : SignsFor(s[k], r) => Waits(s[k]),
         Whole(base.multisig, r, keys)
  PROVE  /\ Whole(f[Len(s)].multisig, r, keys)
         /\ SignedInOrder(f[Len(s)].pending, r) = SignedInOrder(s, r)
<1>1. s \in Seq(Signers) /\ Len(s) \in Nat
  BY DEF Rounding
<1>2. PICK g : Picks(g, s, r) /\ SignedInOrder(s, r) = g[Len(s)]
  BY <1>1, InOrderPicks
<1> DEFINE Kept(n) == Whole(f[n].multisig, r, keys)
           InOrder(n) == SignedInOrder(f[n].pending, r) = g[n]
           Good == {n \in Nat : n <= Len(s) => Kept(n) /\ InOrder(n)}
<1>3. 0 \in Good
  <2>1. f[0] = base /\ base.pending = <<>> /\ g[0] = <<>>
    BY <1>2 DEF Rounding, OneByOne, Picks
  <2>2. Kept(0)
    BY <2>1
  <2>3. InOrder(0)
    BY <2>1, InOrderEmpty
  <2> HIDE DEF Kept, InOrder
  <2> QED BY <2>2, <2>3
<1>4. ASSUME NEW n \in Nat, n \in Good, n + 1 <= Len(s) PROVE Kept(n + 1) /\ InOrder(n + 1)
  <2> DEFINE x == s[n + 1]
  <2>1. Kept(n) /\ InOrder(n)
    BY <1>1, <1>4
  <2>2. /\ n + 1 \in 1..Len(s) /\ x \in Signers /\ x.at \in Slots /\ x.by \in Nat
        /\ f[n].multisig \in Seq(Entries) /\ f[n].pending \in Seq(Signers)
        /\ f[n + 1].pending = IF Waits(x) THEN Append(f[n].pending, x) ELSE f[n].pending
        /\ f[n + 1].multisig =
             IF ~Waits(x) /\ ForMultisig(x) THEN AppendContrib(f[n].multisig, x.at, x.by)
             ELSE f[n].multisig
    BY <1>4, RoundStep
  <2>3. g[n + 1] = IF SignsFor(x, r) THEN Append(g[n], x.by) ELSE g[n]
    <3>1. (n + 1) - 1 = n
      OBVIOUS
    <3> QED BY <1>2, <2>2, <3>1 DEF Picks
  <2>4. SignsFor(x, r) => Waits(x)
    BY <2>2
  <2> HIDE DEF x
  <2>5. Kept(n + 1)
    <3>1. CASE ~Waits(x) /\ ForMultisig(x)
      <4>1. x.at # r
        BY <2>4, <3>1 DEF SignsFor
      <4> QED BY <2>1, <2>2, <3>1, <4>1, AppendKeeps
    <3>2. CASE ~(~Waits(x) /\ ForMultisig(x))
      BY <2>1, <2>2, <3>2
    <3> QED BY <3>1, <3>2
  <2>6. InOrder(n + 1)
    <3>1. CASE Waits(x)
      BY <2>1, <2>2, <2>3, <3>1, InOrderGrows
    <3>2. CASE ~Waits(x)
      BY <2>1, <2>2, <2>3, <2>4, <3>2
    <3> QED BY <3>1, <3>2
  <2> QED BY <2>5, <2>6
<1>5. Len(s) \in Good
  <2>1. \A n \in Nat : n \in Good => n + 1 \in Good
    BY <1>4
  <2> HIDE DEF Good
  <2> QED BY <1>1, <1>3, <2>1, NatSetInduction
<1> QED BY <1>1, <1>2, <1>5

(* When none of those that sign for r waits, all their keys are gathered in *)
(* one entry: their signers follow each other on the wire.                  *)
LEMMA RoundGathers ==
  ASSUME NEW s, NEW base, NEW f, Rounding(f, s, base), NEW r \in Slots,
         \A k \in 1..Len(s) : SignsFor(s[k], r) => ~Waits(s[k]),
         Whole(base.multisig, r, <<>>)
  PROVE  /\ Whole(f[Len(s)].multisig, r, SignedInOrder(s, r))
         /\ NoneFor(f[Len(s)].pending, r)
<1>1. s \in Seq(Signers) /\ Len(s) \in Nat /\ DOMAIN s = 1..Len(s)
  BY DEF Rounding
<1>2. PICK g : Picks(g, s, r) /\ SignedInOrder(s, r) = g[Len(s)]
  BY <1>1, InOrderPicks
<1>3. \A n \in 0..Len(s) : g[n] \in Seq(Nat) /\ (g[n] # <<>> => \E k \in 1..n : SignsFor(s[k], r))
  BY <1>1, <1>2, PicksAreKeys
<1> DEFINE More(n) == \E k \in 1..Len(s) : k > n /\ SignsFor(s[k], r)
           Kept(n) == Whole(f[n].multisig, r, g[n])
           Open(n) == More(n) => OnlyLast(f[n].multisig, r)
           Good == {n \in Nat : n <= Len(s) => Kept(n) /\ Open(n)}
<1>4. 0 \in Good
  <2>1. f[0] = base /\ g[0] = <<>>
    BY <1>2 DEF Rounding, OneByOne, Picks
  <2>2. Kept(0)
    BY <2>1
  <2>3. Open(0)
    BY <2>1 DEF Whole, OnlyLast
  <2> HIDE DEF Kept, Open
  <2> QED BY <2>2, <2>3
<1>5. ASSUME NEW n \in Nat, n \in Good, n + 1 <= Len(s) PROVE Kept(n + 1) /\ Open(n + 1)
  <2> DEFINE x == s[n + 1]
  <2>1. Kept(n) /\ Open(n)
    BY <1>1, <1>5
  <2>2. /\ n \in 0..Len(s) /\ n + 1 \in 1..Len(s)
        /\ x \in Signers /\ x.at \in Slots /\ x.by \in Nat
        /\ f[n].multisig \in Seq(Entries)
        /\ f[n + 1].multisig =
             IF ~Waits(x) /\ ForMultisig(x) THEN AppendContrib(f[n].multisig, x.at, x.by)
             ELSE f[n].multisig
    BY <1>5, RoundStep
  <2>3. g[n + 1] = IF SignsFor(x, r) THEN Append(g[n], x.by) ELSE g[n]
    <3>1. (n + 1) - 1 = n
      OBVIOUS
    <3> QED BY <1>2, <2>2, <3>1 DEF Picks
  <2>4. SignsFor(x, r) => ~Waits(x)
    BY <2>2
  <2>5. More(n + 1) => More(n)
    BY <1>1
  <2>6. SignsFor(x, r) => More(n)
    <3>1. n + 1 > n
      OBVIOUS
    <3> QED BY <2>2, <3>1
  (* Between two signers of one resource there is none of another. *)
  <2>7. ASSUME More(n + 1), x.at # r PROVE g[n] = <<>>
    <3> SUFFICES ASSUME g[n] # <<>> PROVE FALSE
      OBVIOUS
    <3>1. PICK j \in 1..n : SignsFor(s[j], r)
      BY <1>3, <2>2
    <3>2. PICK k \in 1..Len(s) : k > n + 1 /\ SignsFor(s[k], r)
      BY <2>7
    <3>3. /\ j \in DOMAIN s /\ k \in DOMAIN s /\ n + 1 \in DOMAIN s
          /\ j < n + 1 /\ n + 1 < k
      BY <1>1, <2>2, <3>1, <3>2
    <3>4. s[j].at <= x.at /\ x.at <= s[k].at
      BY <3>3 DEF Rounding, ByResource
    <3>5. s[j].at = r /\ s[k].at = r
      BY <3>1, <3>2 DEF SignsFor
    <3>6. r \in Nat /\ x.at \in Nat
      BY <2>2, AuthAssumption
    <3> HIDE DEF x
    <3> QED BY <2>7, <3>4, <3>5, <3>6
  <2> HIDE DEF x, More
  <2>8. CASE SignsFor(x, r)
    <3>1. x.at = r /\ ~Waits(x) /\ ForMultisig(x) /\ OnlyLast(f[n].multisig, r)
      BY <2>1, <2>4, <2>6, <2>8 DEF SignsFor
    <3>2. g[n] \in Seq(Nat)
      BY <1>3, <2>2
    <3>3. f[n + 1].multisig = AppendContrib(f[n].multisig, r, x.by) /\ g[n + 1] = Append(g[n], x.by)
      BY <2>2, <2>3, <2>8, <3>1
    <3> QED BY <2>1, <2>2, <3>1, <3>2, <3>3, AppendJoins
  <2>9. CASE ~SignsFor(x, r) /\ ~Waits(x) /\ ForMultisig(x)
    <3>1. x.at # r
      BY <2>9 DEF SignsFor
    <3>2. f[n + 1].multisig = AppendContrib(f[n].multisig, x.at, x.by) /\ g[n + 1] = g[n]
      BY <2>2, <2>3, <2>9
    <3>3. Kept(n + 1)
      BY <2>1, <2>2, <3>1, <3>2, AppendKeeps
    <3>4. Open(n + 1)
      <4> SUFFICES ASSUME More(n + 1) PROVE OnlyLast(f[n + 1].multisig, r)
        OBVIOUS
      <4>1. NoEntry(f[n].multisig, r)
        BY <2>1, <2>7, <3>1 DEF Whole, NoEntry
      <4>2. NoEntry(f[n + 1].multisig, r)
        BY <2>2, <3>1, <3>2, <4>1, AppendKeeps
      <4> QED BY <4>2 DEF NoEntry, OnlyLast
    <3> QED BY <3>3, <3>4
  <2>10. CASE ~SignsFor(x, r) /\ ~(~Waits(x) /\ ForMultisig(x))
    <3>1. f[n + 1].multisig = f[n].multisig /\ g[n + 1] = g[n]
      BY <2>2, <2>3, <2>10
    <3> QED BY <2>1, <2>5, <3>1
  <2> QED BY <2>8, <2>9, <2>10
<1>6. Len(s) \in Good
  <2>1. \A n \in Nat : n \in Good => n + 1 \in Good
    BY <1>5
  <2> HIDE DEF Good
  <2> QED BY <1>1, <1>4, <2>1, NatSetInduction
<1>7. NoneFor(f[Len(s)].pending, r)
  <2>1. Waiting(f[Len(s)].pending, s, Len(s))
    <3>1. Len(s) \in 0..Len(s)
      BY <1>1
    <3>2. \A n \in 0..Len(s) : Waiting(f[n].pending, s, n)
      BY RoundIsRight DEF Rounding
    <3> QED BY <3>1, <3>2
  <2> QED BY <2>1 DEF Waiting, NoneFor
<1> QED BY <1>1, <1>2, <1>6, <1>7

---------------------------------------------------------------------------
(* The keys of each resource are together *)

(* What resolve_pending and its sort leave to the next round. *)
LEMMA ResolvesGather ==
  ASSUME NEW t, TxBacked(t), NEW status \in {"Running", "Resolved"},
         NEW s \in Seq(Signers), ByResource(s), \A i \in DOMAIN s : s[i] \in ToSet(t.signers),
         Resolves(t, status, s), tx'.status # "Failed"
  PROVE  /\ tx'.signers = t.signers /\ tx'.changed = t.changed
         /\ Waiting(tx'.pending, s, Len(s))
         /\ \A r \in Slots : \A keys :
              ( /\ \A k \in 1..Len(s) : SignsFor(s[k], r) => Waits(s[k])
                /\ Whole(t.multisig, r, keys) )
              => /\ Whole(tx'.multisig, r, keys)
                 /\ SignedInOrder(tx'.pending, r) = SignedInOrder(s, r)
         /\ \A r \in Slots :
              ( /\ \A k \in 1..Len(s) : SignsFor(s[k], r) => ~Waits(s[k])
                /\ Whole(t.multisig, r, <<>>) )
              => Whole(tx'.multisig, r, SignedInOrder(s, r)) /\ NoneFor(tx'.pending, r)
<1> DEFINE base == Begun(t.schnorr, t.multisig)
           round == Round(s, t.schnorr, t.multisig)
           S == ToSet(t.signers)
<1>1. t \in Txs /\ S \subseteq Signers
  BY DEF TxBacked, Txs, ToSet
<1>2. RoundBacked(base, S)
  <2>1. /\ t.schnorr \in SUBSET (Slots \X Nat) /\ SingleBacked(t.schnorr, S)
        /\ t.multisig \in Seq(Entries) /\ BucketBacked(t.multisig, S)
    BY <1>1 DEF TxBacked, Txs
  <2> HIDE DEF S
  <2> QED BY <2>1, BegunBacked
<1>3. base.pending = <<>> /\ base.multisig = t.multisig /\ base \in Rounds
  BY <1>2 DEF Begun, RoundBacked
<1>4. PICK f : OneByOne(f, s, base) /\ round = f[Len(s)]
  BY RoundTakes
<1> HIDE DEF base
<1>5. \A n \in 0..Len(s) : f[n] \in Rounds
  <2>1. \A n \in 0..Len(s) : RoundBacked(f[n], S)
    <3> HIDE DEF round
    <3> QED BY <1>1, <1>2, <1>4, RoundStaysBacked
  <2> QED BY <2>1 DEF RoundBacked
<1> HIDE DEF S
<1>6. round.ok
  BY <1>1 DEF Resolves, Txs
<1>7. PICK bucket \in Sorted(round.multisig) :
        tx' = [t EXCEPT !.status = status, !.pending = round.pending,
                        !.schnorr = round.schnorr, !.multisig = bucket]
  BY <1>6 DEF Resolves
<1> HIDE DEF round
<1>8. /\ tx'.signers = t.signers /\ tx'.changed = t.changed
      /\ tx'.pending = round.pending /\ tx'.multisig = bucket
  BY <1>1, <1>7 DEF Txs
<1>9. Rounding(f, s, base) /\ Len(s) \in 0..Len(s)
  BY <1>3, <1>4, <1>5, <1>6 DEF Rounding
<1>10. round.multisig \in Seq(Entries)
  BY <1>4, <1>5, <1>9 DEF Rounds
<1>11. \A r, keys : Whole(round.multisig, r, keys) => Whole(tx'.multisig, r, keys)
  BY <1>7, <1>8, <1>10, SortedWhole
<1>12. Waiting(tx'.pending, s, Len(s))
  <2>1. \A n \in 0..Len(s) : Waiting(f[n].pending, s, n)
    BY <1>9, RoundIsRight DEF Rounding
  <2> QED BY <1>4, <1>8, <1>9, <2>1
<1>13. ASSUME NEW r \in Slots, NEW keys, Whole(t.multisig, r, keys),
              \A k \in 1..Len(s) : SignsFor(s[k], r) => Waits(s[k])
       PROVE  /\ Whole(tx'.multisig, r, keys)
              /\ SignedInOrder(tx'.pending, r) = SignedInOrder(s, r)
  <2>1. Whole(base.multisig, r, keys)
    BY <1>3, <1>13
  <2>2. /\ Whole(f[Len(s)].multisig, r, keys)
        /\ SignedInOrder(f[Len(s)].pending, r) = SignedInOrder(s, r)
    BY ONLY <1>9, <1>13, <2>1, RoundKeeps
  <2> QED BY <1>4, <1>8, <1>11, <2>2
<1>14. ASSUME NEW r \in Slots, Whole(t.multisig, r, <<>>),
              \A k \in 1..Len(s) : SignsFor(s[k], r) => ~Waits(s[k])
       PROVE  Whole(tx'.multisig, r, SignedInOrder(s, r)) /\ NoneFor(tx'.pending, r)
  <2>1. Whole(base.multisig, r, <<>>)
    BY <1>3, <1>14
  <2>2. Whole(f[Len(s)].multisig, r, SignedInOrder(s, r)) /\ NoneFor(f[Len(s)].pending, r)
    BY <1>9, <1>14, <2>1, RoundGathers
  <2> QED BY <1>4, <1>8, <1>11, <2>2
<1> QED BY <1>8, <1>12, <1>13, <1>14

(* All keys for r are in the bucket, or all of them wait. *)
Gathered(t, r) == NoneFor(t.pending, r) /\ Whole(t.multisig, r, SignedInOrder(t.signers, r))

Awaited(t, r) ==
  Whole(t.multisig, r, <<>>) /\ SignedInOrder(t.pending, r) = SignedInOrder(t.signers, r)

Together ==
  tx.status \in {"Running", "Resolved"} =>
    /\ ByResource(tx.pending)
    /\ \A i \in DOMAIN tx.pending : Gated(tx.pending[i])
    /\ \A r \in Slots : store[r] # Vacant \/ ~Mixed(r) => Gathered(tx, r) \/ Awaited(tx, r)

(* A transaction starts from what is committed, and what it creates it has  *)
(* changed.                                                                 *)
CopyTells ==
  /\ tx.status = "Idle" => work = store
  /\ \A r \in Slots : r \notin tx.changed /\ store[r] = Vacant => work[r] = Vacant

GatherInv == SignedInv /\ CopyTells /\ Together

(* A resource that is there bears a lock, and no other does. *)
LEMMA BearsLock ==
  ASSUME AuthInv, NEW r \in Slots
  PROVE  LockBearing(r) <=> work[r] # Vacant
<1>1. InPlace(r, work[r]) /\ (r # Config => r \in Accounts)
  BY DEF AuthInv, Slots
<1> QED BY <1>1 DEF InPlace, UserAt, Parses, LockBearing, Vacant

LEMMA BeginGathers ==
  ASSUME GatherInv, NEW signers \in SignerLists, NEW writable \in Writables,
         Begin(signers, writable)
  PROVE  CopyTells' /\ Together'
<1> DEFINE t == [Idle EXCEPT !.signers = signers, !.writable = writable]
<1>1. /\ tx.status = "Idle" /\ Resolves(t, "Running", signers) /\ work = store
      /\ work' = work /\ store' = store
  BY DEF Begin, GatherInv, CopyTells
<1>2. signers \in Seq(Signers) /\ ByResource(signers)
  BY AuthAssumption
<1>3. TxBacked(t) /\ t \in Txs
  <2>1. TxBacked(Idle) /\ Idle \in Txs
    BY IdleBacked DEF TxBacked
  <2>2. /\ t \in Txs /\ t.signers = signers /\ t.pending = Idle.pending
        /\ t.schnorr = Idle.schnorr /\ t.multisig = Idle.multisig
    BY <1>2, <2>1 DEF Txs
  <2> HIDE DEF t
  <2> QED BY <2>2 DEF TxBacked, SingleBacked, BucketBacked, Idle
<1>4. t.signers = signers /\ t.multisig = <<>> /\ t.changed = {} /\ t.pending = <<>>
  BY DEF Idle
<1> HIDE DEF t
<1>5. CASE tx'.status = "Failed"
  <2>1. tx'.changed = {}
    <3>1. tx'.changed = t.changed
      BY <1>1, <1>3 DEF Resolves, Txs
    <3> QED BY <1>4, <3>1
  <2> QED BY <1>1, <1>5, <2>1 DEF CopyTells, Together
<1>6. CASE tx'.status # "Failed"
  <2>1. \A i \in DOMAIN signers : signers[i] \in ToSet(t.signers)
    BY <1>4 DEF ToSet
  <2>2. /\ tx'.signers = signers /\ tx'.changed = {}
        /\ Waiting(tx'.pending, signers, Len(signers))
        /\ \A r \in Slots :
             ( /\ \A k \in 1..Len(signers) : SignsFor(signers[k], r) => Waits(signers[k])
               /\ Whole(t.multisig, r, <<>>) )
             => /\ Whole(tx'.multisig, r, <<>>)
                /\ SignedInOrder(tx'.pending, r) = SignedInOrder(signers, r)
        /\ \A r \in Slots :
             ( /\ \A k \in 1..Len(signers) : SignsFor(signers[k], r) => ~Waits(signers[k])
               /\ Whole(t.multisig, r, <<>>) )
             => Whole(tx'.multisig, r, SignedInOrder(signers, r)) /\ NoneFor(tx'.pending, r)
    BY <1>1, <1>2, <1>3, <1>4, <1>6, <2>1, ResolvesGather
  <2>3. CopyTells'
    <3>1. tx'.status # "Idle"
      BY <1>1, <1>3 DEF Resolves, Txs
    <3> QED BY <1>1, <2>2, <3>1 DEF CopyTells
  <2>4. \A r \in Slots : Whole(t.multisig, r, <<>>)
    BY <1>4 DEF Whole
  <2>5. ASSUME NEW r \in Slots, store[r] # Vacant \/ ~Mixed(r)'
        PROVE  Gathered(tx', r) \/ Awaited(tx', r)
    <3>1. CASE \A k \in 1..Len(signers) : SignsFor(signers[k], r) => ~Waits(signers[k])
      BY <2>2, <2>4, <3>1 DEF Gathered
    <3>2. CASE \A k \in 1..Len(signers) : SignsFor(signers[k], r) => Waits(signers[k])
      BY <2>2, <2>4, <3>2 DEF Awaited
    <3>3. ASSUME NEW j \in 1..Len(signers), SignsFor(signers[j], r), Waits(signers[j]),
                 NEW k \in 1..Len(signers), SignsFor(signers[k], r), ~Waits(signers[k])
          PROVE  FALSE
      <4>1. signers[j].at = r /\ signers[k].at = r
        BY <3>3 DEF SignsFor
      <4>2. Gated(signers[j]) /\ ~LockBearing(r) /\ ~Gated(signers[k])
        BY <3>3, <4>1 DEF Waits
      <4>3. store[r] = Vacant
        BY <1>1, <4>2, BearsLock DEF GatherInv, SignedInv
      <4>4. signers[j] \in ToSet(tx'.signers) /\ signers[k] \in ToSet(tx'.signers)
        BY <1>2, <2>2 DEF ToSet
      <4>5. Mixed(r)'
        BY <4>1, <4>2, <4>4 DEF Mixed, Gated
      <4> QED BY <2>5, <4>3, <4>5
    <3> QED BY <3>1, <3>2, <3>3
  <2>6. ByResource(tx'.pending) /\ \A i \in DOMAIN tx'.pending : Gated(tx'.pending[i])
    BY <2>2 DEF Waiting, Waits
  <2>7. Together'
    BY <1>1, <2>5, <2>6 DEF Together
  <2> QED BY <2>3, <2>7
<1> QED BY <1>5, <1>6

LEMMA AgainGathers ==
  ASSUME GatherInv, ResolveAgain
  PROVE  CopyTells' /\ Together'
<1> DEFINE s == tx.pending
<1>1. /\ tx.status = "Running" /\ Resolves(tx, "Resolved", s)
      /\ work' = work /\ store' = store
  BY DEF ResolveAgain
<1>2. /\ TxBacked(tx) /\ tx \in Txs /\ s \in Seq(Signers) /\ AuthInv
      /\ \A i \in DOMAIN s : s[i] \in ToSet(tx.signers)
  BY DEF GatherInv, SignedInv, TxBacked, Txs
<1>3. /\ ByResource(s) /\ \A i \in DOMAIN s : Gated(s[i])
      /\ \A r \in Slots : store[r] # Vacant \/ ~Mixed(r) => Gathered(tx, r) \/ Awaited(tx, r)
  BY <1>1 DEF GatherInv, Together
<1>4. DOMAIN s = 1..Len(s)
  BY <1>2
<1> HIDE DEF s
<1>5. CASE tx'.status = "Failed"
  <2>1. tx'.changed = tx.changed
    BY <1>1, <1>2 DEF Resolves, Txs
  <2> QED BY <1>1, <1>5, <2>1 DEF GatherInv, CopyTells, Together
<1>6. CASE tx'.status # "Failed"
  <2>1. /\ tx'.signers = tx.signers /\ tx'.changed = tx.changed
        /\ Waiting(tx'.pending, s, Len(s))
        /\ \A r \in Slots : \A keys :
             ( /\ \A k \in 1..Len(s) : SignsFor(s[k], r) => Waits(s[k])
               /\ Whole(tx.multisig, r, keys) )
             => /\ Whole(tx'.multisig, r, keys)
                /\ SignedInOrder(tx'.pending, r) = SignedInOrder(s, r)
        /\ \A r \in Slots :
             ( /\ \A k \in 1..Len(s) : SignsFor(s[k], r) => ~Waits(s[k])
               /\ Whole(tx.multisig, r, <<>>) )
             => Whole(tx'.multisig, r, SignedInOrder(s, r)) /\ NoneFor(tx'.pending, r)
    BY <1>1, <1>2, <1>3, <1>6, ResolvesGather
  <2>2. CopyTells'
    <3>1. tx'.status # "Idle"
      BY <1>1, <1>2 DEF Resolves, Txs
    <3> QED BY <1>1, <2>1, <3>1 DEF GatherInv, CopyTells
  <2>3. ASSUME NEW r \in Slots, store[r] # Vacant \/ ~Mixed(r)
        PROVE  Gathered(tx', r) \/ Awaited(tx', r)
    <3>1. CASE Gathered(tx, r)
      <4>1. \A k \in 1..Len(s) : ~SignsFor(s[k], r)
        BY <1>4, <3>1 DEF Gathered, NoneFor, s
      <4>2. Whole(tx'.multisig, r, SignedInOrder(tx.signers, r))
        BY <2>1, <3>1, <4>1 DEF Gathered
      <4>3. NoneFor(tx'.pending, r)
        BY <2>1, <4>1 DEF Waiting, NoneFor
      <4> QED BY <2>1, <4>2, <4>3 DEF Gathered
    <3>2. CASE Awaited(tx, r)
      <4>1. Whole(tx.multisig, r, <<>>) /\ SignedInOrder(s, r) = SignedInOrder(tx.signers, r)
        BY <3>2 DEF Awaited, s
      <4>2. CASE LockBearing(r)
        <5>1. \A k \in 1..Len(s) : SignsFor(s[k], r) => ~Waits(s[k])
          BY <4>2 DEF SignsFor, Waits
        <5>2. Whole(tx'.multisig, r, SignedInOrder(s, r)) /\ NoneFor(tx'.pending, r)
          BY <2>1, <4>1, <5>1
        <5> QED BY <2>1, <4>1, <5>2 DEF Gathered
      <4>3. CASE ~LockBearing(r)
        <5>1. \A k \in 1..Len(s) : SignsFor(s[k], r) => Waits(s[k])
          BY <1>3, <1>4, <4>3 DEF SignsFor, Waits
        <5>2. /\ Whole(tx'.multisig, r, <<>>)
              /\ SignedInOrder(tx'.pending, r) = SignedInOrder(s, r)
          BY <2>1, <4>1, <5>1
        <5> QED BY <2>1, <4>1, <5>2 DEF Awaited
      <4> QED BY <4>2, <4>3
    <3> QED BY <1>3, <2>3, <3>1, <3>2
  <2>4. ByResource(tx'.pending) /\ \A i \in DOMAIN tx'.pending : Gated(tx'.pending[i])
    BY <2>1 DEF Waiting, Waits
  <2>5. \A r \in Slots : Mixed(r)' <=> Mixed(r)
    BY <2>1 DEF Mixed
  <2>6. Together'
    BY <1>1, <2>3, <2>4, <2>5 DEF Together
  <2> QED BY <2>2, <2>6
<1> QED BY <1>5, <1>6

(* An action leaves what was collected, and says what it creates. *)
LEMMA AppliesGather ==
  ASSUME GatherInv, NEW w, NEW changed \in SUBSET Slots, Ready, Applies(w, changed),
         \A r \in Slots : r \notin changed /\ work[r] = Vacant => w[r] = Vacant
  PROVE  CopyTells' /\ Together'
<1>1. tx \in Txs /\ tx.status \in {"Running", "Resolved"}
  BY DEF Ready, GatherInv, SignedInv, TxBacked
<1>2. /\ tx'.status = "Running" /\ tx'.changed = tx.changed \cup changed
      /\ tx'.signers = tx.signers /\ tx'.pending = tx.pending /\ tx'.multisig = tx.multisig
      /\ store' = store /\ work' = w
  BY <1>1 DEF Applies, Txs
<1>3. CopyTells'
  BY <1>2 DEF GatherInv, CopyTells
<1>4. Together'
  <2>1. \A r \in Slots : Mixed(r)' <=> Mixed(r)
    BY <1>2 DEF Mixed
  <2>2. \A r \in Slots : /\ Gathered(tx, r) => Gathered(tx', r)
                         /\ Awaited(tx, r) => Awaited(tx', r)
    BY <1>2 DEF Gathered, Awaited
  <2>3. /\ ByResource(tx.pending)
        /\ \A i \in DOMAIN tx.pending : Gated(tx.pending[i])
        /\ \A r \in Slots : store[r] # Vacant \/ ~Mixed(r) => Gathered(tx, r) \/ Awaited(tx, r)
    BY <1>1 DEF GatherInv, Together
  <2>4. ByResource(tx'.pending) /\ \A i \in DOMAIN tx'.pending : Gated(tx'.pending[i])
    BY <1>2, <2>3
  <2>5. ASSUME NEW r \in Slots, store'[r] # Vacant \/ ~Mixed(r)'
        PROVE  Gathered(tx', r) \/ Awaited(tx', r)
    <3>1. store'[r] = store[r]
      BY <1>2
    <3>2. store[r] # Vacant \/ ~Mixed(r)
      BY <2>1, <2>5, <3>1, Zenon
    <3>3. Gathered(tx, r) \/ Awaited(tx, r)
      BY <2>3, <3>2
    <3> QED BY <2>2, <3>3
  <2> QED BY <2>4, <2>5 DEF Together
<1> QED BY <1>3, <1>4

(* Written resources are the only ones that change. *)
LEMMA WriteTells ==
  ASSUME AuthInv, NEW at \in Slots, NEW data
  PROVE  \A r \in Slots : r # at => [work EXCEPT ![at] = data][r] = work[r]
BY DEF AuthInv

LEMMA GatherInit == Init => GatherInv
<1> SUFFICES ASSUME Init PROVE GatherInv
  OBVIOUS
<1>1. SignedInv
  BY SignedInit
<1>2. CopyTells /\ Together
  BY DEF Init, CopyTells, Together, Idle
<1> QED BY <1>1, <1>2 DEF GatherInv

LEMMA GatherNext == GatherInv /\ [Next]_vars => GatherInv'
<1> SUFFICES ASSUME GatherInv, [Next]_vars PROVE CopyTells' /\ Together'
  BY SignedNext DEF GatherInv
<1>1. AuthInv /\ tx \in Txs
  BY DEF GatherInv, SignedInv, TxBacked
<1>2. ASSUME NEW signers \in SignerLists, NEW writable \in Writables, Begin(signers, writable)
      PROVE  CopyTells' /\ Together'
  BY <1>2, BeginGathers
<1>3. CASE ResolveAgain
  BY <1>3, AgainGathers
<1>4. CASE Reject
  <2>1. /\ tx'.status = "Failed" /\ tx'.changed = tx.changed
        /\ store' = store /\ work' = work
    BY <1>1, <1>4 DEF Reject, Txs
  <2> QED BY <2>1 DEF GatherInv, CopyTells, Together
<1>5. CASE Commit \/ Rollback
  <2>1. tx'.status = "Idle" /\ tx'.changed = {} /\ work' = store'
    BY <1>5 DEF Commit, Rollback, Idle
  <2> QED BY <2>1 DEF CopyTells, Together
<1>6. CASE UNCHANGED vars
  BY <1>6 DEF vars, GatherInv, CopyTells, Together, Gathered, Awaited, Mixed
<1>7. ASSUME NEW lock \in NewLocks, InitConfig(lock) \/ UpdateConfig(lock)
      PROVE  CopyTells' /\ Together'
  <2> DEFINE w == [work EXCEPT ![Config] = ConfigData(lock)]
  <2>1. Ready /\ Applies(w, {Config}) /\ Config \in Slots
    BY <1>7 DEF InitConfig, UpdateConfig, Slots
  <2>2. \A r \in Slots : r \notin {Config} => w[r] = work[r]
    BY <1>1, <2>1, WriteTells
  <2> HIDE DEF w
  <2> QED BY <2>1, <2>2, AppliesGather
<1>8. ASSUME NEW at \in Accounts, Deposit(at) PROVE CopyTells' /\ Together'
  <2> DEFINE born == [work EXCEPT ![at] = UserData(1, Born[at], Born[at])]
             raised == [work EXCEPT ![at] = SetBalance(work[at], Balance(work[at]) + 1)]
  <2>1. at \in Slots /\ Ready
    BY <1>8 DEF Slots, Deposit
  <2>2. \A r \in Slots : r # at => born[r] = work[r] /\ raised[r] = work[r]
    BY <1>1, <2>1, WriteTells
  <2>3. IF work[at] = Vacant THEN Applies(born, {at}) ELSE Applies(raised, {})
    BY <1>8 DEF Deposit
  <2> HIDE DEF born, raised
  <2>4. CASE work[at] = Vacant
    <3>1. Applies(born, {at}) /\ {at} \in SUBSET Slots
      BY <2>1, <2>3, <2>4
    <3>2. \A r \in Slots : r \notin {at} /\ work[r] = Vacant => born[r] = Vacant
      BY <2>2
    <3> QED BY <2>1, <3>1, <3>2, AppliesGather
  <2>5. CASE work[at] # Vacant
    <3>1. Applies(raised, {})
      BY <2>3, <2>5
    <3>2. \A r \in Slots : r \notin {} /\ work[r] = Vacant => raised[r] = Vacant
      BY <2>2, <2>5
    <3> QED BY <2>1, <3>1, <3>2, AppliesGather
  <2> QED BY <2>4, <2>5
<1>9. ASSUME NEW at \in Accounts, NEW lock \in NewLocks, UpdateUserLock(at, lock)
      PROVE  CopyTells' /\ Together'
  <2> DEFINE w == [work EXCEPT ![at] = SetUserLock(work[at], lock)]
  <2>1. Ready /\ Applies(w, {at}) /\ at \in Slots
    BY <1>9 DEF UpdateUserLock, Slots
  <2>2. \A r \in Slots : r \notin {at} => w[r] = work[r]
    BY <1>1, <2>1, WriteTells
  <2> HIDE DEF w
  <2> QED BY <2>1, <2>2, AppliesGather
<1>10. ASSUME NEW source \in Accounts, NEW dest \in Accounts, Transfer(source, dest)
       PROVE  CopyTells' /\ Together'
  <2> DEFINE debited == [work EXCEPT ![source] = SetBalance(@, Balance(@) - 1)]
             born == [debited EXCEPT ![dest] = UserData(1, Born[dest], Born[dest])]
             credited == [debited EXCEPT ![dest] = SetBalance(@, Balance(@) + 1)]
  <2>1. /\ source \in Slots /\ dest \in Slots /\ Ready /\ Acts(source)
        /\ IF work[dest] = Vacant THEN Applies(born, {dest}) ELSE Applies(credited, {})
    BY <1>10 DEF Slots, Transfer
  <2>2. work[source] # Vacant
    BY <2>1 DEF Acts, Parses, Vacant
  <2>3. DOMAIN debited = Slots /\ \A r \in Slots : r # source => debited[r] = work[r]
    BY <1>1, <2>1, WriteTells DEF AuthInv
  <2> HIDE DEF debited
  <2>4. \A r \in Slots : r # source /\ r # dest => born[r] = work[r] /\ credited[r] = work[r]
    BY <2>3
  <2> HIDE DEF born, credited
  <2>5. CASE work[dest] = Vacant
    <3>1. Applies(born, {dest}) /\ {dest} \in SUBSET Slots
      BY <2>1, <2>5
    <3>2. \A r \in Slots : r \notin {dest} /\ work[r] = Vacant => born[r] = Vacant
      BY <2>2, <2>4
    <3> QED BY <2>1, <3>1, <3>2, AppliesGather
  <2>6. CASE work[dest] # Vacant
    <3>1. Applies(credited, {})
      BY <2>1, <2>6
    <3>2. \A r \in Slots : r \notin {} /\ work[r] = Vacant => credited[r] = Vacant
      BY <2>2, <2>4, <2>6
    <3> QED BY <2>1, <3>1, <3>2, AppliesGather
  <2> QED BY <2>5, <2>6
<1> QED BY <1>2, <1>3, <1>4, <1>5, <1>6, <1>7, <1>8, <1>9, <1>10 DEF Next

(* No lock opens to no key. *)
LEMMA NoKeyOpens ==
  ASSUME NEW lock, lock.tag = MULTISIG, ValidBody(lock.tag, lock.body)
  PROVE  ~Satisfies(<<>>, lock)
<1>1. Threshold(lock) \in 1..lock.body[2]
  BY DEF ValidBody, MultisigBody, Threshold, SCHNORR, MULTISIG, UNLOCKED
<1>2. ToSet(<<>>) \cap ToSet(KeysOf(lock)) = {}
  BY DEF ToSet
<1>3. Cardinality({}) = 0
  BY FS_EmptySet
<1>4. Threshold(lock) \in Int /\ 1 <= Threshold(lock)
  BY <1>1
<1> HIDE DEF Threshold
<1>5. ~(0 >= Threshold(lock))
  BY <1>4
<1>6. Satisfies(<<>>, lock) => 0 >= Threshold(lock)
  BY <1>2, <1>3, Zenon DEF Satisfies
<1> QED BY <1>5, <1>6

LEMMA GatheredSuffices ==
  ASSUME GatherInv
  PROVE  SignersSuffice
<1> SUFFICES ASSUME NEW r \in Slots, tx.status \in {"Running", "Resolved"},
                    LockIn(work[r]).tag = MULTISIG,
                    Satisfies(SignedInOrder(tx.signers, r), LockIn(work[r])),
                    \A s \in ToSet(tx.pending) : s.at # r,
                    r \in tx.changed => (store[r] = Vacant /\ ~Mixed(r))
             PROVE  /\ EntriesOf(r) # {}
                    /\ \A e \in EntriesOf(r) : Satisfies(e.keys, LockIn(work[r]))
  BY DEF SignersSuffice
<1> DEFINE keys == SignedInOrder(tx.signers, r)
<1>1. AuthInv /\ tx.multisig \in Seq(Entries) /\ tx.pending \in Seq(Signers)
  BY DEF GatherInv, SignedInv, TxBacked, Txs
<1>2. work[r] # Vacant
  BY DEF LockIn, Vacant, MULTISIG
<1>3. ValidBody(LockIn(work[r]).tag, LockIn(work[r]).body)
  BY <1>1, <1>2, LockThere
<1>4. keys # <<>>
  BY <1>3, NoKeyOpens
<1>5. store[r] # Vacant \/ ~Mixed(r)
  BY <1>2 DEF GatherInv, CopyTells
<1>6. NoneFor(tx.pending, r)
  BY DEF NoneFor, SignsFor, ToSet
<1>7. ~Awaited(tx, r)
  BY <1>1, <1>4, <1>6, InOrderNone DEF Awaited
<1>8. Whole(tx.multisig, r, keys)
  BY <1>5, <1>7 DEF GatherInv, Together, Gathered
<1> HIDE DEF keys
<1>9. EntriesOf(r) # {}
  BY <1>4, <1>8 DEF Whole, EntriesOf, ToSet
<1>10. \A e \in EntriesOf(r) : e.keys = keys
  BY <1>8 DEF Whole, EntriesOf, ToSet
<1> QED BY <1>9, <1>10 DEF keys

(* A multisig lock that was there before the transaction, or of a user the  *)
(* transaction creates, opens to all keys that signed for it, in the order  *)
(* of the wire: however many resources sign in between, whichever round     *)
(* resolves them and whatever the unstable sort does, the keys of one       *)
(* resource end in one entry and keep their order (resolve_pending,         *)
(* append_multisig_contrib).                                                *)
THEOREM AuthSignersSuffice == Spec => []SignersSuffice
<1>1. Spec => []GatherInv
  BY GatherInit, GatherNext, PTL DEF Spec
<1> QED BY <1>1, GatheredSuffices, PTL

=============================================================================
