------------------------------ MODULE LaneProofs ------------------------------
(***************************************************************************)
(* Theorems about Lane: the guest reads in every carrier what its sender   *)
(* meant, whatever the order of the ids, and what it does then is a step   *)
(* of the ledger.                                                          *)
(*                                                                         *)
(* A stream is read field by field.  What is proved of a reader always has *)
(* one form: of a buffer that starts with what the writer wrote, it        *)
(* returns the value written and the rest of the buffer.                   *)
(***************************************************************************)
EXTENDS Lane, LedgerProofs

---------------------------------------------------------------------------
(* One field *)

LEMMA WidthRead ==
  ASSUME NEW f, NEW r, IsRow(r), NEW w, f.width = w
  PROVE  C!ReadWidth(<<f>> \o r, w) = C!Good(f.value, r)
BY FieldFirst DEF C!ReadWidth, C!NextIs

LEMMA ByteRead ==
  ASSUME NEW f, NEW r, IsRow(r), f.width = 1, NEW D, f.value \in D
  PROVE  C!ReadByteIn(<<f>> \o r, D) = C!Good(f.value, r)
BY FieldFirst DEF C!ReadByteIn, C!NextIs

LEMMA IdxRead ==
  ASSUME NEW r, IsRow(r), NEW n, NEW idx \in 0..(n - 1)
  PROVE  C!ReadResourceIdx(<<C!U8(idx)>> \o r, n) = C!Good(idx, r)
<1>1. C!U8(idx).width = 1 /\ C!U8(idx).value = idx
  BY DEF C!U8
<1>2. C!ReadByteIn(<<C!U8(idx)>> \o r, 0..(n - 1)) = C!Good(C!U8(idx).value, r)
  BY <1>1, ByteRead
<1> QED BY <1>1, <1>2 DEF C!ReadResourceIdx

(* LockEnum: encode and decode. *)
LEMMA LockRead ==
  ASSUME NEW lock, NEW r, IsRow(r)
  PROVE  IsRow(C!EncodeLock(lock)) /\ C!DecodeLock(C!EncodeLock(lock) \o r) = C!Good(lock, r)
<1>1. C!LockTag.Schnorr = 1 /\ C!LockTag.Unlocked = 3
  BY DEF C!LockTag
<1>2. CASE lock = Unlocked
  <2> DEFINE f == C!U8(C!LockTag.Unlocked)
             buf == <<f>> \o r
  <2>1. f.width = 1 /\ f.value = 3
    BY <1>1 DEF C!U8
  <2>2. C!EncodeLock(lock) = <<f>>
    BY <1>2 DEF C!EncodeLock
  <2> HIDE DEF f
  <2>3. buf # <<>> /\ Head(buf) = f /\ Tail(buf) = r
    BY FieldFirst
  <2> HIDE DEF buf
  <2>4. C!DecodeLock(buf) = C!Good(lock, r)
    BY <1>1, <1>2, <2>1, <2>3 DEF C!DecodeLock, C!ReadByteIn, C!NextIs, C!Good
  <2> QED BY <2>2, <2>4, FieldFirst DEF buf
<1>3. CASE lock # Unlocked
  <2> DEFINE f == C!U8(C!LockTag.Schnorr)
             g == C!B32(lock)
             rest == <<g>> \o r
             buf == <<f>> \o rest
  <2>1. f.width = 1 /\ f.value = 1 /\ g.width = 32 /\ g.value = lock
    BY <1>1 DEF C!U8, C!B32
  <2>2. C!EncodeLock(lock) = <<f, g>>
    BY <1>3 DEF C!EncodeLock
  <2> HIDE DEF f, g
  <2>3. <<f, g>> \o r = buf /\ IsRow(<<f, g>>) /\ IsRow(rest)
    <3> DEFINE front == <<f, g>>
    <3>1. IsTwo(front, f, g)
      BY DEF IsTwo
    <3> HIDE DEF front
    <3>2. front \o r = buf /\ IsRow(front)
      BY <3>1, TwoFields
    <3> QED BY <3>2, FieldFirst DEF front
  <2>4. C!ReadWidth(rest, 32) = C!Good(lock, r)
    BY <2>1, WidthRead
  <2> HIDE DEF rest
  <2>5. buf # <<>> /\ Head(buf) = f /\ Tail(buf) = rest
    BY <2>3, FieldFirst
  <2> HIDE DEF buf
  <2>6. C!ReadWidth(Tail(buf), 32) = C!Good(lock, r)
    BY <2>4, <2>5
  <2>7. C!DecodeLock(buf) = C!ReadWidth(Tail(buf), 32)
    BY <1>1, <2>1, <2>5 DEF C!DecodeLock, C!ReadByteIn, C!NextIs, C!Good
  <2> QED BY <2>2, <2>3, <2>6, <2>7
<1> QED BY <1>2, <1>3

---------------------------------------------------------------------------
(* Reading one thing after another.  A fold over a sequence is a chain:    *)
(* what has been read after k steps is one step from what was after k - 1. *)

DecodeOne(kind, n, buf) ==
  IF kind = "signer" THEN C!DecodeSigner(buf, n) ELSE C!DecodeAction(buf, n)

(* The step of DecodeAction ("field", over the fields of an action) and of *)
(* Many ("signer" and "action", over numbers).                             *)
StepOf(kind, n, items, i, sofar) ==
  IF kind = "field"
  THEN LET got == IF sofar.ok THEN C!ReadField(items[i][2], sofar.rest, n) ELSE C!Bad
       IN  IF got.ok THEN C!Good(C!WithField(sofar.value, items[i][1], got.value), got.rest)
                     ELSE C!Bad
  ELSE LET got == IF sofar.ok THEN DecodeOne(kind, n, sofar.rest) ELSE C!Bad
       IN  IF got.ok THEN C!Good(Append(sofar.value, got.value), got.rest) ELSE C!Bad

ReadingOf(it, kind, n, items, base, s) ==
  IF s = {} THEN base ELSE StepOf(kind, n, items, C!Max(s), it[s \ {C!Max(s)}])

IsReading(it, kind, n, items, base, S) ==
  it = [s \in SUBSET S |-> ReadingOf(it, kind, n, items, base, s)]

(* What the fold returns. *)
Chosen(kind, n, items, base, S) == (CHOOSE it : IsReading(it, kind, n, items, base, S))[S]

LEMMA GreatestIn ==
  ASSUME NEW k \in Nat, NEW s \in SUBSET (1..k), s # {}
  PROVE  C!Max(s) \in s /\ IsFiniteSet(s) /\ Cardinality(s) \in Nat
         /\ Cardinality(s \ {C!Max(s)}) = Cardinality(s) - 1
<1>1. IsFiniteSet(s)
  <2>1. IsFiniteSet(1..k)
    BY FS_Interval
  <2> QED BY <2>1, FS_Subset
<1>2. \E x \in s : \A y \in s : x >= y
  <2> DEFINE Below == { k - x : x \in s }
  <2>1. Below \subseteq Nat /\ Below # {}
    <3>1. \A x \in s : x \in 1..k
      OBVIOUS
    <3>2. \A x \in s : k - x \in Nat
      BY <3>1
    <3>3. PICK x \in s : TRUE
      OBVIOUS
    <3>4. k - x \in Below
      BY <3>3
    <3> QED BY <3>2, <3>4
  <2>2. PICK m \in Below : \A b \in Below : m <= b
    BY <2>1, LeastNat
  <2>3. PICK x \in s : m = k - x
    OBVIOUS
  <2>4. ASSUME NEW y \in s PROVE x >= y
    <3>1. m <= k - y
      BY <2>2
    <3>2. x \in 1..k /\ y \in 1..k
      BY ONLY s \in SUBSET (1..k), x \in s, y \in s
    <3> QED BY <2>3, <3>1, <3>2
  <2> QED BY <2>4
<1>3. C!Max(s) \in s
  BY <1>2 DEF C!Max
<1> QED BY <1>1, <1>3, FS_CardinalityType, FS_RemoveElement

(* The recursive function a fold chooses exists. *)
LEMMA ReadingExists ==
  ASSUME NEW kind, NEW n, NEW items, NEW base, NEW k \in Nat
  PROVE  \E it : IsReading(it, kind, n, items, base, 1..k)
<1> DEFINE S == 1..k
           V(it, s) == ReadingOf(it, kind, n, items, base, s)
           Defined == {m \in Nat : \E it : it = [s \in UpTo(S, m) |-> V(it, s)]}
<1>1. /\ IsFiniteSet(S) /\ Cardinality(S) = k
      /\ \A s \in SUBSET S : IsFiniteSet(s) /\ Cardinality(s) \in Nat
  <2>1. IsFiniteSet(S) /\ Cardinality(S) = k
    BY FS_Interval
  <2> QED BY <2>1, FS_Subset, FS_CardinalityType
<1>2. 0 \in Defined
  <2> DEFINE it == [s \in UpTo(S, 0) |-> base]
  <2>1. \A s \in UpTo(S, 0) : s = {}
    BY <1>1, FS_EmptySet DEF UpTo
  <2>2. it = [s \in UpTo(S, 0) |-> V(it, s)]
    BY <2>1 DEF ReadingOf
  <2> QED BY <2>2
<1>3. ASSUME NEW m \in Nat, m \in Defined PROVE m + 1 \in Defined
  <2>1. PICK it : it = [s \in UpTo(S, m) |-> V(it, s)]
    BY <1>3
  <2> DEFINE next == [s \in UpTo(S, m + 1) |-> V(it, s)]
  <2>2. ASSUME NEW s \in UpTo(S, m + 1), s # {}
        PROVE  next[s \ {C!Max(s)}] = it[s \ {C!Max(s)}]
    <3>1. s \in SUBSET (1..k) /\ Cardinality(s) <= m + 1
      BY DEF UpTo
    <3>2. /\ Cardinality(s \ {C!Max(s)}) = Cardinality(s) - 1
          /\ Cardinality(s) \in Nat
      BY <2>2, <3>1, GreatestIn
    <3>3. s \ {C!Max(s)} \in UpTo(S, m) /\ s \ {C!Max(s)} \in UpTo(S, m + 1)
      <4>1. Cardinality(s) - 1 <= m /\ Cardinality(s) - 1 <= m + 1
        BY <3>1, <3>2
      <4> QED BY <3>1, <3>2, <4>1 DEF UpTo
    <3>4. it[s \ {C!Max(s)}] = V(it, s \ {C!Max(s)})
      BY <2>1, <3>3
    <3> QED BY <3>3, <3>4
  <2>3. \A s \in UpTo(S, m + 1) : V(next, s) = V(it, s)
    <3> HIDE DEF next
    <3> QED BY <2>2 DEF ReadingOf
  <2>4. next = [s \in UpTo(S, m + 1) |-> V(next, s)]
    BY <2>3
  <2> HIDE DEF next
  <2>5. \E it2 : it2 = [s \in UpTo(S, m + 1) |-> V(it2, s)]
    BY <2>4
  <2> QED BY <2>5
<1>4. k \in Defined
  <2> HIDE DEF Defined
  <2> QED BY <1>2, <1>3, NatSetInduction
<1>5. UpTo(S, k) = SUBSET S
  <2>1. \A s \in SUBSET S : Cardinality(s) <= k
    BY <1>1, FS_Subset
  <2> QED BY <2>1 DEF UpTo
<1> QED BY <1>4, <1>5 DEF IsReading

(* c is a chain of k steps from base. *)
IsChain(c, kind, n, items, base, k) ==
  c[0] = base /\ \A i \in 1..k : c[i] = StepOf(kind, n, items, i, c[i - 1])

LEMMA ReadingIsChain ==
  ASSUME NEW kind, NEW n, NEW items, NEW base, NEW k \in Nat
  PROVE  \E c : IsChain(c, kind, n, items, base, k) /\ c[k] = Chosen(kind, n, items, base, 1..k)
<1> DEFINE it == CHOOSE it : IsReading(it, kind, n, items, base, 1..k)
<1>0. IsReading(it, kind, n, items, base, 1..k) /\ Chosen(kind, n, items, base, 1..k) = it[1..k]
  BY ReadingExists DEF Chosen
<1> HIDE DEF it
<1> DEFINE c == [i \in 0..k |-> it[1..i]]
<1>1. c[0] = base
  <2>1. {} \in SUBSET (1..k) /\ 1..0 = {}
    OBVIOUS
  <2> QED BY <1>0, <2>1 DEF IsReading, ReadingOf
<1>2. ASSUME NEW i \in 1..k PROVE c[i] = StepOf(kind, n, items, i, c[i - 1])
  <2>1. 1..i \in SUBSET (1..k) /\ 1..i # {} /\ (1..i) \ {i} = 1..(i - 1)
    OBVIOUS
  <2>2. C!Max(1..i) = i
    <3>1. C!Max(1..i) \in 1..i /\ C!Max(1..i) >= i
      <4>1. \E x \in 1..i : \A y \in 1..i : x >= y
        BY <2>1
      <4> QED BY <2>1, <4>1 DEF C!Max
    <3> QED BY <3>1
  <2>3. it[1..i] = StepOf(kind, n, items, i, it[1..(i - 1)])
    BY <1>0, <2>1, <2>2 DEF IsReading, ReadingOf
  <2> QED BY <2>3
<1> HIDE DEF c
<1>3. c[k] = Chosen(kind, n, items, base, 1..k)
  BY <1>0 DEF c
<1> QED BY <1>1, <1>2, <1>3 DEF IsChain

LEMMA ActionIsChosen ==
  ASSUME NEW buf, NEW n
  PROVE  C!DecodeAction(buf, n) =
           LET tag  == C!ReadByteIn(buf, { C!ActionTag[t] : t \in DOMAIN C!ActionTag })
               name == CHOOSE t \in DOMAIN C!ActionTag : C!ActionTag[t] = tag.value
           IN  IF tag.ok
               THEN Chosen("field", n, C!ActionBody[name],
                           C!Good([action_tag |-> name], tag.rest), DOMAIN C!ActionBody[name])
               ELSE C!Bad
BY DEF C!DecodeAction, C!FoldLeft, C!MapThenFoldSet, Chosen, IsReading, ReadingOf, StepOf

(* Reader::many, of signers or of actions. *)
ReadMany(kind, n, buf) ==
  IF C!NextIs(buf, 4)
  THEN Chosen(kind, n, <<>>, C!Good(<<>>, Tail(buf)), DOMAIN [i \in 1..Head(buf).value |-> i])
  ELSE C!Bad

LEMMA IxIsRead ==
  ASSUME NEW ix, NEW n
  PROVE  C!DecodeIx(ix, n) =
           LET signers == ReadMany("signer", n, ix)
               actions == IF signers.ok /\ C!SignersAscend(signers.value)
                          THEN ReadMany("action", n, signers.rest)
                          ELSE C!Bad
           IN  IF actions.ok
               THEN [ok |-> TRUE, signers |-> signers.value, actions |-> actions.value,
                     tail |-> actions.rest]
               ELSE C!Bad
BY DEF C!DecodeIx, C!Many, C!FoldLeft, C!MapThenFoldSet, Chosen, IsReading, ReadingOf, StepOf,
       ReadMany, DecodeOne

---------------------------------------------------------------------------
(* The fields of an action *)

LEMMA FieldJoins ==
  ASSUME NEW c, NEW n, NEW items, NEW base, NEW k \in Nat,
         IsChain(c, "field", n, items, base, k), NEW i \in 1..k,
         NEW action, NEW buf, c[i - 1] = C!Good(action, buf),
         NEW name, NEW type, items[i] = <<name, type>>,
         NEW value, NEW rest, C!ReadField(type, buf, n) = C!Good(value, rest)
  PROVE  c[i] = C!Good(C!WithField(action, name, value), rest)
<1>1. c[i] = StepOf("field", n, items, i, c[i - 1])
  BY DEF IsChain
<1>2. c[i - 1].ok /\ c[i - 1].value = action /\ c[i - 1].rest = buf
  BY DEF C!Good
<1>3. items[i][1] = name /\ items[i][2] = type
  OBVIOUS
<1> DEFINE got == C!ReadField(type, buf, n)
<1>4. got.ok /\ got.value = value /\ got.rest = rest
  BY DEF C!Good
<1> HIDE DEF got
<1>5. StepOf("field", n, items, i, c[i - 1]) = C!Good(C!WithField(action, name, value), rest)
  BY <1>2, <1>3, <1>4 DEF StepOf, got
<1> QED BY <1>1, <1>5

(* The tag of an action leads to its fields. *)
TagRead(buf, name, rest) ==
  /\ name \in DOMAIN C!ActionTag
  /\ C!ReadByteIn(buf, { C!ActionTag[t] : t \in DOMAIN C!ActionTag })
       = C!Good(C!ActionTag[name], rest)

Tagged(name) == [action_tag |-> name]

HasFields(items, k) == k \in Nat /\ DOMAIN items = 1..k

(* The action is read in k steps, one for each field. *)
ReadBy(buf, n, name, items, rest, k) ==
  \E c : /\ IsChain(c, "field", n, items, C!Good(Tagged(name), rest), k)
         /\ C!DecodeAction(buf, n) = c[k]

LEMMA ActionIsRead ==
  ASSUME NEW buf, NEW n, NEW name, NEW rest, TagRead(buf, name, rest),
         NEW items, items = C!ActionBody[name], NEW k, HasFields(items, k)
  PROVE  ReadBy(buf, n, name, items, rest, k)
<1> DEFINE tag == C!ReadByteIn(buf, { C!ActionTag[t] : t \in DOMAIN C!ActionTag })
           chosen == CHOOSE t \in DOMAIN C!ActionTag : C!ActionTag[t] = tag.value
<1>1. tag.ok /\ tag.value = C!ActionTag[name] /\ tag.rest = rest
  BY DEF TagRead, C!Good
<1> HIDE DEF tag
<1>2. chosen = name
  <2>1. name \in DOMAIN C!ActionTag
    BY DEF TagRead
  <2>2. \A s, t \in DOMAIN C!ActionTag : C!ActionTag[s] = C!ActionTag[t] => s = t
    BY DEF C!ActionTag
  <2>3. chosen \in DOMAIN C!ActionTag /\ C!ActionTag[chosen] = C!ActionTag[name]
    BY <1>1, <2>1
  <2> QED BY <2>1, <2>2, <2>3
<1>3. C!DecodeAction(buf, n) =
        IF tag.ok THEN Chosen("field", n, C!ActionBody[chosen],
                              C!Good([action_tag |-> chosen], tag.rest),
                              DOMAIN C!ActionBody[chosen])
                  ELSE C!Bad
  BY ActionIsChosen DEF tag
<1> HIDE DEF chosen
<1>4. C!DecodeAction(buf, n)
        = Chosen("field", n, items, C!Good(Tagged(name), rest), 1..k)
  BY <1>1, <1>2, <1>3 DEF Tagged, HasFields
<1> QED BY <1>4, ReadingIsChain DEF ReadBy, HasFields

LEMMA TwoFieldsRead ==
  ASSUME NEW buf, NEW n, NEW name, NEW b0, TagRead(buf, name, b0),
         NEW f1, NEW t1, NEW v1, NEW b1, C!ReadField(t1, b0, n) = C!Good(v1, b1),
         NEW f2, NEW t2, NEW v2, NEW b2, C!ReadField(t2, b1, n) = C!Good(v2, b2),
         C!ActionBody[name] = << <<f1, t1>>, <<f2, t2>> >>
  PROVE  C!DecodeAction(buf, n) =
           C!Good(C!WithField(C!WithField(Tagged(name),
                  f1, v1), f2, v2), b2)
<1> DEFINE items == << <<f1, t1>>, <<f2, t2>> >>
<1>1. HasFields(items, 2)
  BY DEF HasFields
<1>2. /\ items = C!ActionBody[name]
      /\ items[1] = <<f1, t1>>
      /\ items[2] = <<f2, t2>>
  OBVIOUS
<1> HIDE DEF items
<1>3. ReadBy(buf, n, name, items, b0, 2)
  BY <1>1, <1>2, ActionIsRead
<1>4. PICK c : /\ IsChain(c, "field", n, items, C!Good(Tagged(name), b0), 2)
               /\ C!DecodeAction(buf, n) = c[2]
  BY <1>3 DEF ReadBy
<1> DEFINE a0 == Tagged(name)
           a1 == C!WithField(a0, f1, v1)
           a2 == C!WithField(a1, f2, v2)
<1>5. c[0] = C!Good(a0, b0)
  BY <1>4 DEF IsChain
<1> HIDE DEF a0, a1, a2
<1>6. c[1] = C!Good(a1, b1)
  BY <1>2, <1>4, <1>5, FieldJoins, 1 \in 1..2, 1 - 1 = 0 DEF a1
<1>7. c[2] = C!Good(a2, b2)
  BY <1>2, <1>4, <1>6, FieldJoins, 2 \in 1..2, 2 - 1 = 1 DEF a2
<1> QED BY <1>4, <1>7 DEF a0, a1, a2

LEMMA ThreeFieldsRead ==
  ASSUME NEW buf, NEW n, NEW name, NEW b0, TagRead(buf, name, b0),
         NEW f1, NEW t1, NEW v1, NEW b1, C!ReadField(t1, b0, n) = C!Good(v1, b1),
         NEW f2, NEW t2, NEW v2, NEW b2, C!ReadField(t2, b1, n) = C!Good(v2, b2),
         NEW f3, NEW t3, NEW v3, NEW b3, C!ReadField(t3, b2, n) = C!Good(v3, b3),
         C!ActionBody[name] = << <<f1, t1>>, <<f2, t2>>, <<f3, t3>> >>
  PROVE  C!DecodeAction(buf, n) =
           C!Good(C!WithField(C!WithField(C!WithField(Tagged(name),
                  f1, v1), f2, v2), f3, v3), b3)
<1> DEFINE items == << <<f1, t1>>, <<f2, t2>>, <<f3, t3>> >>
<1>1. HasFields(items, 3)
  BY DEF HasFields
<1>2. /\ items = C!ActionBody[name]
      /\ items[1] = <<f1, t1>>
      /\ items[2] = <<f2, t2>>
      /\ items[3] = <<f3, t3>>
  OBVIOUS
<1> HIDE DEF items
<1>3. ReadBy(buf, n, name, items, b0, 3)
  BY <1>1, <1>2, ActionIsRead
<1>4. PICK c : /\ IsChain(c, "field", n, items, C!Good(Tagged(name), b0), 3)
               /\ C!DecodeAction(buf, n) = c[3]
  BY <1>3 DEF ReadBy
<1> DEFINE a0 == Tagged(name)
           a1 == C!WithField(a0, f1, v1)
           a2 == C!WithField(a1, f2, v2)
           a3 == C!WithField(a2, f3, v3)
<1>5. c[0] = C!Good(a0, b0)
  BY <1>4 DEF IsChain
<1> HIDE DEF a0, a1, a2, a3
<1>6. c[1] = C!Good(a1, b1)
  BY <1>2, <1>4, <1>5, FieldJoins, 1 \in 1..3, 1 - 1 = 0 DEF a1
<1>7. c[2] = C!Good(a2, b2)
  BY <1>2, <1>4, <1>6, FieldJoins, 2 \in 1..3, 2 - 1 = 1 DEF a2
<1>8. c[3] = C!Good(a3, b3)
  BY <1>2, <1>4, <1>7, FieldJoins, 3 \in 1..3, 3 - 1 = 2 DEF a3
<1> QED BY <1>4, <1>8 DEF a0, a1, a2, a3

LEMMA FourFieldsRead ==
  ASSUME NEW buf, NEW n, NEW name, NEW b0, TagRead(buf, name, b0),
         NEW f1, NEW t1, NEW v1, NEW b1, C!ReadField(t1, b0, n) = C!Good(v1, b1),
         NEW f2, NEW t2, NEW v2, NEW b2, C!ReadField(t2, b1, n) = C!Good(v2, b2),
         NEW f3, NEW t3, NEW v3, NEW b3, C!ReadField(t3, b2, n) = C!Good(v3, b3),
         NEW f4, NEW t4, NEW v4, NEW b4, C!ReadField(t4, b3, n) = C!Good(v4, b4),
         C!ActionBody[name] = << <<f1, t1>>, <<f2, t2>>, <<f3, t3>>, <<f4, t4>> >>
  PROVE  C!DecodeAction(buf, n) =
           C!Good(C!WithField(C!WithField(C!WithField(C!WithField(Tagged(name),
                  f1, v1), f2, v2), f3, v3), f4, v4), b4)
<1> DEFINE items == << <<f1, t1>>, <<f2, t2>>, <<f3, t3>>, <<f4, t4>> >>
<1>1. HasFields(items, 4)
  BY DEF HasFields
<1>2. /\ items = C!ActionBody[name]
      /\ items[1] = <<f1, t1>>
      /\ items[2] = <<f2, t2>>
      /\ items[3] = <<f3, t3>>
      /\ items[4] = <<f4, t4>>
  OBVIOUS
<1> HIDE DEF items
<1>3. ReadBy(buf, n, name, items, b0, 4)
  BY <1>1, <1>2, ActionIsRead
<1>4. PICK c : /\ IsChain(c, "field", n, items, C!Good(Tagged(name), b0), 4)
               /\ C!DecodeAction(buf, n) = c[4]
  BY <1>3 DEF ReadBy
<1> DEFINE a0 == Tagged(name)
           a1 == C!WithField(a0, f1, v1)
           a2 == C!WithField(a1, f2, v2)
           a3 == C!WithField(a2, f3, v3)
           a4 == C!WithField(a3, f4, v4)
<1>5. c[0] = C!Good(a0, b0)
  BY <1>4 DEF IsChain
<1> HIDE DEF a0, a1, a2, a3, a4
<1>6. c[1] = C!Good(a1, b1)
  BY <1>2, <1>4, <1>5, FieldJoins, 1 \in 1..4, 1 - 1 = 0 DEF a1
<1>7. c[2] = C!Good(a2, b2)
  BY <1>2, <1>4, <1>6, FieldJoins, 2 \in 1..4, 2 - 1 = 1 DEF a2
<1>8. c[3] = C!Good(a3, b3)
  BY <1>2, <1>4, <1>7, FieldJoins, 3 \in 1..4, 3 - 1 = 2 DEF a3
<1>9. c[4] = C!Good(a4, b4)
  BY <1>2, <1>4, <1>8, FieldJoins, 4 \in 1..4, 4 - 1 = 3 DEF a4
<1> QED BY <1>4, <1>9 DEF a0, a1, a2, a3, a4

LEMMA FiveFieldsRead ==
  ASSUME NEW buf, NEW n, NEW name, NEW b0, TagRead(buf, name, b0),
         NEW f1, NEW t1, NEW v1, NEW b1, C!ReadField(t1, b0, n) = C!Good(v1, b1),
         NEW f2, NEW t2, NEW v2, NEW b2, C!ReadField(t2, b1, n) = C!Good(v2, b2),
         NEW f3, NEW t3, NEW v3, NEW b3, C!ReadField(t3, b2, n) = C!Good(v3, b3),
         NEW f4, NEW t4, NEW v4, NEW b4, C!ReadField(t4, b3, n) = C!Good(v4, b4),
         NEW f5, NEW t5, NEW v5, NEW b5, C!ReadField(t5, b4, n) = C!Good(v5, b5),
         C!ActionBody[name] = << <<f1, t1>>, <<f2, t2>>, <<f3, t3>>, <<f4, t4>>, <<f5, t5>> >>
  PROVE  C!DecodeAction(buf, n) =
           C!Good(C!WithField(C!WithField(C!WithField(C!WithField(C!WithField(Tagged(name),
                  f1, v1), f2, v2), f3, v3), f4, v4), f5, v5), b5)
<1> DEFINE items == << <<f1, t1>>, <<f2, t2>>, <<f3, t3>>, <<f4, t4>>, <<f5, t5>> >>
<1>1. HasFields(items, 5)
  BY DEF HasFields
<1>2. /\ items = C!ActionBody[name]
      /\ items[1] = <<f1, t1>>
      /\ items[2] = <<f2, t2>>
      /\ items[3] = <<f3, t3>>
      /\ items[4] = <<f4, t4>>
      /\ items[5] = <<f5, t5>>
  OBVIOUS
<1> HIDE DEF items
<1>3. ReadBy(buf, n, name, items, b0, 5)
  BY <1>1, <1>2, ActionIsRead
<1>4. PICK c : /\ IsChain(c, "field", n, items, C!Good(Tagged(name), b0), 5)
               /\ C!DecodeAction(buf, n) = c[5]
  BY <1>3 DEF ReadBy
<1> DEFINE a0 == Tagged(name)
           a1 == C!WithField(a0, f1, v1)
           a2 == C!WithField(a1, f2, v2)
           a3 == C!WithField(a2, f3, v3)
           a4 == C!WithField(a3, f4, v4)
           a5 == C!WithField(a4, f5, v5)
<1>5. c[0] = C!Good(a0, b0)
  BY <1>4 DEF IsChain
<1> HIDE DEF a0, a1, a2, a3, a4, a5
<1>6. c[1] = C!Good(a1, b1)
  BY <1>2, <1>4, <1>5, FieldJoins, 1 \in 1..5, 1 - 1 = 0 DEF a1
<1>7. c[2] = C!Good(a2, b2)
  BY <1>2, <1>4, <1>6, FieldJoins, 2 \in 1..5, 2 - 1 = 1 DEF a2
<1>8. c[3] = C!Good(a3, b3)
  BY <1>2, <1>4, <1>7, FieldJoins, 3 \in 1..5, 3 - 1 = 2 DEF a3
<1>9. c[4] = C!Good(a4, b4)
  BY <1>2, <1>4, <1>8, FieldJoins, 4 \in 1..5, 4 - 1 = 3 DEF a4
<1>10. c[5] = C!Good(a5, b5)
  BY <1>2, <1>4, <1>9, FieldJoins, 5 \in 1..5, 5 - 1 = 4 DEF a5
<1> QED BY <1>4, <1>10 DEF a0, a1, a2, a3, a4, a5

---------------------------------------------------------------------------
(* What the encoders write is a field of its type *)

LEMMA TagIsRead ==
  ASSUME NEW name \in DOMAIN C!ActionTag, NEW r, IsRow(r)
  PROVE  TagRead(<<C!U8(C!ActionTag[name])>> \o r, name, r)
<1> DEFINE f == C!U8(C!ActionTag[name])
<1>1. f.width = 1 /\ f.value = C!ActionTag[name]
  BY DEF C!U8
<1>2. f.value \in { C!ActionTag[t] : t \in DOMAIN C!ActionTag }
  BY <1>1
<1> HIDE DEF f
<1>3. C!ReadByteIn(<<f>> \o r, { C!ActionTag[t] : t \in DOMAIN C!ActionTag })
        = C!Good(f.value, r)
  BY <1>1, <1>2, ByteRead
<1> QED BY <1>1, <1>3 DEF TagRead, f

LEMMA IdxField ==
  ASSUME NEW r, IsRow(r), NEW n, NEW idx \in 0..(n - 1)
  PROVE  C!ReadField("idx", <<C!U8(idx)>> \o r, n) = C!Good(idx, r)
BY IdxRead DEF C!ReadField

LEMMA PlainFields ==
  ASSUME NEW r, IsRow(r), NEW n, NEW v
  PROVE  /\ C!ReadField("u8", <<C!U8(v)>> \o r, n) = C!Good(v, r)
         /\ C!ReadField("u32", <<C!U32(v)>> \o r, n) = C!Good(v, r)
         /\ C!ReadField("u64", <<C!U64(v)>> \o r, n) = C!Good(v, r)
         /\ C!ReadField("b32", <<C!B32(v)>> \o r, n) = C!Good(v, r)
         /\ C!ReadField("spk", <<C!Spk(v)>> \o r, n) = C!Good(v, r)
<1>1. ASSUME NEW w, NEW f, f.width = w, f.value = v
      PROVE  C!ReadWidth(<<f>> \o r, w) = C!Good(v, r)
  BY <1>1, WidthRead
<1>2. C!ReadWidth(<<C!U8(v)>> \o r, 1) = C!Good(v, r)
  BY <1>1 DEF C!U8
<1>3. C!ReadWidth(<<C!U32(v)>> \o r, 4) = C!Good(v, r)
  BY <1>1 DEF C!U32
<1>4. C!ReadWidth(<<C!U64(v)>> \o r, 8) = C!Good(v, r)
  BY <1>1 DEF C!U64
<1>5. C!ReadWidth(<<C!B32(v)>> \o r, 32) = C!Good(v, r)
  BY <1>1 DEF C!B32
<1>6. C!ReadWidth(<<C!Spk(v)>> \o r, 33) = C!Good(v, r)
  BY <1>1 DEF C!Spk
<1> QED BY <1>2, <1>3, <1>4, <1>5, <1>6 DEF C!ReadField

LEMMA CellField ==
  ASSUME NEW r, IsRow(r), NEW n, NEW cell \in 0..8
  PROVE  C!ReadField("cell", <<C!U8(cell)>> \o r, n) = C!Good(cell, r)
<1>1. C!U8(cell).width = 1 /\ C!U8(cell).value = cell
  BY DEF C!U8
<1>2. C!ReadByteIn(<<C!U8(cell)>> \o r, 0..8) = C!Good(C!U8(cell).value, r)
  BY <1>1, ByteRead
<1> QED BY <1>1, <1>2 DEF C!ReadField

LEMMA MarkField ==
  ASSUME NEW r, IsRow(r), NEW n, NEW mark \in DOMAIN C!MarkByte
  PROVE  C!ReadField("mark", <<C!U8(C!MarkByte[mark])>> \o r, n) = C!Good(mark, r)
<1> DEFINE f == C!U8(C!MarkByte[mark])
           bytes == {C!MarkByte[m] : m \in DOMAIN C!MarkByte}
           byte == C!ReadByteIn(<<f>> \o r, bytes)
           chosen == CHOOSE m \in DOMAIN C!MarkByte : C!MarkByte[m] = byte.value
<1>1. f.width = 1 /\ f.value = C!MarkByte[mark] /\ f.value \in bytes
  BY DEF C!U8
<1>2. byte = C!Good(f.value, r)
  <2> HIDE DEF f, bytes
  <2> QED BY <1>1, ByteRead
<1>3. byte.ok /\ byte.value = C!MarkByte[mark] /\ byte.rest = r
  <2> HIDE DEF byte, f
  <2> QED BY <1>1, <1>2 DEF C!Good
<1>4. C!ReadMark(<<f>> \o r) = IF byte.ok THEN C!Good(chosen, byte.rest) ELSE C!Bad
  BY DEF C!ReadMark
<1> HIDE DEF byte
<1>5. chosen = mark
  <2>1. \A s, t \in DOMAIN C!MarkByte : C!MarkByte[s] = C!MarkByte[t] => s = t
    BY DEF C!MarkByte
  <2>2. chosen \in DOMAIN C!MarkByte /\ C!MarkByte[chosen] = C!MarkByte[mark]
    BY <1>3
  <2> QED BY <2>1, <2>2
<1> HIDE DEF chosen
<1> QED BY <1>3, <1>4, <1>5 DEF C!ReadField

LEMMA LockField ==
  ASSUME NEW lock, NEW r, IsRow(r), NEW n
  PROVE  C!ReadField("lock", C!EncodeLock(lock) \o r, n) = C!Good(lock, r)
BY LockRead DEF C!ReadField

(* A transfer's destination comes without a lock, or with one. *)
LEMMA DestLockField ==
  ASSUME NEW lock, NEW r, IsRow(r), NEW n
  PROVE  /\ C!ReadField("dest_lock", <<C!U8(0)>> \o r, n) = C!Good(C!NoLock, r)
         /\ C!ReadField("dest_lock", <<C!U8(1)>> \o (C!EncodeLock(lock) \o r), n)
              = C!Good(lock, r)
<1>1. ASSUME NEW v \in {0, 1}, NEW s, IsRow(s)
      PROVE  C!ReadDestLock(<<C!U8(v)>> \o s)
               = IF v = 0 THEN C!Good(C!NoLock, s) ELSE C!DecodeLock(s)
  <2> DEFINE f == C!U8(v)
             buf == <<f>> \o s
  <2>1. f.width = 1 /\ f.value = v
    BY DEF C!U8
  <2> HIDE DEF f
  <2>2. buf # <<>> /\ Head(buf) = f /\ Tail(buf) = s
    BY <1>1, FieldFirst
  <2> HIDE DEF buf
  <2>3. C!ReadDestLock(buf) = IF v = 0 THEN C!Good(C!NoLock, s) ELSE C!DecodeLock(s)
    BY <2>1, <2>2 DEF C!ReadDestLock, C!ReadByteIn, C!NextIs, C!Good
  <2> QED BY <2>3 DEF buf, f
<1>2. C!ReadDestLock(<<C!U8(0)>> \o r) = C!Good(C!NoLock, r)
  BY <1>1
<1>3. IsRow(C!EncodeLock(lock) \o r) /\ C!DecodeLock(C!EncodeLock(lock) \o r) = C!Good(lock, r)
  BY LockRead, RowJoins
<1> DEFINE s == C!EncodeLock(lock) \o r
<1> HIDE DEF s
<1>4. C!ReadDestLock(<<C!U8(1)>> \o s) = C!Good(lock, r)
  BY <1>1, <1>3 DEF s
<1> QED BY <1>2, <1>4 DEF C!ReadField, s

---------------------------------------------------------------------------
(* encode.rs against action.rs: what every encoder writes is read as the   *)
(* action it was given, and nothing of what follows is touched.            *)

DecodesTo(body, n, action) ==
  /\ IsRow(body)
  /\ \A r : IsRow(r) => C!DecodeAction(body \o r, n) = C!Good(action, r)

LEMMA EmptyRow == IsRow(<<>>)
BY RowOf, <<>> \in Seq({})

LEMMA InitDecodes ==
  ASSUME NEW n, NEW config_idx \in 0..(n - 1), NEW min, NEW ttl, NEW covenant_id, NEW lock
  PROVE  DecodesTo(C!EncodeInit(config_idx, min, ttl, covenant_id, lock), n,
                   [action_tag |-> "Init", config_idx |-> config_idx, min |-> min,
                    ttl |-> ttl, covenant_id |-> covenant_id, lock |-> lock])
<1> DEFINE body == C!EncodeInit(config_idx, min, ttl, covenant_id, lock)
           action == [action_tag |-> "Init", config_idx |-> config_idx, min |-> min,
                      ttl |-> ttl, covenant_id |-> covenant_id, lock |-> lock]
           h0 == C!U8(C!ActionTag["Init"])
           h1 == C!U8(config_idx)
           h2 == C!U64(min)
           h3 == C!U64(ttl)
           h4 == C!B32(covenant_id)
           code == C!EncodeLock(lock)
<1>1. body = <<h0, h1, h2, h3, h4>> \o code
  BY DEF C!EncodeInit, C!EncodeConfig
<1>2. "Init" \in DOMAIN C!ActionTag
  BY DEF C!ActionTag
<1>3. ASSUME NEW r, IsRow(r)
      PROVE  IsRow(body) /\ C!DecodeAction(body \o r, n) = C!Good(action, r)
  <2> DEFINE b4 == code \o r
             b3 == <<h4>> \o b4
             b2 == <<h3>> \o b3
             b1 == <<h2>> \o b2
             b0 == <<h1>> \o b1
  <2>1. IsRow(code) /\ IsRow(b4)
    <3>1. IsRow(code)
      BY <1>3, LockRead
    <3> HIDE DEF code
    <3> QED BY <1>3, <3>1, RowJoins
  <2> HIDE DEF h0, h1, h2, h3, h4, code, body, action, b0, b1, b2, b3, b4
  <2>2. IsRow(b3)
    BY <2>1, FieldFirst DEF b3
  <2>3. IsRow(b2)
    BY <2>2, FieldFirst DEF b2
  <2>4. IsRow(b1)
    BY <2>3, FieldFirst DEF b1
  <2>5. IsRow(b0)
    BY <2>4, FieldFirst DEF b0
  <2>6. IsRow(body) /\ body \o r = <<h0>> \o b0
    <3> DEFINE front == <<h0, h1, h2, h3, h4>>
    <3>1. IsFive(front, h0, h1, h2, h3, h4)
      BY DEF IsFive
    <3> HIDE DEF front
    <3>2. front \o b4 = <<h0>> \o (<<h1>> \o (<<h2>> \o (<<h3>> \o (<<h4>> \o b4)))) /\ IsRow(front)
      BY ONLY <2>1, <3>1, FiveFields
    <3>3. front \o b4 = <<h0>> \o b0
      BY <3>2 DEF b0, b1, b2, b3
    <3>4. body = front \o code
      BY <1>1 DEF front
    <3>5. IsRow(front)
      BY <3>2
    <3>6. IsRow(code) /\ IsRow(r)
      BY <1>3, <2>1
    <3>7. Associates(front, code, r)
      BY ONLY <3>5, <3>6, RowAssoc
    <3>8. IsRow(body)
      BY <3>4, <3>5, <3>6, RowJoins
    <3>9. body \o r = front \o b4
      BY <3>4, <3>7 DEF Associates, b4
    <3> QED BY <3>3, <3>8, <3>9
  <2>7. TagRead(<<h0>> \o b0, "Init", b0)
    BY <1>2, <2>5, TagIsRead DEF h0
  <2>8. C!ReadField("idx", b0, n) = C!Good(config_idx, b1)
    BY <2>4, IdxField DEF h1, b0
  <2>9. C!ReadField("u64", b1, n) = C!Good(min, b2)
    BY <2>3, PlainFields DEF h2, b1
  <2>10. C!ReadField("u64", b2, n) = C!Good(ttl, b3)
    BY <2>2, PlainFields DEF h3, b2
  <2>11. C!ReadField("b32", b3, n) = C!Good(covenant_id, b4)
    BY <2>1, PlainFields DEF h4, b3
  <2>12. C!ReadField("lock", b4, n) = C!Good(lock, r)
    BY <1>3, LockField DEF b4, code
  <2>13. C!ActionBody["Init"] =
          << <<"config_idx", "idx">>, <<"min", "u64">>, <<"ttl", "u64">>,
             <<"covenant_id", "b32">>, <<"lock", "lock">> >>
    BY DEF C!ActionBody, C!ConfigFields
  <2>14. C!DecodeAction(<<h0>> \o b0, n) =
          C!Good(C!WithField(C!WithField(C!WithField(C!WithField(C!WithField(Tagged("Init"),
                 "config_idx", config_idx), "min", min), "ttl", ttl),
                 "covenant_id", covenant_id), "lock", lock), r)
    BY <2>7, <2>8, <2>9, <2>10, <2>11, <2>12, <2>13, FiveFieldsRead
  <2>15. C!WithField(C!WithField(C!WithField(C!WithField(C!WithField(Tagged("Init"),
          "config_idx", config_idx), "min", min), "ttl", ttl),
          "covenant_id", covenant_id), "lock", lock) = action
    BY DEF C!WithField, Tagged, action
  <2> QED BY <2>6, <2>14, <2>15
<1> HIDE DEF body, action
<1>4. DecodesTo(body, n, action)
  BY <1>3, EmptyRow DEF DecodesTo
<1> QED BY <1>4 DEF body, action

LEMMA UpdateDecodes ==
  ASSUME NEW n, NEW config_idx \in 0..(n - 1), NEW min, NEW ttl, NEW covenant_id, NEW lock
  PROVE  DecodesTo(C!EncodeUpdate(config_idx, min, ttl, covenant_id, lock), n,
                   [action_tag |-> "Update", config_idx |-> config_idx, min |-> min,
                    ttl |-> ttl, covenant_id |-> covenant_id, lock |-> lock])
<1> DEFINE body == C!EncodeUpdate(config_idx, min, ttl, covenant_id, lock)
           action == [action_tag |-> "Update", config_idx |-> config_idx, min |-> min,
                      ttl |-> ttl, covenant_id |-> covenant_id, lock |-> lock]
           h0 == C!U8(C!ActionTag["Update"])
           h1 == C!U8(config_idx)
           h2 == C!U64(min)
           h3 == C!U64(ttl)
           h4 == C!B32(covenant_id)
           code == C!EncodeLock(lock)
<1>1. body = <<h0, h1, h2, h3, h4>> \o code
  BY DEF C!EncodeUpdate, C!EncodeConfig
<1>2. "Update" \in DOMAIN C!ActionTag
  BY DEF C!ActionTag
<1>3. ASSUME NEW r, IsRow(r)
      PROVE  IsRow(body) /\ C!DecodeAction(body \o r, n) = C!Good(action, r)
  <2> DEFINE b4 == code \o r
             b3 == <<h4>> \o b4
             b2 == <<h3>> \o b3
             b1 == <<h2>> \o b2
             b0 == <<h1>> \o b1
  <2>1. IsRow(code) /\ IsRow(b4)
    <3>1. IsRow(code)
      BY <1>3, LockRead
    <3> HIDE DEF code
    <3> QED BY <1>3, <3>1, RowJoins
  <2> HIDE DEF h0, h1, h2, h3, h4, code, body, action, b0, b1, b2, b3, b4
  <2>2. IsRow(b3)
    BY <2>1, FieldFirst DEF b3
  <2>3. IsRow(b2)
    BY <2>2, FieldFirst DEF b2
  <2>4. IsRow(b1)
    BY <2>3, FieldFirst DEF b1
  <2>5. IsRow(b0)
    BY <2>4, FieldFirst DEF b0
  <2>6. IsRow(body) /\ body \o r = <<h0>> \o b0
    <3> DEFINE front == <<h0, h1, h2, h3, h4>>
    <3>1. IsFive(front, h0, h1, h2, h3, h4)
      BY DEF IsFive
    <3> HIDE DEF front
    <3>2. front \o b4 = <<h0>> \o (<<h1>> \o (<<h2>> \o (<<h3>> \o (<<h4>> \o b4)))) /\ IsRow(front)
      BY ONLY <2>1, <3>1, FiveFields
    <3>3. front \o b4 = <<h0>> \o b0
      BY <3>2 DEF b0, b1, b2, b3
    <3>4. body = front \o code
      BY <1>1 DEF front
    <3>5. IsRow(front)
      BY <3>2
    <3>6. IsRow(code) /\ IsRow(r)
      BY <1>3, <2>1
    <3>7. Associates(front, code, r)
      BY ONLY <3>5, <3>6, RowAssoc
    <3>8. IsRow(body)
      BY <3>4, <3>5, <3>6, RowJoins
    <3>9. body \o r = front \o b4
      BY <3>4, <3>7 DEF Associates, b4
    <3> QED BY <3>3, <3>8, <3>9
  <2>7. TagRead(<<h0>> \o b0, "Update", b0)
    BY <1>2, <2>5, TagIsRead DEF h0
  <2>8. C!ReadField("idx", b0, n) = C!Good(config_idx, b1)
    BY <2>4, IdxField DEF h1, b0
  <2>9. C!ReadField("u64", b1, n) = C!Good(min, b2)
    BY <2>3, PlainFields DEF h2, b1
  <2>10. C!ReadField("u64", b2, n) = C!Good(ttl, b3)
    BY <2>2, PlainFields DEF h3, b2
  <2>11. C!ReadField("b32", b3, n) = C!Good(covenant_id, b4)
    BY <2>1, PlainFields DEF h4, b3
  <2>12. C!ReadField("lock", b4, n) = C!Good(lock, r)
    BY <1>3, LockField DEF b4, code
  <2>13. C!ActionBody["Update"] =
          << <<"config_idx", "idx">>, <<"min", "u64">>, <<"ttl", "u64">>,
             <<"covenant_id", "b32">>, <<"lock", "lock">> >>
    BY DEF C!ActionBody, C!ConfigFields
  <2>14. C!DecodeAction(<<h0>> \o b0, n) =
          C!Good(C!WithField(C!WithField(C!WithField(C!WithField(C!WithField(Tagged("Update"),
                 "config_idx", config_idx), "min", min), "ttl", ttl),
                 "covenant_id", covenant_id), "lock", lock), r)
    BY <2>7, <2>8, <2>9, <2>10, <2>11, <2>12, <2>13, FiveFieldsRead
  <2>15. C!WithField(C!WithField(C!WithField(C!WithField(C!WithField(Tagged("Update"),
          "config_idx", config_idx), "min", min), "ttl", ttl),
          "covenant_id", covenant_id), "lock", lock) = action
    BY DEF C!WithField, Tagged, action
  <2> QED BY <2>6, <2>14, <2>15
<1> HIDE DEF body, action
<1>4. DecodesTo(body, n, action)
  BY <1>3, EmptyRow DEF DecodesTo
<1> QED BY <1>4 DEF body, action

LEMMA TransferDecodes ==
  ASSUME NEW n, NEW source_idx \in 0..(n - 1), NEW dest_idx \in 0..(n - 1), NEW amount
  PROVE  DecodesTo(C!EncodeTransfer(source_idx, dest_idx, amount), n,
                   [action_tag |-> "Transfer", source_idx |-> source_idx,
                    dest_idx |-> dest_idx, amount |-> amount, dest_init |-> C!NoLock])
<1> DEFINE body == C!EncodeTransfer(source_idx, dest_idx, amount)
           action == [action_tag |-> "Transfer", source_idx |-> source_idx,
                      dest_idx |-> dest_idx, amount |-> amount, dest_init |-> C!NoLock]
           h0 == C!U8(C!ActionTag["Transfer"])
           h1 == C!U8(source_idx)
           h2 == C!U8(dest_idx)
           h3 == C!U64(amount)
           h4 == C!U8(0)
<1>1. body = <<h0, h1, h2, h3, h4>>
  BY DEF C!EncodeTransfer
<1>2. "Transfer" \in DOMAIN C!ActionTag
  BY DEF C!ActionTag
<1>3. ASSUME NEW r, IsRow(r)
      PROVE  IsRow(body) /\ C!DecodeAction(body \o r, n) = C!Good(action, r)
  <2> DEFINE b4 == r
             b3 == <<h4>> \o b4
             b2 == <<h3>> \o b3
             b1 == <<h2>> \o b2
             b0 == <<h1>> \o b1
  <2>1. IsRow(b4)
    BY <1>3
  <2> HIDE DEF h0, h1, h2, h3, h4, body, action, b0, b1, b2, b3, b4
  <2>2. IsRow(b3)
    BY <2>1, FieldFirst DEF b3
  <2>3. IsRow(b2)
    BY <2>2, FieldFirst DEF b2
  <2>4. IsRow(b1)
    BY <2>3, FieldFirst DEF b1
  <2>5. IsRow(b0)
    BY <2>4, FieldFirst DEF b0
  <2>6. IsRow(body) /\ body \o r = <<h0>> \o b0
    <3> DEFINE front == <<h0, h1, h2, h3, h4>>
    <3>1. IsFive(front, h0, h1, h2, h3, h4)
      BY DEF IsFive
    <3> HIDE DEF front
    <3>2. front \o b4 = <<h0>> \o (<<h1>> \o (<<h2>> \o (<<h3>> \o (<<h4>> \o b4)))) /\ IsRow(front)
      BY ONLY <2>1, <3>1, FiveFields
    <3>3. front \o b4 = <<h0>> \o b0
      BY <3>2 DEF b0, b1, b2, b3
    <3> QED BY <1>1, <3>2, <3>3 DEF front, b4
  <2>7. TagRead(<<h0>> \o b0, "Transfer", b0)
    BY <1>2, <2>5, TagIsRead DEF h0
  <2>8. C!ReadField("idx", b0, n) = C!Good(source_idx, b1)
    BY <2>4, IdxField DEF h1, b0
  <2>9. C!ReadField("idx", b1, n) = C!Good(dest_idx, b2)
    BY <2>3, IdxField DEF h2, b1
  <2>10. C!ReadField("u64", b2, n) = C!Good(amount, b3)
    BY <2>2, PlainFields DEF h3, b2
  <2>11. C!ReadField("dest_lock", b3, n) = C!Good(C!NoLock, b4)
    BY <2>1, DestLockField DEF h4, b3
  <2>12. C!ActionBody["Transfer"] =
          << <<"source_idx", "idx">>, <<"dest_idx", "idx">>, <<"amount", "u64">>,
             <<"dest_init", "dest_lock">> >>
    BY DEF C!ActionBody
  <2>13. C!DecodeAction(<<h0>> \o b0, n) =
          C!Good(C!WithField(C!WithField(C!WithField(C!WithField(Tagged("Transfer"),
                 "source_idx", source_idx), "dest_idx", dest_idx),
                 "amount", amount), "dest_init", C!NoLock), b4)
    BY <2>7, <2>8, <2>9, <2>10, <2>11, <2>12, FourFieldsRead
  <2>14. C!WithField(C!WithField(C!WithField(C!WithField(Tagged("Transfer"),
          "source_idx", source_idx), "dest_idx", dest_idx), "amount", amount),
          "dest_init", C!NoLock) = action
    BY DEF C!WithField, Tagged, action
  <2> QED BY <2>6, <2>13, <2>14 DEF b4
<1> HIDE DEF body, action
<1>4. DecodesTo(body, n, action)
  BY <1>3, EmptyRow DEF DecodesTo
<1> QED BY <1>4 DEF body, action

LEMMA TransferCreateDecodes ==
  ASSUME NEW n, NEW source_idx \in 0..(n - 1), NEW dest_idx \in 0..(n - 1), NEW amount,
         NEW dest_init
  PROVE  DecodesTo(C!EncodeTransferCreate(source_idx, dest_idx, amount, dest_init), n,
                   [action_tag |-> "Transfer", source_idx |-> source_idx,
                    dest_idx |-> dest_idx, amount |-> amount, dest_init |-> dest_init])
<1> DEFINE body == C!EncodeTransferCreate(source_idx, dest_idx, amount, dest_init)
           action == [action_tag |-> "Transfer", source_idx |-> source_idx,
                      dest_idx |-> dest_idx, amount |-> amount, dest_init |-> dest_init]
           h0 == C!U8(C!ActionTag["Transfer"])
           h1 == C!U8(source_idx)
           h2 == C!U8(dest_idx)
           h3 == C!U64(amount)
           h4 == C!U8(1)
           code == C!EncodeLock(dest_init)
<1>1. body = <<h0, h1, h2, h3, h4>> \o code
  BY DEF C!EncodeTransferCreate
<1>2. "Transfer" \in DOMAIN C!ActionTag
  BY DEF C!ActionTag
<1>3. ASSUME NEW r, IsRow(r)
      PROVE  IsRow(body) /\ C!DecodeAction(body \o r, n) = C!Good(action, r)
  <2> DEFINE b4 == code \o r
             b3 == <<h4>> \o b4
             b2 == <<h3>> \o b3
             b1 == <<h2>> \o b2
             b0 == <<h1>> \o b1
  <2>1. IsRow(code) /\ IsRow(b4)
    <3>1. IsRow(code)
      BY <1>3, LockRead
    <3> HIDE DEF code
    <3> QED BY <1>3, <3>1, RowJoins
  <2> HIDE DEF h0, h1, h2, h3, h4, code, body, action, b0, b1, b2, b3, b4
  <2>2. IsRow(b3)
    BY <2>1, FieldFirst DEF b3
  <2>3. IsRow(b2)
    BY <2>2, FieldFirst DEF b2
  <2>4. IsRow(b1)
    BY <2>3, FieldFirst DEF b1
  <2>5. IsRow(b0)
    BY <2>4, FieldFirst DEF b0
  <2>6. IsRow(body) /\ body \o r = <<h0>> \o b0
    <3> DEFINE front == <<h0, h1, h2, h3, h4>>
    <3>1. IsFive(front, h0, h1, h2, h3, h4)
      BY DEF IsFive
    <3> HIDE DEF front
    <3>2. front \o b4 = <<h0>> \o (<<h1>> \o (<<h2>> \o (<<h3>> \o (<<h4>> \o b4)))) /\ IsRow(front)
      BY ONLY <2>1, <3>1, FiveFields
    <3>3. front \o b4 = <<h0>> \o b0
      BY <3>2 DEF b0, b1, b2, b3
    <3>4. body = front \o code
      BY <1>1 DEF front
    <3>5. IsRow(front)
      BY <3>2
    <3>6. IsRow(code) /\ IsRow(r)
      BY <1>3, <2>1
    <3>7. Associates(front, code, r)
      BY ONLY <3>5, <3>6, RowAssoc
    <3>8. IsRow(body)
      BY <3>4, <3>5, <3>6, RowJoins
    <3>9. body \o r = front \o b4
      BY <3>4, <3>7 DEF Associates, b4
    <3> QED BY <3>3, <3>8, <3>9
  <2>7. TagRead(<<h0>> \o b0, "Transfer", b0)
    BY <1>2, <2>5, TagIsRead DEF h0
  <2>8. C!ReadField("idx", b0, n) = C!Good(source_idx, b1)
    BY <2>4, IdxField DEF h1, b0
  <2>9. C!ReadField("idx", b1, n) = C!Good(dest_idx, b2)
    BY <2>3, IdxField DEF h2, b1
  <2>10. C!ReadField("u64", b2, n) = C!Good(amount, b3)
    BY <2>2, PlainFields DEF h3, b2
  <2>11. C!ReadField("dest_lock", b3, n) = C!Good(dest_init, r)
    BY <1>3, DestLockField DEF b3, b4, h4, code
  <2>12. C!ActionBody["Transfer"] =
          << <<"source_idx", "idx">>, <<"dest_idx", "idx">>, <<"amount", "u64">>,
             <<"dest_init", "dest_lock">> >>
    BY DEF C!ActionBody
  <2>13. C!DecodeAction(<<h0>> \o b0, n) =
          C!Good(C!WithField(C!WithField(C!WithField(C!WithField(Tagged("Transfer"),
                 "source_idx", source_idx), "dest_idx", dest_idx),
                 "amount", amount), "dest_init", dest_init), r)
    BY <2>7, <2>8, <2>9, <2>10, <2>11, <2>12, FourFieldsRead
  <2>14. C!WithField(C!WithField(C!WithField(C!WithField(Tagged("Transfer"),
          "source_idx", source_idx), "dest_idx", dest_idx), "amount", amount),
          "dest_init", dest_init) = action
    BY DEF C!WithField, Tagged, action
  <2> QED BY <2>6, <2>13, <2>14
<1> HIDE DEF body, action
<1>4. DecodesTo(body, n, action)
  BY <1>3, EmptyRow DEF DecodesTo
<1> QED BY <1>4 DEF body, action

LEMMA UserLockDecodes ==
  ASSUME NEW n, NEW user_idx \in 0..(n - 1), NEW lock
  PROVE  DecodesTo(C!EncodeUpdateUserLock(user_idx, lock), n,
                   [action_tag |-> "UpdateUserLock", user_idx |-> user_idx, lock |-> lock])
<1> DEFINE body == C!EncodeUpdateUserLock(user_idx, lock)
           action == [action_tag |-> "UpdateUserLock", user_idx |-> user_idx, lock |-> lock]
           h0 == C!U8(C!ActionTag["UpdateUserLock"])
           h1 == C!U8(user_idx)
           code == C!EncodeLock(lock)
<1>1. body = <<h0, h1>> \o code
  BY DEF C!EncodeUpdateUserLock
<1>2. "UpdateUserLock" \in DOMAIN C!ActionTag
  BY DEF C!ActionTag
<1>3. ASSUME NEW r, IsRow(r)
      PROVE  IsRow(body) /\ C!DecodeAction(body \o r, n) = C!Good(action, r)
  <2> DEFINE b1 == code \o r
             b0 == <<h1>> \o b1
  <2>1. IsRow(code) /\ IsRow(b1)
    <3>1. IsRow(code)
      BY <1>3, LockRead
    <3> HIDE DEF code
    <3> QED BY <1>3, <3>1, RowJoins
  <2> HIDE DEF h0, h1, code, body, action, b0, b1
  <2>2. IsRow(b0)
    BY <2>1, FieldFirst DEF b0
  <2>3. IsRow(body) /\ body \o r = <<h0>> \o b0
    <3> DEFINE front == <<h0, h1>>
    <3>1. IsTwo(front, h0, h1)
      BY DEF IsTwo
    <3> HIDE DEF front
    <3>2. front \o b1 = <<h0>> \o (<<h1>> \o b1) /\ IsRow(front)
      BY ONLY <2>1, <3>1, TwoFields
    <3>3. front \o b1 = <<h0>> \o b0
      BY <3>2 DEF b0
    <3>4. body = front \o code
      BY <1>1 DEF front
    <3>5. IsRow(front)
      BY <3>2
    <3>6. IsRow(code) /\ IsRow(r)
      BY <1>3, <2>1
    <3>7. Associates(front, code, r)
      BY ONLY <3>5, <3>6, RowAssoc
    <3>8. IsRow(body)
      BY <3>4, <3>5, <3>6, RowJoins
    <3>9. body \o r = front \o b1
      BY <3>4, <3>7 DEF Associates, b1
    <3> QED BY <3>3, <3>8, <3>9
  <2>4. TagRead(<<h0>> \o b0, "UpdateUserLock", b0)
    BY <1>2, <2>2, TagIsRead DEF h0
  <2>5. C!ReadField("idx", b0, n) = C!Good(user_idx, b1)
    BY <2>1, IdxField DEF h1, b0
  <2>6. C!ReadField("lock", b1, n) = C!Good(lock, r)
    BY <1>3, LockField DEF b1, code
  <2>7. C!ActionBody["UpdateUserLock"] =
          << <<"user_idx", "idx">>, <<"lock", "lock">> >>
    BY DEF C!ActionBody
  <2>8. C!DecodeAction(<<h0>> \o b0, n) =
          C!Good(C!WithField(C!WithField(Tagged("UpdateUserLock"),
                 "user_idx", user_idx), "lock", lock), r)
    BY <2>4, <2>5, <2>6, <2>7, TwoFieldsRead
  <2>9. C!WithField(C!WithField(Tagged("UpdateUserLock"),
          "user_idx", user_idx), "lock", lock) = action
    BY DEF C!WithField, Tagged, action
  <2> QED BY <2>3, <2>8, <2>9
<1> HIDE DEF body, action
<1>4. DecodesTo(body, n, action)
  BY <1>3, EmptyRow DEF DecodesTo
<1> QED BY <1>4 DEF body, action

LEMMA DepositDecodes ==
  ASSUME NEW n, NEW user_idx \in 0..(n - 1), NEW config_idx \in 0..(n - 1), NEW output_idx,
         NEW lock
  PROVE  DecodesTo(C!EncodeDeposit(user_idx, config_idx, output_idx, lock), n,
                   [action_tag |-> "Deposit", user_idx |-> user_idx,
                    config_idx |-> config_idx, output_idx |-> output_idx, lock |-> lock])
<1> DEFINE body == C!EncodeDeposit(user_idx, config_idx, output_idx, lock)
           action == [action_tag |-> "Deposit", user_idx |-> user_idx,
                      config_idx |-> config_idx, output_idx |-> output_idx, lock |-> lock]
           h0 == C!U8(C!ActionTag["Deposit"])
           h1 == C!U8(user_idx)
           h2 == C!U8(config_idx)
           h3 == C!U32(output_idx)
           code == C!EncodeLock(lock)
<1>1. body = <<h0, h1, h2, h3>> \o code
  BY DEF C!EncodeDeposit
<1>2. "Deposit" \in DOMAIN C!ActionTag
  BY DEF C!ActionTag
<1>3. ASSUME NEW r, IsRow(r)
      PROVE  IsRow(body) /\ C!DecodeAction(body \o r, n) = C!Good(action, r)
  <2> DEFINE b3 == code \o r
             b2 == <<h3>> \o b3
             b1 == <<h2>> \o b2
             b0 == <<h1>> \o b1
  <2>1. IsRow(code) /\ IsRow(b3)
    <3>1. IsRow(code)
      BY <1>3, LockRead
    <3> HIDE DEF code
    <3> QED BY <1>3, <3>1, RowJoins
  <2> HIDE DEF h0, h1, h2, h3, code, body, action, b0, b1, b2, b3
  <2>2. IsRow(b2)
    BY <2>1, FieldFirst DEF b2
  <2>3. IsRow(b1)
    BY <2>2, FieldFirst DEF b1
  <2>4. IsRow(b0)
    BY <2>3, FieldFirst DEF b0
  <2>5. IsRow(body) /\ body \o r = <<h0>> \o b0
    <3> DEFINE front == <<h0, h1, h2, h3>>
    <3>1. IsFour(front, h0, h1, h2, h3)
      BY DEF IsFour
    <3> HIDE DEF front
    <3>2. front \o b3 = <<h0>> \o (<<h1>> \o (<<h2>> \o (<<h3>> \o b3))) /\ IsRow(front)
      BY ONLY <2>1, <3>1, FourFields
    <3>3. front \o b3 = <<h0>> \o b0
      BY <3>2 DEF b0, b1, b2
    <3>4. body = front \o code
      BY <1>1 DEF front
    <3>5. IsRow(front)
      BY <3>2
    <3>6. IsRow(code) /\ IsRow(r)
      BY <1>3, <2>1
    <3>7. Associates(front, code, r)
      BY ONLY <3>5, <3>6, RowAssoc
    <3>8. IsRow(body)
      BY <3>4, <3>5, <3>6, RowJoins
    <3>9. body \o r = front \o b3
      BY <3>4, <3>7 DEF Associates, b3
    <3> QED BY <3>3, <3>8, <3>9
  <2>6. TagRead(<<h0>> \o b0, "Deposit", b0)
    BY <1>2, <2>4, TagIsRead DEF h0
  <2>7. C!ReadField("idx", b0, n) = C!Good(user_idx, b1)
    BY <2>3, IdxField DEF h1, b0
  <2>8. C!ReadField("idx", b1, n) = C!Good(config_idx, b2)
    BY <2>2, IdxField DEF h2, b1
  <2>9. C!ReadField("u32", b2, n) = C!Good(output_idx, b3)
    BY <2>1, PlainFields DEF h3, b2
  <2>10. C!ReadField("lock", b3, n) = C!Good(lock, r)
    BY <1>3, LockField DEF b3, code
  <2>11. C!ActionBody["Deposit"] =
          << <<"user_idx", "idx">>, <<"config_idx", "idx">>, <<"output_idx", "u32">>,
             <<"lock", "lock">> >>
    BY DEF C!ActionBody
  <2>12. C!DecodeAction(<<h0>> \o b0, n) =
          C!Good(C!WithField(C!WithField(C!WithField(C!WithField(Tagged("Deposit"),
                 "user_idx", user_idx), "config_idx", config_idx),
                 "output_idx", output_idx), "lock", lock), r)
    BY <2>6, <2>7, <2>8, <2>9, <2>10, <2>11, FourFieldsRead
  <2>13. C!WithField(C!WithField(C!WithField(C!WithField(Tagged("Deposit"),
          "user_idx", user_idx), "config_idx", config_idx),
          "output_idx", output_idx), "lock", lock) = action
    BY DEF C!WithField, Tagged, action
  <2> QED BY <2>5, <2>12, <2>13
<1> HIDE DEF body, action
<1>4. DecodesTo(body, n, action)
  BY <1>3, EmptyRow DEF DecodesTo
<1> QED BY <1>4 DEF body, action

LEMMA WithdrawDecodes ==
  ASSUME NEW n, NEW user_idx \in 0..(n - 1), NEW config_idx \in 0..(n - 1), NEW amount, NEW dest
  PROVE  DecodesTo(C!EncodeWithdraw(user_idx, config_idx, amount, dest), n,
                   [action_tag |-> "Withdraw", user_idx |-> user_idx,
                    config_idx |-> config_idx, amount |-> amount, dest |-> dest])
<1> DEFINE body == C!EncodeWithdraw(user_idx, config_idx, amount, dest)
           action == [action_tag |-> "Withdraw", user_idx |-> user_idx,
                      config_idx |-> config_idx, amount |-> amount, dest |-> dest]
           h0 == C!U8(C!ActionTag["Withdraw"])
           h1 == C!U8(user_idx)
           h2 == C!U8(config_idx)
           h3 == C!U64(amount)
           h4 == C!Spk(dest)
<1>1. body = <<h0, h1, h2, h3, h4>>
  BY DEF C!EncodeWithdraw
<1>2. "Withdraw" \in DOMAIN C!ActionTag
  BY DEF C!ActionTag
<1>3. ASSUME NEW r, IsRow(r)
      PROVE  IsRow(body) /\ C!DecodeAction(body \o r, n) = C!Good(action, r)
  <2> DEFINE b4 == r
             b3 == <<h4>> \o b4
             b2 == <<h3>> \o b3
             b1 == <<h2>> \o b2
             b0 == <<h1>> \o b1
  <2>1. IsRow(b4)
    BY <1>3
  <2> HIDE DEF h0, h1, h2, h3, h4, body, action, b0, b1, b2, b3, b4
  <2>2. IsRow(b3)
    BY <2>1, FieldFirst DEF b3
  <2>3. IsRow(b2)
    BY <2>2, FieldFirst DEF b2
  <2>4. IsRow(b1)
    BY <2>3, FieldFirst DEF b1
  <2>5. IsRow(b0)
    BY <2>4, FieldFirst DEF b0
  <2>6. IsRow(body) /\ body \o r = <<h0>> \o b0
    <3> DEFINE front == <<h0, h1, h2, h3, h4>>
    <3>1. IsFive(front, h0, h1, h2, h3, h4)
      BY DEF IsFive
    <3> HIDE DEF front
    <3>2. front \o b4 = <<h0>> \o (<<h1>> \o (<<h2>> \o (<<h3>> \o (<<h4>> \o b4)))) /\ IsRow(front)
      BY ONLY <2>1, <3>1, FiveFields
    <3>3. front \o b4 = <<h0>> \o b0
      BY <3>2 DEF b0, b1, b2, b3
    <3> QED BY <1>1, <3>2, <3>3 DEF front, b4
  <2>7. TagRead(<<h0>> \o b0, "Withdraw", b0)
    BY <1>2, <2>5, TagIsRead DEF h0
  <2>8. C!ReadField("idx", b0, n) = C!Good(user_idx, b1)
    BY <2>4, IdxField DEF h1, b0
  <2>9. C!ReadField("idx", b1, n) = C!Good(config_idx, b2)
    BY <2>3, IdxField DEF h2, b1
  <2>10. C!ReadField("u64", b2, n) = C!Good(amount, b3)
    BY <2>2, PlainFields DEF h3, b2
  <2>11. C!ReadField("spk", b3, n) = C!Good(dest, b4)
    BY <2>1, PlainFields DEF h4, b3
  <2>12. C!ActionBody["Withdraw"] =
          << <<"user_idx", "idx">>, <<"config_idx", "idx">>, <<"amount", "u64">>,
             <<"dest", "spk">> >>
    BY DEF C!ActionBody
  <2>13. C!DecodeAction(<<h0>> \o b0, n) =
          C!Good(C!WithField(C!WithField(C!WithField(C!WithField(Tagged("Withdraw"),
                 "user_idx", user_idx), "config_idx", config_idx),
                 "amount", amount), "dest", dest), b4)
    BY <2>7, <2>8, <2>9, <2>10, <2>11, <2>12, FourFieldsRead
  <2>14. C!WithField(C!WithField(C!WithField(C!WithField(Tagged("Withdraw"),
          "user_idx", user_idx), "config_idx", config_idx), "amount", amount),
          "dest", dest) = action
    BY DEF C!WithField, Tagged, action
  <2> QED BY <2>6, <2>13, <2>14 DEF b4
<1> HIDE DEF body, action
<1>4. DecodesTo(body, n, action)
  BY <1>3, EmptyRow DEF DecodesTo
<1> QED BY <1>4 DEF body, action

LEMMA CreateDecodes ==
  ASSUME NEW n, NEW creator_idx \in 0..(n - 1), NEW game_idx \in 0..(n - 1), NEW stake,
         NEW rounds, NEW mark \in DOMAIN C!MarkByte
  PROVE  DecodesTo(C!EncodeCreateGame(creator_idx, game_idx, stake, rounds, mark), n,
                   [action_tag |-> "CreateGame", creator_idx |-> creator_idx,
                    game_idx |-> game_idx, stake |-> stake, rounds |-> rounds, mark |-> mark])
<1> DEFINE body == C!EncodeCreateGame(creator_idx, game_idx, stake, rounds, mark)
           action == [action_tag |-> "CreateGame", creator_idx |-> creator_idx,
                      game_idx |-> game_idx, stake |-> stake, rounds |-> rounds,
                      mark |-> mark]
           h0 == C!U8(C!ActionTag["CreateGame"])
           h1 == C!U8(creator_idx)
           h2 == C!U8(game_idx)
           h3 == C!U64(stake)
           h4 == C!U8(rounds)
           h5 == C!U8(C!MarkByte[mark])
<1>1. body = <<h0, h1, h2, h3, h4, h5>>
  BY DEF C!EncodeCreateGame
<1>2. "CreateGame" \in DOMAIN C!ActionTag
  BY DEF C!ActionTag
<1>3. ASSUME NEW r, IsRow(r)
      PROVE  IsRow(body) /\ C!DecodeAction(body \o r, n) = C!Good(action, r)
  <2> DEFINE b5 == r
             b4 == <<h5>> \o b5
             b3 == <<h4>> \o b4
             b2 == <<h3>> \o b3
             b1 == <<h2>> \o b2
             b0 == <<h1>> \o b1
  <2>1. IsRow(b5)
    BY <1>3
  <2> HIDE DEF h0, h1, h2, h3, h4, h5, body, action, b0, b1, b2, b3, b4, b5
  <2>2. IsRow(b4)
    BY <2>1, FieldFirst DEF b4
  <2>3. IsRow(b3)
    BY <2>2, FieldFirst DEF b3
  <2>4. IsRow(b2)
    BY <2>3, FieldFirst DEF b2
  <2>5. IsRow(b1)
    BY <2>4, FieldFirst DEF b1
  <2>6. IsRow(b0)
    BY <2>5, FieldFirst DEF b0
  <2>7. IsRow(body) /\ body \o r = <<h0>> \o b0
    <3> DEFINE front == <<h0, h1, h2, h3, h4, h5>>
    <3>1. IsSix(front, h0, h1, h2, h3, h4, h5)
      BY DEF IsSix
    <3> HIDE DEF front
    <3>2. /\ front \o b5 = <<h0>> \o (<<h1>> \o (<<h2>> \o (<<h3>> \o (<<h4>> \o (<<h5>> \o b5)))))
          /\ IsRow(front)
      BY ONLY <2>1, <3>1, SixFields
    <3>3. front \o b5 = <<h0>> \o b0
      BY <3>2 DEF b0, b1, b2, b3, b4
    <3> QED BY <1>1, <3>2, <3>3 DEF front, b5
  <2>8. TagRead(<<h0>> \o b0, "CreateGame", b0)
    BY <1>2, <2>6, TagIsRead DEF h0
  <2>9. C!ReadField("idx", b0, n) = C!Good(creator_idx, b1)
    BY <2>5, IdxField DEF h1, b0
  <2>10. C!ReadField("idx", b1, n) = C!Good(game_idx, b2)
    BY <2>4, IdxField DEF h2, b1
  <2>11. C!ReadField("u64", b2, n) = C!Good(stake, b3)
    BY <2>3, PlainFields DEF h3, b2
  <2>12. C!ReadField("u8", b3, n) = C!Good(rounds, b4)
    BY <2>2, PlainFields DEF h4, b3
  <2>13. C!ReadField("mark", b4, n) = C!Good(mark, b5)
    BY <2>1, MarkField DEF h5, b4
  <2>14. C!ActionBody["CreateGame"] =
          << <<"creator_idx", "idx">>, <<"game_idx", "idx">>, <<"stake", "u64">>,
             <<"rounds", "u8">>, <<"mark", "mark">> >>
    BY DEF C!ActionBody
  <2>15. C!DecodeAction(<<h0>> \o b0, n) =
          C!Good(C!WithField(C!WithField(C!WithField(C!WithField(C!WithField(Tagged("CreateGame"),
                 "creator_idx", creator_idx), "game_idx", game_idx),
                 "stake", stake), "rounds", rounds), "mark", mark), b5)
    BY <2>8, <2>9, <2>10, <2>11, <2>12, <2>13, <2>14, FiveFieldsRead
  <2>16. C!WithField(C!WithField(C!WithField(C!WithField(C!WithField(Tagged("CreateGame"),
          "creator_idx", creator_idx), "game_idx", game_idx), "stake", stake),
          "rounds", rounds), "mark", mark) = action
    BY DEF C!WithField, Tagged, action
  <2> QED BY <2>7, <2>15, <2>16 DEF b5
<1> HIDE DEF body, action
<1>4. DecodesTo(body, n, action)
  BY <1>3, EmptyRow DEF DecodesTo
<1> QED BY <1>4 DEF body, action

LEMMA JoinDecodes ==
  ASSUME NEW n, NEW game_idx \in 0..(n - 1), NEW joiner_idx \in 0..(n - 1)
  PROVE  DecodesTo(C!EncodeJoinGame(game_idx, joiner_idx), n,
                   [action_tag |-> "JoinGame", game_idx |-> game_idx,
                    joiner_idx |-> joiner_idx])
<1> DEFINE body == C!EncodeJoinGame(game_idx, joiner_idx)
           action == [action_tag |-> "JoinGame", game_idx |-> game_idx,
                      joiner_idx |-> joiner_idx]
           h0 == C!U8(C!ActionTag["JoinGame"])
           h1 == C!U8(game_idx)
           h2 == C!U8(joiner_idx)
<1>1. body = <<h0, h1, h2>>
  BY DEF C!EncodeJoinGame
<1>2. "JoinGame" \in DOMAIN C!ActionTag
  BY DEF C!ActionTag
<1>3. ASSUME NEW r, IsRow(r)
      PROVE  IsRow(body) /\ C!DecodeAction(body \o r, n) = C!Good(action, r)
  <2> DEFINE b2 == r
             b1 == <<h2>> \o b2
             b0 == <<h1>> \o b1
  <2>1. IsRow(b2)
    BY <1>3
  <2> HIDE DEF h0, h1, h2, body, action, b0, b1, b2
  <2>2. IsRow(b1)
    BY <2>1, FieldFirst DEF b1
  <2>3. IsRow(b0)
    BY <2>2, FieldFirst DEF b0
  <2>4. IsRow(body) /\ body \o r = <<h0>> \o b0
    <3> DEFINE front == <<h0, h1, h2>>
    <3>1. IsThree(front, h0, h1, h2)
      BY DEF IsThree
    <3> HIDE DEF front
    <3>2. front \o b2 = <<h0>> \o (<<h1>> \o (<<h2>> \o b2)) /\ IsRow(front)
      BY ONLY <2>1, <3>1, ThreeFields
    <3>3. front \o b2 = <<h0>> \o b0
      BY <3>2 DEF b0, b1
    <3> QED BY <1>1, <3>2, <3>3 DEF front, b2
  <2>5. TagRead(<<h0>> \o b0, "JoinGame", b0)
    BY <1>2, <2>3, TagIsRead DEF h0
  <2>6. C!ReadField("idx", b0, n) = C!Good(game_idx, b1)
    BY <2>2, IdxField DEF h1, b0
  <2>7. C!ReadField("idx", b1, n) = C!Good(joiner_idx, b2)
    BY <2>1, IdxField DEF h2, b1
  <2>8. C!ActionBody["JoinGame"] =
          << <<"game_idx", "idx">>, <<"joiner_idx", "idx">> >>
    BY DEF C!ActionBody
  <2>9. C!DecodeAction(<<h0>> \o b0, n) =
          C!Good(C!WithField(C!WithField(Tagged("JoinGame"),
                 "game_idx", game_idx), "joiner_idx", joiner_idx), b2)
    BY <2>5, <2>6, <2>7, <2>8, TwoFieldsRead
  <2>10. C!WithField(C!WithField(Tagged("JoinGame"),
          "game_idx", game_idx), "joiner_idx", joiner_idx) = action
    BY DEF C!WithField, Tagged, action
  <2> QED BY <2>4, <2>9, <2>10 DEF b2
<1> HIDE DEF body, action
<1>4. DecodesTo(body, n, action)
  BY <1>3, EmptyRow DEF DecodesTo
<1> QED BY <1>4 DEF body, action

LEMMA TurnDecodes ==
  ASSUME NEW n, NEW game_idx \in 0..(n - 1), NEW user_idx \in 0..(n - 1), NEW cell \in 0..8
  PROVE  DecodesTo(C!EncodeTurn(game_idx, user_idx, cell), n,
                   [action_tag |-> "Turn", game_idx |-> game_idx, user_idx |-> user_idx,
                    cell |-> cell])
<1> DEFINE body == C!EncodeTurn(game_idx, user_idx, cell)
           action == [action_tag |-> "Turn", game_idx |-> game_idx, user_idx |-> user_idx,
                      cell |-> cell]
           h0 == C!U8(C!ActionTag["Turn"])
           h1 == C!U8(game_idx)
           h2 == C!U8(user_idx)
           h3 == C!U8(cell)
<1>1. body = <<h0, h1, h2, h3>>
  BY DEF C!EncodeTurn
<1>2. "Turn" \in DOMAIN C!ActionTag
  BY DEF C!ActionTag
<1>3. ASSUME NEW r, IsRow(r)
      PROVE  IsRow(body) /\ C!DecodeAction(body \o r, n) = C!Good(action, r)
  <2> DEFINE b3 == r
             b2 == <<h3>> \o b3
             b1 == <<h2>> \o b2
             b0 == <<h1>> \o b1
  <2>1. IsRow(b3)
    BY <1>3
  <2> HIDE DEF h0, h1, h2, h3, body, action, b0, b1, b2, b3
  <2>2. IsRow(b2)
    BY <2>1, FieldFirst DEF b2
  <2>3. IsRow(b1)
    BY <2>2, FieldFirst DEF b1
  <2>4. IsRow(b0)
    BY <2>3, FieldFirst DEF b0
  <2>5. IsRow(body) /\ body \o r = <<h0>> \o b0
    <3> DEFINE front == <<h0, h1, h2, h3>>
    <3>1. IsFour(front, h0, h1, h2, h3)
      BY DEF IsFour
    <3> HIDE DEF front
    <3>2. front \o b3 = <<h0>> \o (<<h1>> \o (<<h2>> \o (<<h3>> \o b3))) /\ IsRow(front)
      BY ONLY <2>1, <3>1, FourFields
    <3>3. front \o b3 = <<h0>> \o b0
      BY <3>2 DEF b0, b1, b2
    <3> QED BY <1>1, <3>2, <3>3 DEF front, b3
  <2>6. TagRead(<<h0>> \o b0, "Turn", b0)
    BY <1>2, <2>4, TagIsRead DEF h0
  <2>7. C!ReadField("idx", b0, n) = C!Good(game_idx, b1)
    BY <2>3, IdxField DEF h1, b0
  <2>8. C!ReadField("idx", b1, n) = C!Good(user_idx, b2)
    BY <2>2, IdxField DEF h2, b1
  <2>9. C!ReadField("cell", b2, n) = C!Good(cell, b3)
    BY <2>1, CellField DEF h3, b2
  <2>10. C!ActionBody["Turn"] =
          << <<"game_idx", "idx">>, <<"user_idx", "idx">>, <<"cell", "cell">> >>
    BY DEF C!ActionBody
  <2>11. C!DecodeAction(<<h0>> \o b0, n) =
          C!Good(C!WithField(C!WithField(C!WithField(Tagged("Turn"),
                 "game_idx", game_idx), "user_idx", user_idx), "cell", cell), b3)
    BY <2>6, <2>7, <2>8, <2>9, <2>10, ThreeFieldsRead
  <2>12. C!WithField(C!WithField(C!WithField(Tagged("Turn"),
          "game_idx", game_idx), "user_idx", user_idx), "cell", cell) = action
    BY DEF C!WithField, Tagged, action
  <2> QED BY <2>5, <2>11, <2>12 DEF b3
<1> HIDE DEF body, action
<1>4. DecodesTo(body, n, action)
  BY <1>3, EmptyRow DEF DecodesTo
<1> QED BY <1>4 DEF body, action

LEMMA TimeoutDecodes ==
  ASSUME NEW n, NEW game_idx \in 0..(n - 1), NEW config_idx \in 0..(n - 1)
  PROVE  DecodesTo(C!EncodeTimeout(game_idx, config_idx), n,
                   [action_tag |-> "Timeout", game_idx |-> game_idx,
                    config_idx |-> config_idx])
<1> DEFINE body == C!EncodeTimeout(game_idx, config_idx)
           action == [action_tag |-> "Timeout", game_idx |-> game_idx,
                      config_idx |-> config_idx]
           h0 == C!U8(C!ActionTag["Timeout"])
           h1 == C!U8(game_idx)
           h2 == C!U8(config_idx)
<1>1. body = <<h0, h1, h2>>
  BY DEF C!EncodeTimeout
<1>2. "Timeout" \in DOMAIN C!ActionTag
  BY DEF C!ActionTag
<1>3. ASSUME NEW r, IsRow(r)
      PROVE  IsRow(body) /\ C!DecodeAction(body \o r, n) = C!Good(action, r)
  <2> DEFINE b2 == r
             b1 == <<h2>> \o b2
             b0 == <<h1>> \o b1
  <2>1. IsRow(b2)
    BY <1>3
  <2> HIDE DEF h0, h1, h2, body, action, b0, b1, b2
  <2>2. IsRow(b1)
    BY <2>1, FieldFirst DEF b1
  <2>3. IsRow(b0)
    BY <2>2, FieldFirst DEF b0
  <2>4. IsRow(body) /\ body \o r = <<h0>> \o b0
    <3> DEFINE front == <<h0, h1, h2>>
    <3>1. IsThree(front, h0, h1, h2)
      BY DEF IsThree
    <3> HIDE DEF front
    <3>2. front \o b2 = <<h0>> \o (<<h1>> \o (<<h2>> \o b2)) /\ IsRow(front)
      BY ONLY <2>1, <3>1, ThreeFields
    <3>3. front \o b2 = <<h0>> \o b0
      BY <3>2 DEF b0, b1
    <3> QED BY <1>1, <3>2, <3>3 DEF front, b2
  <2>5. TagRead(<<h0>> \o b0, "Timeout", b0)
    BY <1>2, <2>3, TagIsRead DEF h0
  <2>6. C!ReadField("idx", b0, n) = C!Good(game_idx, b1)
    BY <2>2, IdxField DEF h1, b0
  <2>7. C!ReadField("idx", b1, n) = C!Good(config_idx, b2)
    BY <2>1, IdxField DEF h2, b1
  <2>8. C!ActionBody["Timeout"] =
          << <<"game_idx", "idx">>, <<"config_idx", "idx">> >>
    BY DEF C!ActionBody
  <2>9. C!DecodeAction(<<h0>> \o b0, n) =
          C!Good(C!WithField(C!WithField(Tagged("Timeout"),
                 "game_idx", game_idx), "config_idx", config_idx), b2)
    BY <2>5, <2>6, <2>7, <2>8, TwoFieldsRead
  <2>10. C!WithField(C!WithField(Tagged("Timeout"),
          "game_idx", game_idx), "config_idx", config_idx) = action
    BY DEF C!WithField, Tagged, action
  <2> QED BY <2>4, <2>9, <2>10 DEF b2
<1> HIDE DEF body, action
<1>4. DecodesTo(body, n, action)
  BY <1>3, EmptyRow DEF DecodesTo
<1> QED BY <1>4 DEF body, action

---------------------------------------------------------------------------
(* Rows put one behind the other: rest[i] is what follows the first i rows. *)

AreRows(seqs, k) == IsRow(seqs) /\ Len(seqs) = k /\ k \in Nat /\ \A i \in 1..k : IsRow(seqs[i])

Rests(rest, seqs, k) ==
  /\ rest[k] = <<>>
  /\ \A i \in 1..k : rest[i - 1] = seqs[i] \o rest[i]
  /\ \A i \in 0..k : IsRow(rest[i])

(* rest is right from the last row down, for m rows. *)
RestsFrom(rest, seqs, k, m) ==
  /\ rest[k] = <<>>
  /\ \A i \in 1..k : i > k - m => rest[i - 1] = seqs[i] \o rest[i]
  /\ \A i \in 0..k : i >= k - m => IsRow(rest[i])

LEMMA RestsExist ==
  ASSUME NEW seqs, NEW k, AreRows(seqs, k)
  PROVE  \E rest : Rests(rest, seqs, k)
<1>0. k \in Nat /\ \A i \in 1..k : IsRow(seqs[i])
  BY DEF AreRows
<1> DEFINE Defined == { m \in Nat : m <= k => \E rest : RestsFrom(rest, seqs, k, m) }
<1>1. 0 \in Defined
  <2> DEFINE rest == [i \in 0..k |-> <<>>]
  <2>1. rest[k] = <<>> /\ \A i \in 0..k : IsRow(rest[i])
    BY <1>0, EmptyRow
  <2>2. \A i \in 1..k : ~(i > k - 0)
    BY <1>0
  <2> HIDE DEF rest
  <2>3. RestsFrom(rest, seqs, k, 0)
    BY <2>1, <2>2 DEF RestsFrom
  <2> QED BY <2>3
<1>2. ASSUME NEW m \in Nat, m + 1 <= k, NEW old, RestsFrom(old, seqs, k, m)
      PROVE  \E rest : RestsFrom(rest, seqs, k, m + 1)
  <2>1. /\ old[k] = <<>>
        /\ \A i \in 1..k : i > k - m => old[i - 1] = seqs[i] \o old[i]
        /\ \A i \in 0..k : i >= k - m => IsRow(old[i])
    BY <1>2 DEF RestsFrom
  <2> DEFINE at == k - m
             row == seqs[at] \o old[at]
             rest == [i \in 0..k |-> IF i = at - 1 THEN row ELSE old[i]]
  <2>2. at \in 1..k /\ at \in 0..k /\ at - 1 \in 0..k /\ at - 1 # k /\ k \in 0..k /\ at >= k - m
    BY <1>0, <1>2
  <2>3. IsRow(old[at])
    BY <2>1, <2>2
  <2>4. IsRow(row)
    BY <1>0, <2>2, <2>3, RowJoins
  <2> HIDE DEF row
  <2>5. rest[k] = <<>>
    BY <2>1, <2>2
  <2>6. ASSUME NEW i \in 1..k, i > k - (m + 1) PROVE rest[i - 1] = seqs[i] \o rest[i]
    <3>1. CASE i = at
      <4>1. rest[i - 1] = row /\ rest[i] = old[at]
        BY <1>0, <2>2, <3>1
      <4> QED BY <3>1, <4>1 DEF row
    <3>2. CASE i # at
      <4>1. i > k - m /\ i - 1 # at - 1 /\ i # at - 1 /\ i \in 0..k /\ i - 1 \in 0..k
        BY <1>0, <2>6, <3>2
      <4>2. rest[i - 1] = old[i - 1] /\ rest[i] = old[i]
        BY <4>1
      <4> QED BY <2>1, <4>1, <4>2
    <3> QED BY <3>1, <3>2
  <2>7. ASSUME NEW i \in 0..k, i >= k - (m + 1) PROVE IsRow(rest[i])
    <3>1. CASE i = at - 1
      BY <2>4, <3>1
    <3>2. CASE i # at - 1
      <4>1. i >= k - m
        BY <1>0, <2>7, <3>2
      <4> QED BY <2>1, <3>2, <4>1
    <3> QED BY <3>1, <3>2
  <2> HIDE DEF rest
  <2>8. RestsFrom(rest, seqs, k, m + 1)
    BY <2>5, <2>6, <2>7 DEF RestsFrom
  <2> QED BY <2>8
<1>3. \A m \in Nat : m \in Defined => m + 1 \in Defined
  <2> SUFFICES ASSUME NEW m \in Nat, m \in Defined, m + 1 <= k
               PROVE  \E rest : RestsFrom(rest, seqs, k, m + 1)
    OBVIOUS
  <2>1. m <= k
    BY <1>0
  <2>2. PICK old : RestsFrom(old, seqs, k, m)
    BY <2>1
  <2> QED BY <1>2, <2>2
<1>4. PICK rest : RestsFrom(rest, seqs, k, k)
  <2>1. k \in Defined
    <3> HIDE DEF Defined
    <3> QED BY <1>0, <1>1, <1>3, NatSetInduction
  <2>2. k <= k
    BY <1>0
  <2> QED BY <2>1, <2>2
<1>5. Rests(rest, seqs, k)
  <2>1. ASSUME NEW i \in 1..k PROVE rest[i - 1] = seqs[i] \o rest[i]
    <3>1. i > k - k
      BY <1>0
    <3> QED BY <1>4, <3>1 DEF RestsFrom
  <2>2. ASSUME NEW i \in 0..k PROVE IsRow(rest[i])
    BY <1>0, <1>4 DEF RestsFrom
  <2> QED BY <1>4, <2>1, <2>2 DEF Rests, RestsFrom
<1> QED BY <1>5

(* The recursive function of FlattenSeq exists. *)
FlatOf(f, seqs, i) == IF i = 1 THEN seqs[i] ELSE f[i - 1] \o seqs[i]

LEMMA FlatsExist ==
  ASSUME NEW seqs, NEW k \in Nat
  PROVE  \E f : f = [i \in 1..k |-> FlatOf(f, seqs, i)]
<1> DEFINE Defined == { m \in Nat : \E f : f = [i \in 1..m |-> FlatOf(f, seqs, i)] }
<1>1. 0 \in Defined
  <2> DEFINE f == [i \in 1..0 |-> seqs]
  <2>1. f = [i \in 1..0 |-> FlatOf(f, seqs, i)]
    OBVIOUS
  <2> HIDE DEF f
  <2> QED BY <2>1
<1>2. ASSUME NEW m \in Nat, m \in Defined PROVE m + 1 \in Defined
  <2>1. PICK f : f = [i \in 1..m |-> FlatOf(f, seqs, i)]
    BY <1>2
  <2> DEFINE g == [i \in 1..(m + 1) |-> FlatOf(f, seqs, i)]
  <2>2. \A i \in 1..m : g[i] = f[i]
    BY <2>1
  <2>3. ASSUME NEW i \in 1..(m + 1) PROVE FlatOf(g, seqs, i) = FlatOf(f, seqs, i)
    <3>1. i # 1 => i - 1 \in 1..m
      OBVIOUS
    <3> HIDE DEF g
    <3> QED BY <2>2, <3>1 DEF FlatOf
  <2>4. g = [i \in 1..(m + 1) |-> FlatOf(g, seqs, i)]
    BY <2>3
  <2> HIDE DEF g
  <2> QED BY <2>4
<1>3. k \in Defined
  <2> HIDE DEF Defined
  <2> QED BY <1>1, <1>2, NatSetInduction
<1> QED BY <1>3

LEMMA FlatIsChosen ==
  ASSUME NEW seqs, Len(seqs) # 0
  PROVE  C!FlattenSeq(seqs)
           = (CHOOSE f : f = [i \in 1..Len(seqs) |-> FlatOf(f, seqs, i)])[Len(seqs)]
BY DEF C!FlattenSeq, FlatOf

(* The first j rows and what follows them are the whole. *)
Covers(flat, rest, j) == IsRow(flat[j]) /\ flat[j] \o rest[j] = rest[0]

LEMMA FlattenIsRests ==
  ASSUME NEW seqs, NEW k, AreRows(seqs, k), NEW rest, Rests(rest, seqs, k)
  PROVE  C!FlattenSeq(seqs) = rest[0]
<1>1. k \in Nat /\ Len(seqs) = k /\ IsRow(seqs) /\ \A i \in 1..k : IsRow(seqs[i])
  BY DEF AreRows
<1>2. /\ rest[k] = <<>>
      /\ \A i \in 1..k : rest[i - 1] = seqs[i] \o rest[i]
      /\ \A i \in 0..k : IsRow(rest[i])
  BY DEF Rests
<1>3. CASE k = 0
  <2>1. seqs = <<>>
    BY <1>1, <1>3 DEF IsRow
  <2>2. C!FlattenSeq(seqs) = seqs
    BY <1>1, <1>3 DEF C!FlattenSeq
  <2> QED BY <1>2, <1>3, <2>1, <2>2
<1>4. CASE k # 0
  <2> DEFINE flat == CHOOSE f : f = [i \in 1..k |-> FlatOf(f, seqs, i)]
  <2>1. flat = [i \in 1..k |-> FlatOf(flat, seqs, i)]
    BY <1>1, FlatsExist
  <2>2. C!FlattenSeq(seqs) = flat[k]
    BY <1>1, <1>4, FlatIsChosen
  <2> HIDE DEF flat
  <2>3. /\ flat[1] = seqs[1]
        /\ \A i \in 2..k : flat[i] = flat[i - 1] \o seqs[i]
    <3>1. 1 \in 1..k /\ \A i \in 2..k : i \in 1..k /\ i # 1
      BY <1>1, <1>4
    <3> QED BY <2>1, <3>1 DEF FlatOf
  <2> DEFINE Same == { m \in Nat : m + 1 <= k => Covers(flat, rest, m + 1) }
  <2>4. 0 \in Same
    <3>1. 1 \in 1..k /\ 1 \in 0..k /\ 1 - 1 = 0 /\ 0 + 1 = 1
      BY <1>1, <1>4
    <3>2. rest[0] = seqs[1] \o rest[1]
      BY <1>2, <3>1
    <3>3. Covers(flat, rest, 1)
      BY <1>1, <2>3, <3>1, <3>2 DEF Covers
    <3> QED BY <3>1, <3>3
  <2>5. ASSUME NEW m \in Nat, (m + 1) + 1 <= k, Covers(flat, rest, m + 1)
        PROVE  Covers(flat, rest, (m + 1) + 1)
    <3> DEFINE i == (m + 1) + 1
    <3>1. i \in 2..k /\ i - 1 = m + 1 /\ m + 1 \in 1..k /\ i \in 0..k /\ i \in 1..k
      BY <1>1, <2>5
    <3>3. flat[i] = flat[m + 1] \o seqs[i] /\ rest[m + 1] = seqs[i] \o rest[i]
      BY <1>2, <2>3, <3>1
    <3>4. IsRow(seqs[i]) /\ IsRow(rest[i])
      BY <1>1, <1>2, <3>1
    <3> HIDE DEF i
    <3> DEFINE before == flat[m + 1]
               row == seqs[i]
               after == rest[i]
    <3>5. IsRow(before) /\ before \o rest[m + 1] = rest[0]
      BY <2>5 DEF Covers
    <3>6. flat[i] = before \o row /\ rest[m + 1] = row \o after /\ IsRow(row) /\ IsRow(after)
      BY <3>3, <3>4
    <3>7. flat[i] \o rest[i] = flat[i] \o after
      OBVIOUS
    <3> HIDE DEF before, row, after
    <3>8. Associates(before, row, after)
      BY <3>5, <3>6, RowAssoc
    <3>9. IsRow(before \o row)
      BY <3>5, <3>6, RowJoins
    <3>10. Covers(flat, rest, i)
      BY <3>5, <3>6, <3>7, <3>8, <3>9 DEF Covers, Associates
    <3> QED BY <3>10 DEF i
  <2>6. \A m \in Nat : m \in Same => m + 1 \in Same
    <3> SUFFICES ASSUME NEW m \in Nat, m \in Same, (m + 1) + 1 <= k
                 PROVE  Covers(flat, rest, (m + 1) + 1)
      OBVIOUS
    <3>1. m + 1 <= k
      BY <1>1
    <3> QED BY <2>5, <3>1
  <2>7. k - 1 \in Same
    <3>1. k - 1 \in Nat
      BY <1>1, <1>4
    <3> HIDE DEF Same
    <3> QED BY <2>4, <2>6, <3>1, NatSetInduction
  <2>8. IsRow(flat[k]) /\ flat[k] \o <<>> = rest[0]
    <3>1. (k - 1) + 1 = k /\ k <= k
      BY <1>1
    <3> QED BY <1>2, <2>7, <3>1 DEF Covers
  <2> QED BY <2>2, <2>8, EmptyFirst
<1> QED BY <1>3, <1>4

---------------------------------------------------------------------------
(* Reader::many: entries that are read one by one are read as a list *)

(* Entry i is the row seqs[i], and is read as vals[i] whatever follows.    *)
EntriesRead(kind, n, seqs, vals, k) ==
  /\ AreRows(seqs, k)
  /\ \A i \in 1..k : \A r :
       IsRow(r) => DecodeOne(kind, n, seqs[i] \o r) = C!Good(vals[i], r)

FirstOf(vals, i) == [j \in 1..i |-> vals[j]]

LEMMA ListRead ==
  ASSUME NEW kind, kind # "field", NEW n, NEW seqs, NEW vals, NEW k,
         EntriesRead(kind, n, seqs, vals, k),
         NEW rest, Rests(rest, seqs, k), NEW r, IsRow(r)
  PROVE  Chosen(kind, n, <<>>, C!Good(<<>>, rest[0] \o r), 1..k) = C!Good(FirstOf(vals, k), r)
<1>1. k \in Nat /\ \A i \in 1..k : IsRow(seqs[i])
  BY DEF EntriesRead, AreRows
<1>2. /\ rest[k] = <<>>
      /\ \A i \in 1..k : rest[i - 1] = seqs[i] \o rest[i]
      /\ \A i \in 0..k : IsRow(rest[i])
  BY DEF Rests
<1> DEFINE base == C!Good(<<>>, rest[0] \o r)
<1>3. PICK c : IsChain(c, kind, n, <<>>, base, k) /\ c[k] = Chosen(kind, n, <<>>, base, 1..k)
  BY <1>1, ReadingIsChain
<1> DEFINE After(i) == C!Good(FirstOf(vals, i), rest[i] \o r)
           Right == { i \in Nat : i <= k => c[i] = After(i) }
<1>4. c[0] = After(0)
  <2>1. FirstOf(vals, 0) = <<>>
    BY DEF FirstOf
  <2> QED BY <1>3, <2>1 DEF IsChain
<1>5. ASSUME NEW i \in 1..k, c[i - 1] = After(i - 1) PROVE c[i] = After(i)
  <2> DEFINE row == seqs[i]
             after == rest[i]
             vs == FirstOf(vals, i - 1)
  <2>1. IsRow(row) /\ IsRow(after) /\ rest[i - 1] = row \o after
    <3>1. i \in 0..k
      BY <1>1
    <3>2. IsRow(seqs[i])
      BY <1>1
    <3>3. IsRow(rest[i])
      BY <1>2, <3>1
    <3>4. rest[i - 1] = seqs[i] \o rest[i]
      BY <1>2
    <3> QED BY <3>2, <3>3, <3>4
  <2>2. DecodeOne(kind, n, row \o (after \o r)) = C!Good(vals[i], after \o r)
    <3>1. IsRow(after \o r)
      BY <2>1, RowJoins
    <3> QED BY <3>1 DEF EntriesRead
  <2>3. (row \o after) \o r = row \o (after \o r)
    <3> HIDE DEF row, after
    <3>1. Associates(row, after, r)
      BY <2>1, RowAssoc
    <3> QED BY <3>1 DEF Associates
  <2>4. Append(vs, vals[i]) = FirstOf(vals, i)
    <3>1. i - 1 \in Nat /\ (i - 1) + 1 = i
      BY <1>1
    <3>2. IsRow(vs) /\ Len(vs) = i - 1
      BY <3>1, RowIsMade DEF FirstOf
    <3>3. Append(vs, vals[i]) = [j \in 1..i |-> IF j = i THEN vals[i] ELSE vs[j]]
      BY <3>1, <3>2 DEF IsRow
    <3> QED BY <3>1, <3>3 DEF FirstOf
  <2>5. c[i] = StepOf(kind, n, <<>>, i, c[i - 1])
    BY <1>3 DEF IsChain
  <2> DEFINE buf == row \o (after \o r)
             got == DecodeOne(kind, n, buf)
  <2>6. c[i - 1].ok /\ c[i - 1].value = vs /\ c[i - 1].rest = buf
    <3>1. rest[i - 1] \o r = buf
      BY <2>1, <2>3
    <3>2. c[i - 1] = C!Good(vs, buf)
      BY <1>5, <3>1
    <3> HIDE DEF vs, buf
    <3> QED BY <3>2 DEF C!Good
  <2>7. got.ok /\ got.value = vals[i] /\ got.rest = after \o r
    BY <2>2 DEF C!Good
  <2>8. StepOf(kind, n, <<>>, i, c[i - 1])
          = IF got.ok THEN C!Good(Append(vs, got.value), got.rest) ELSE C!Bad
    <3> HIDE DEF vs, buf
    <3> QED BY <2>6 DEF StepOf
  <2> QED BY <2>4, <2>5, <2>7, <2>8
<1>6. \A i \in Nat : i \in Right => i + 1 \in Right
  <2> SUFFICES ASSUME NEW i \in Nat, i \in Right, i + 1 <= k PROVE c[i + 1] = After(i + 1)
    OBVIOUS
  <2>1. i <= k /\ i + 1 \in 1..k /\ (i + 1) - 1 = i
    BY <1>1
  <2>2. c[(i + 1) - 1] = After((i + 1) - 1)
    BY <2>1
  <2> HIDE DEF After
  <2> QED BY <1>5, <2>1, <2>2
<1>7. k \in Right
  <2>1. 0 \in Right
    BY <1>4
  <2> HIDE DEF Right
  <2> QED BY <1>1, <1>6, <2>1, NatSetInduction
<1>8. c[k] = C!Good(FirstOf(vals, k), <<>> \o r)
  <2>1. k <= k
    BY <1>1
  <2>2. c[k] = After(k)
    BY <1>7, <2>1
  <2> QED BY <1>2, <2>2
<1> QED BY <1>3, <1>8, EmptyFirst

LEMMA ManyRead ==
  ASSUME NEW kind, kind # "field", NEW n, NEW seqs, NEW vals, NEW k,
         EntriesRead(kind, n, seqs, vals, k), NEW r, IsRow(r)
  PROVE  /\ IsRow(C!FlattenSeq(seqs))
         /\ ReadMany(kind, n, <<C!U32(k)>> \o (C!FlattenSeq(seqs) \o r))
              = C!Good(FirstOf(vals, k), r)
<1>1. AreRows(seqs, k) /\ k \in Nat
  BY DEF EntriesRead, AreRows
<1>2. PICK rest : Rests(rest, seqs, k)
  BY <1>1, RestsExist
<1>3. C!FlattenSeq(seqs) = rest[0] /\ IsRow(rest[0])
  <2>1. C!FlattenSeq(seqs) = rest[0]
    BY <1>1, <1>2, FlattenIsRests
  <2>2. 0 \in 0..k
    BY <1>1
  <2> QED BY <1>2, <2>1, <2>2 DEF Rests
<1> DEFINE f == C!U32(k)
           body == rest[0] \o r
           buf == <<f>> \o body
<1>4. f.width = 4 /\ f.value = k
  BY DEF C!U32
<1> HIDE DEF f
<1>5. IsRow(body)
  BY <1>3, RowJoins
<1>6. Chosen(kind, n, <<>>, C!Good(<<>>, body), 1..k) = C!Good(FirstOf(vals, k), r)
  BY <1>2, ListRead
<1> HIDE DEF body
<1>7. buf # <<>> /\ Head(buf) = f /\ Tail(buf) = body
  BY <1>5, FieldFirst
<1> HIDE DEF buf
<1>8. ReadMany(kind, n, buf) = Chosen(kind, n, <<>>, C!Good(<<>>, body), 1..k)
  <2>1. DOMAIN [i \in 1..k |-> i] = 1..k
    OBVIOUS
  <2>2. C!NextIs(buf, 4) /\ Head(buf).value = k
    BY <1>4, <1>7 DEF C!NextIs
  <2> QED BY <1>7, <2>1, <2>2 DEF ReadMany
<1> QED BY <1>3, <1>6, <1>8 DEF buf, body, f

---------------------------------------------------------------------------
(* The pointers of a stream's signers *)

SignerRow(idx, kind, offset) == <<C!U8(idx), C!U8(kind), C!U32(offset)>>

SignerRec(idx, kind, offset) == [resource_idx |-> idx, kind |-> kind, sig_offset |-> offset]

SignerKinds == { C!SignerTag[k] : k \in DOMAIN C!SignerTag }

LEMMA SignerRead ==
  ASSUME NEW n, NEW idx \in 0..(n - 1), NEW kind \in SignerKinds, NEW offset, NEW r, IsRow(r)
  PROVE  /\ IsRow(SignerRow(idx, kind, offset)) /\ Len(SignerRow(idx, kind, offset)) = 3
         /\ C!DecodeSigner(SignerRow(idx, kind, offset) \o r, n)
              = C!Good(SignerRec(idx, kind, offset), r)
<1> DEFINE front == SignerRow(idx, kind, offset)
           f == C!U8(idx)
           g == C!U8(kind)
           h == C!U32(offset)
           b2 == <<h>> \o r
           b1 == <<g>> \o b2
           b0 == <<f>> \o b1
<1>1. g.width = 1 /\ g.value = kind /\ h.width = 4 /\ h.value = offset
  BY DEF C!U8, C!U32
<1>2. IsThree(front, f, g, h) /\ Len(front) = 3
  BY DEF IsThree, SignerRow
<1> HIDE DEF front, g, h
<1>3. IsRow(b2)
  BY FieldFirst
<1>4. IsRow(b1)
  <2> HIDE DEF b2
  <2> QED BY <1>3, FieldFirst
<1>5. IsRow(front) /\ front \o r = b0
  <2> HIDE DEF f
  <2>1. front \o r = <<f>> \o (<<g>> \o (<<h>> \o r)) /\ IsRow(front)
    BY ONLY <1>2, IsRow(r), ThreeFields
  <2> QED BY <2>1
<1> HIDE DEF b1
<1>6. C!ReadResourceIdx(b0, n) = C!Good(idx, b1)
  BY <1>4, IdxRead
<1> HIDE DEF b2
<1>7. C!ReadByteIn(b1, SignerKinds) = C!Good(kind, b2)
  <2>1. C!ReadByteIn(<<g>> \o b2, SignerKinds) = C!Good(g.value, b2)
    BY <1>1, <1>3, ByteRead
  <2> QED BY <1>1, <2>1 DEF b1
<1>8. C!ReadWidth(b2, 4) = C!Good(offset, r)
  <2>1. C!ReadWidth(<<h>> \o r, 4) = C!Good(h.value, r)
    BY <1>1, WidthRead
  <2> QED BY <1>1, <2>1 DEF b2
<1> HIDE DEF b0
<1>9. C!DecodeSigner(b0, n) = C!Good(SignerRec(idx, kind, offset), r)
  <2> DEFINE first  == C!ReadResourceIdx(b0, n)
             second == IF first.ok THEN C!ReadByteIn(first.rest, SignerKinds) ELSE C!Bad
             third  == IF second.ok THEN C!ReadWidth(second.rest, 4) ELSE C!Bad
  <2>1. C!DecodeSigner(b0, n) =
          IF third.ok THEN C!Good([resource_idx |-> first.value, kind |-> second.value,
                                   sig_offset |-> third.value], third.rest)
                      ELSE C!Bad
    BY DEF C!DecodeSigner, SignerKinds
  <2>2. first.ok /\ first.value = idx /\ first.rest = b1
    BY <1>6 DEF C!Good
  <2> HIDE DEF first
  <2>3. second = C!Good(kind, b2)
    BY <1>7, <2>2
  <2>4. second.ok /\ second.value = kind /\ second.rest = b2
    <3> HIDE DEF second
    <3> QED BY <2>3 DEF C!Good
  <2> HIDE DEF second
  <2>5. third = C!Good(offset, r)
    BY <1>8, <2>4
  <2>6. third.ok /\ third.value = offset /\ third.rest = r
    <3> HIDE DEF third
    <3> QED BY <2>5 DEF C!Good
  <2> HIDE DEF third
  <2> QED BY <2>1, <2>2, <2>4, <2>6 DEF SignerRec
<1> QED BY <1>2, <1>5, <1>9 DEF front

(* Rows of three fields. *)
LEMMA TriplesLength ==
  ASSUME NEW seqs, NEW k, AreRows(seqs, k), \A i \in 1..k : Len(seqs[i]) = 3
  PROVE  IsRow(C!FlattenSeq(seqs)) /\ Len(C!FlattenSeq(seqs)) = 3 * k
<1>1. k \in Nat /\ \A i \in 1..k : IsRow(seqs[i])
  BY DEF AreRows
<1>2. PICK rest : Rests(rest, seqs, k)
  BY RestsExist
<1>3. /\ rest[k] = <<>>
      /\ \A i \in 1..k : rest[i - 1] = seqs[i] \o rest[i]
      /\ \A i \in 0..k : IsRow(rest[i])
  BY <1>2 DEF Rests
<1> DEFINE Right == { m \in Nat : m <= k => Len(rest[k - m]) = 3 * m }
<1>4. 0 \in Right
  BY <1>1, <1>3
<1>5. ASSUME NEW m \in Nat, m + 1 <= k, Len(rest[k - m]) = 3 * m
      PROVE  Len(rest[k - (m + 1)]) = 3 * (m + 1)
  <2> DEFINE i == k - m
  <2>1. i \in 1..k /\ i \in 0..k /\ k - (m + 1) = i - 1
    BY <1>1, <1>5
  <2> HIDE DEF i
  <2>2. rest[i - 1] = seqs[i] \o rest[i] /\ IsRow(seqs[i]) /\ IsRow(rest[i])
    BY <1>1, <1>3, <2>1
  <2>3. Len(rest[i - 1]) = Len(seqs[i]) + Len(rest[i])
    BY <2>2, RowJoins
  <2>4. Len(rest[i]) = 3 * m
    BY <1>5 DEF i
  <2>5. Len(seqs[i]) = 3
    BY <2>1
  <2>6. Len(rest[i - 1]) = 3 + 3 * m
    BY <2>3, <2>4, <2>5
  <2>7. 3 + 3 * m = 3 * (m + 1)
    OBVIOUS
  <2> QED BY <2>1, <2>6, <2>7
<1>6. \A m \in Nat : m \in Right => m + 1 \in Right
  <2> SUFFICES ASSUME NEW m \in Nat, m \in Right, m + 1 <= k
               PROVE  Len(rest[k - (m + 1)]) = 3 * (m + 1)
    OBVIOUS
  <2>1. m <= k
    BY <1>1
  <2> QED BY <1>5, <2>1
<1>7. k \in Right
  <2> HIDE DEF Right
  <2> QED BY <1>1, <1>4, <1>6, NatSetInduction
<1>8. Len(rest[0]) = 3 * k
  <2>1. k <= k /\ k - k = 0
    BY <1>1
  <2> QED BY <1>7, <2>1
<1>9. IsRow(rest[0])
  <2>1. 0 \in 0..k
    BY <1>1
  <2> QED BY <1>3, <2>1
<1> QED BY <1>2, <1>8, <1>9, FlattenIsRests

---------------------------------------------------------------------------
(* The whole stream: InstructionStream against DecodeIx *)

(* The signers point into the access list, in ascending order.              *)
WellFormed(payload) ==
  /\ IsRow(payload.signers)
  /\ \A i \in 1..Len(payload.signers) :
       /\ payload.signers[i].resource_idx \in 0..(Len(payload.access) - 1)
       /\ payload.signers[i].kind \in SignerKinds
  /\ C!SignersAscend(payload.signers)

(* Every action of the payload is an encoding of the one in acts.           *)
Decodings(payload, acts) ==
  /\ IsRow(payload.actions)
  /\ \A i \in 1..Len(payload.actions) :
       DecodesTo(payload.actions[i], Len(payload.access), acts[i])

StreamReadsBack(payload, key, acts) ==
  LET ix == C!InstructionStream(payload, key)
      decoded == C!DecodeIx(ix, Len(payload.access))
      n == Len(payload.signers)
  IN  /\ decoded.ok
      /\ decoded.actions = FirstOf(acts, Len(payload.actions))
      /\ DOMAIN decoded.signers = 1..n /\ Len(decoded.signers) = n
      /\ \A i \in 1..n :
           /\ decoded.signers[i].resource_idx = payload.signers[i].resource_idx
           /\ decoded.signers[i].kind = payload.signers[i].kind
           /\ ix[decoded.signers[i].sig_offset] = decoded.tail[i]
      /\ decoded.tail = [i \in 1..n |-> C!Sig(key)]

(* A stream up to its tail: a count, what it counts, and the same again.     *)
FrontOf(f, a, g, b) == ((<<f>> \o a) \o <<g>>) \o b

Regroups(f, a, g, b, t) ==
  /\ FrontOf(f, a, g, b) \o t = <<f>> \o (a \o (<<g>> \o (b \o t)))
  /\ IsRow(FrontOf(f, a, g, b))
  /\ Len(FrontOf(f, a, g, b)) = 1 + Len(a) + 1 + Len(b)

(* Four rows behind a count, however they were joined. *)
LEMMA RowsRegroup ==
  ASSUME NEW f, NEW a, NEW g, NEW b, NEW t, IsRow(a), IsRow(b), IsRow(t)
  PROVE  Regroups(f, a, g, b, t)
<1> DEFINE first == <<f>>
           second == <<g>>
<1>1. IsRow(first) /\ IsRow(second)
  BY FieldFirst
<1>2. Len(first) = 1 /\ Len(second) = 1
  BY <1>1
<1> HIDE DEF first, second
<1> DEFINE p1 == first \o a
           p2 == p1 \o second
           p3 == p2 \o b
           r1 == b \o t
           r2 == second \o r1
<1>3. /\ p1 = first \o a /\ p2 = p1 \o second /\ p3 = p2 \o b
      /\ r1 = b \o t /\ r2 = second \o r1
  OBVIOUS
<1> HIDE DEF p1, p2, p3, r1, r2
<1>4. IsRow(p1)
  BY <1>1, <1>3, RowJoins
<1>5. Len(p1) = 1 + Len(a) /\ Len(a) \in Nat /\ Len(b) \in Nat
  <2>1. Len(first \o a) = Len(first) + Len(a) /\ Len(a) \in Nat
    BY <1>1, RowJoins
  <2>2. Len(b) \in Nat
    BY RowOf DEF IsRow
  <2> QED BY <1>3, <1>2, <2>1, <2>2
<1>6. IsRow(r1)
  BY <1>3, RowJoins
<1>7. IsRow(p2)
  BY <1>1, <1>3, <1>4, RowJoins
<1>8. Len(p2) = Len(p1) + 1
  <2>1. Len(p1 \o second) = Len(p1) + Len(second)
    BY <1>1, <1>4, RowJoins
  <2> QED BY <1>3, <1>2, <2>1
<1>9. IsRow(r2)
  BY <1>1, <1>3, <1>6, RowJoins
<1>10. IsRow(p3) /\ Len(p3) = Len(p2) + Len(b)
  BY <1>3, <1>7, RowJoins
<1>11. Associates(p2, b, t)
  <2>1. IsRow(p2) /\ IsRow(b) /\ IsRow(t)
    BY <1>7
  <2> QED BY ONLY <2>1, RowAssoc
<1>12. Associates(p1, second, r1)
  BY ONLY <1>1, <1>4, <1>6, RowAssoc
<1>13. Associates(first, a, r2)
  <2>1. IsRow(first) /\ IsRow(a) /\ IsRow(r2)
    BY <1>1, <1>9
  <2> QED BY ONLY <2>1, RowAssoc
<1>14. p3 \o t = first \o (a \o r2)
  BY <1>3, <1>11, <1>12, <1>13 DEF Associates
<1>15. Len(p3) = 1 + Len(a) + 1 + Len(b)
  BY <1>8, <1>10, <1>5
<1> QED BY <1>10, <1>14, <1>15 DEF Regroups, FrontOf, p3, p2, p1, r2, r1, first, second

(* A stream the clients assemble is read back whole: the signers with the   *)
(* resources and kinds they were given, the actions, and behind them one    *)
(* signature for every pointer, where the pointer says (LanePayload::finish *)
(* against ix.rs).                                                          *)
THEOREM StreamIsRead ==
  ASSUME NEW payload, NEW key, NEW acts, WellFormed(payload), Decodings(payload, acts)
  PROVE  StreamReadsBack(payload, key, acts)
<1> DEFINE N == Len(payload.access)
           n == Len(payload.signers)
           m == Len(payload.actions)
           B == C!FlattenSeq(payload.actions)
           at == 1 + 3 * n + 1 + Len(B)
           row(i) == SignerRow(payload.signers[i].resource_idx, payload.signers[i].kind, at + i)
           rows == [i \in 1..n |-> row(i)]
           recs == [i \in 1..n |-> SignerRec(payload.signers[i].resource_idx,
                                             payload.signers[i].kind, at + i)]
           F == C!FlattenSeq(rows)
           T == [i \in 1..n |-> C!Sig(key)]
           ix == C!InstructionStream(payload, key)
           front == FrontOf(C!U32(n), F, C!U32(m), B)
<1>1. n \in Nat /\ m \in Nat
  BY RowOf DEF WellFormed, Decodings, IsRow
<1>2. ix = front \o T
  BY DEF C!InstructionStream, SignerRow, FrontOf
<1>3. EntriesRead("action", N, payload.actions, acts, m)
  <2>1. \A i \in 1..m : IsRow(payload.actions[i])
    BY DEF Decodings, DecodesTo
  <2>2. ASSUME NEW i \in 1..m, NEW r, IsRow(r)
        PROVE  DecodeOne("action", N, payload.actions[i] \o r) = C!Good(acts[i], r)
    BY <2>2 DEF Decodings, DecodesTo, DecodeOne
  <2> QED BY <1>1, <2>1, <2>2 DEF EntriesRead, AreRows, Decodings
<1>4. /\ EntriesRead("signer", N, rows, recs, n) /\ AreRows(rows, n)
      /\ \A i \in 1..n : Len(rows[i]) = 3
  <2>1. ASSUME NEW i \in 1..n, NEW r, IsRow(r)
        PROVE  /\ IsRow(rows[i]) /\ Len(rows[i]) = 3
               /\ DecodeOne("signer", N, rows[i] \o r) = C!Good(recs[i], r)
    <3>1. /\ payload.signers[i].resource_idx \in 0..(N - 1)
          /\ payload.signers[i].kind \in SignerKinds
      BY DEF WellFormed
    <3> DEFINE idx == payload.signers[i].resource_idx
               kind == payload.signers[i].kind
               offset == at + i
    <3>2. rows[i] = SignerRow(idx, kind, offset) /\ recs[i] = SignerRec(idx, kind, offset)
      OBVIOUS
    <3>3. idx \in 0..(N - 1) /\ kind \in SignerKinds
      BY <3>1
    <3> HIDE DEF idx, kind, offset, rows, recs, N
    <3>4. /\ IsRow(SignerRow(idx, kind, offset)) /\ Len(SignerRow(idx, kind, offset)) = 3
          /\ C!DecodeSigner(SignerRow(idx, kind, offset) \o r, N)
               = C!Good(SignerRec(idx, kind, offset), r)
      BY <2>1, <3>3, SignerRead
    <3> QED BY <3>2, <3>4 DEF DecodeOne
  <2>2. IsRow(rows) /\ Len(rows) = n
    BY <1>1, RowIsMade
  <2> HIDE DEF rows, recs
  <2>3. \A i \in 1..n : IsRow(rows[i]) /\ Len(rows[i]) = 3
    BY <2>1, EmptyRow
  <2>4. AreRows(rows, n)
    BY <1>1, <2>2, <2>3 DEF AreRows
  <2> QED BY <2>1, <2>3, <2>4 DEF EntriesRead
<1>5. IsRow(T) /\ Len(T) = n
  BY <1>1, RowIsMade
<1> HIDE DEF T, rows, recs
<1>6. IsRow(F) /\ Len(F) = 3 * n
  BY <1>4, TriplesLength
<1>7. IsRow(B)
  BY <1>3, EmptyRow, ManyRead
<1>8. /\ ix = <<C!U32(n)>> \o (F \o (<<C!U32(m)>> \o (B \o T)))
      /\ IsRow(front) /\ Len(front) = at
  <2> HIDE DEF F, B, ix
  <2>1. Regroups(C!U32(n), F, C!U32(m), B, T)
    BY <1>5, <1>6, <1>7, RowsRegroup
  <2>2. /\ front \o T = <<C!U32(n)>> \o (F \o (<<C!U32(m)>> \o (B \o T)))
        /\ IsRow(front) /\ Len(front) = 1 + Len(F) + 1 + Len(B)
    BY <2>1 DEF Regroups
  <2> QED BY <1>2, <1>6, <2>2
<1> DEFINE b1 == <<C!U32(m)>> \o (B \o T)
<1>9. IsRow(b1)
  <2> HIDE DEF B
  <2>1. IsRow(B \o T)
    BY <1>5, <1>7, RowJoins
  <2> QED BY <2>1, FieldFirst
<1>10. ReadMany("action", N, b1) = C!Good(FirstOf(acts, m), T)
  BY <1>3, <1>5, ManyRead
<1> HIDE DEF b1
<1>11. ReadMany("signer", N, ix) = C!Good(FirstOf(recs, n), b1)
  <2>1. ReadMany("signer", N, <<C!U32(n)>> \o (F \o b1)) = C!Good(FirstOf(recs, n), b1)
    BY <1>4, <1>9, ManyRead
  <2> QED BY <1>8, <2>1 DEF b1
<1> HIDE DEF ix, N, F, B, front
<1>12. /\ DOMAIN FirstOf(recs, n) = 1..n /\ Len(FirstOf(recs, n)) = n
       /\ \A i \in 1..n :
            /\ FirstOf(recs, n)[i].resource_idx = payload.signers[i].resource_idx
            /\ FirstOf(recs, n)[i].kind = payload.signers[i].kind
            /\ FirstOf(recs, n)[i].sig_offset = at + i
  <2>1. \A i \in 1..n : FirstOf(recs, n)[i] = recs[i]
    BY DEF FirstOf
  <2>2. DOMAIN FirstOf(recs, n) = 1..n
    BY DEF FirstOf
  <2>3. Len(FirstOf(recs, n)) = n
    BY <1>1, RowIsMade DEF FirstOf
  <2>4. ASSUME NEW i \in 1..n
        PROVE  /\ recs[i].resource_idx = payload.signers[i].resource_idx
               /\ recs[i].kind = payload.signers[i].kind
               /\ recs[i].sig_offset = at + i
    BY DEF recs, SignerRec
  <2> HIDE DEF at
  <2> QED BY <2>1, <2>2, <2>3, <2>4
<1>13. C!SignersAscend(FirstOf(recs, n))
  <2>1. \A i \in 1..(n - 1) : i \in 1..n /\ i + 1 \in 1..n
    BY <1>1
  <2> QED BY <1>12, <2>1 DEF C!SignersAscend, WellFormed
<1> DEFINE decoded == C!DecodeIx(ix, N)
<1>14. decoded = [ok |-> TRUE, signers |-> FirstOf(recs, n), actions |-> FirstOf(acts, m),
                  tail |-> T]
  <2> DEFINE signers == ReadMany("signer", N, ix)
             actions == IF signers.ok /\ C!SignersAscend(signers.value)
                        THEN ReadMany("action", N, signers.rest) ELSE C!Bad
  <2>1. decoded = IF actions.ok
                  THEN [ok |-> TRUE, signers |-> signers.value, actions |-> actions.value,
                        tail |-> actions.rest]
                  ELSE C!Bad
    BY IxIsRead
  <2>2. signers.ok /\ signers.value = FirstOf(recs, n) /\ signers.rest = b1
    BY <1>11 DEF C!Good
  <2> HIDE DEF signers
  <2>3. actions = C!Good(FirstOf(acts, m), T)
    BY <1>10, <1>13, <2>2
  <2> HIDE DEF actions
  <2>4. actions.ok /\ actions.value = FirstOf(acts, m) /\ actions.rest = T
    BY <2>3 DEF C!Good
  <2> QED BY <2>1, <2>2, <2>4
<1>15. ASSUME NEW i \in 1..n PROVE ix[at + i] = T[i]
  <2>1. (front \o T)[Len(front) + i] = T[i]
    BY <1>5, <1>8, RowJoins
  <2> QED BY <1>2, <1>8, <2>1
<1> HIDE DEF at, decoded
<1> QED BY <1>12, <1>14, <1>15 DEF StreamReadsBack, N, ix, decoded, T

---------------------------------------------------------------------------
(* What a carrier says, with every index replaced by the resource it names *)

(* Index idx of an access list is that of the resource id.                 *)
PointsAt(idx, access, id) == idx \in 0..(Len(access) - 1) /\ access[idx + 1].id = id

Named(access, action) ==
  [f \in DOMAIN action |-> IF f \in IndexFields THEN access[action[f] + 1].id ELSE action[f]]

NamedActions(access, actions) == [i \in DOMAIN actions |-> Named(access, actions[i])]

Understood(carrier) ==
  LET decoded == Decoded(carrier)
  IN  /\ decoded.ok
      /\ NamedActions(carrier.access, decoded.actions) = carrier.meant
      /\ Len(decoded.tail) = Len(decoded.signers)
      /\ \A i \in DOMAIN decoded.signers :
           carrier.ix[decoded.signers[i].sig_offset] = decoded.tail[i]

LEMMA UnderstoodIsRead ==
  MeantIsRead <=> \A carrier \in BagToSet(mempool) : Understood(carrier)
BY DEF MeantIsRead, Understood, NamedActions, Named

(* The guest reads the body as an action that, over the access list, says  *)
(* what is meant.                                                          *)
ReadsAs(body, access, meant) ==
  \E act : DecodesTo(body, Len(access), act) /\ Named(access, act) = meant

(* Every signer of a carrier is a user or the config, by one of the keys.  *)
SignersFine(carrier) ==
  LET decoded == Decoded(carrier)
  IN  \A i \in DOMAIN decoded.signers :
        /\ carrier.access[decoded.signers[i].resource_idx + 1].id \in Users \cup {Config}
        /\ carrier.ix[decoded.signers[i].sig_offset].value \in Keys

(* The payload says what is meant, action by action, and users or the      *)
(* config sign it.                                                         *)
Conveys(payload, meant) ==
  /\ WellFormed(payload)
  /\ IsRow(payload.actions)
  /\ meant = [i \in 1..Len(payload.actions) |-> meant[i]]
  /\ \A i \in 1..Len(payload.actions) : ReadsAs(payload.actions[i], payload.access, meant[i])
  /\ \A i \in 1..Len(payload.signers) :
       payload.access[payload.signers[i].resource_idx + 1].id \in Users \cup {Config}

LEMMA ConveyedIsUnderstood ==
  ASSUME NEW payload, NEW key \in Keys, NEW carrier, Conveys(payload, carrier.meant),
         carrier.access = payload.access, carrier.ix = C!InstructionStream(payload, key)
  PROVE  Understood(carrier) /\ SignersFine(carrier) /\ IsRow(Decoded(carrier).actions)
<1> DEFINE N == Len(payload.access)
           m == Len(payload.actions)
           n == Len(payload.signers)
           meant == carrier.meant
           acts == [i \in 1..m |-> CHOOSE act : /\ DecodesTo(payload.actions[i], N, act)
                                                /\ Named(payload.access, act) = meant[i]]
           decoded == Decoded(carrier)
<1>1. ASSUME NEW i \in 1..m
      PROVE  DecodesTo(payload.actions[i], N, acts[i]) /\ Named(payload.access, acts[i]) = meant[i]
  <2>1. \E act : /\ DecodesTo(payload.actions[i], N, act)
                 /\ Named(payload.access, act) = meant[i]
    BY DEF Conveys, ReadsAs
  <2>2. acts[i] = CHOOSE act : /\ DecodesTo(payload.actions[i], N, act)
                               /\ Named(payload.access, act) = meant[i]
    BY <1>1
  <2> QED BY <2>1, <2>2
<1> HIDE DEF acts
<1>2. WellFormed(payload) /\ Decodings(payload, acts)
  BY <1>1 DEF Conveys, Decodings
<1>3. StreamReadsBack(payload, key, acts)
  BY <1>2, StreamIsRead
<1>4. decoded = C!DecodeIx(C!InstructionStream(payload, key), N)
  BY DEF Decoded
<1> HIDE DEF decoded
<1>5. /\ decoded.ok
      /\ decoded.actions = FirstOf(acts, m)
      /\ DOMAIN decoded.signers = 1..n /\ Len(decoded.signers) = n
      /\ \A i \in 1..n :
           /\ decoded.signers[i].resource_idx = payload.signers[i].resource_idx
           /\ carrier.ix[decoded.signers[i].sig_offset] = decoded.tail[i]
      /\ decoded.tail = [i \in 1..n |-> C!Sig(key)]
  BY <1>3, <1>4 DEF StreamReadsBack
<1>6. NamedActions(carrier.access, decoded.actions) = meant
  <2>1. DOMAIN FirstOf(acts, m) = 1..m /\ \A i \in 1..m : FirstOf(acts, m)[i] = acts[i]
    BY DEF FirstOf
  <2>2. NamedActions(carrier.access, decoded.actions) =
          [i \in 1..m |-> Named(payload.access, acts[i])]
    BY <1>5, <2>1 DEF NamedActions
  <2>3. meant = [i \in 1..m |-> meant[i]]
    BY DEF Conveys
  <2> HIDE DEF meant
  <2> QED BY <1>1, <2>2, <2>3
<1>7. Len(decoded.tail) = n
  <2>1. n \in Nat
    BY RowOf DEF Conveys, WellFormed, IsRow
  <2> QED BY <1>5, <2>1, RowIsMade
<1>8. ASSUME NEW i \in DOMAIN decoded.signers
      PROVE  /\ carrier.access[decoded.signers[i].resource_idx + 1].id \in Users \cup {Config}
             /\ carrier.ix[decoded.signers[i].sig_offset].value \in Keys
             /\ carrier.ix[decoded.signers[i].sig_offset] = decoded.tail[i]
  <2>1. i \in 1..n
    BY <1>5
  <2>2. decoded.tail[i] = C!Sig(key) /\ C!Sig(key).value = key
    BY <1>5, <2>1 DEF C!Sig
  <2>3. payload.access[payload.signers[i].resource_idx + 1].id \in Users \cup {Config}
    BY <2>1 DEF Conveys
  <2>4. /\ decoded.signers[i].resource_idx = payload.signers[i].resource_idx
        /\ carrier.ix[decoded.signers[i].sig_offset] = decoded.tail[i]
    BY <1>5, <2>1
  <2> QED BY <2>2, <2>3, <2>4
<1>9. IsRow(decoded.actions)
  <2>1. m \in Nat
    BY RowOf DEF Conveys, IsRow
  <2> QED BY <1>5, <2>1, RowIsMade DEF FirstOf
<1> QED BY <1>5, <1>6, <1>7, <1>8, <1>9 DEF Understood, SignersFine, decoded

---------------------------------------------------------------------------
(* What each encoder writes says, over the access list its indexes point   *)
(* into, what its caller means.                                            *)

LEMMA InitReads ==
  ASSUME NEW access, NEW idx, NEW min, NEW ttl, PointsAt(idx, access, Config)
  PROVE  ReadsAs(C!EncodeInit(idx, min, ttl, Covenant, Genesis),
                 access, InitMeant("Init", min, ttl))
<1> DEFINE act == [action_tag |-> "Init", config_idx |-> idx, min |-> min, ttl |-> ttl,
                  covenant_id |-> Covenant, lock |-> Genesis]
<1>1. idx \in 0..(Len(access) - 1)
  BY DEF PointsAt
<1>2. DecodesTo(C!EncodeInit(idx, min, ttl, Covenant, Genesis), Len(access), act)
  BY <1>1, InitDecodes
<1>3. Named(access, act) = InitMeant("Init", min, ttl)
  BY DEF Named, IndexFields, PointsAt, InitMeant
<1> QED BY <1>2, <1>3 DEF ReadsAs

LEMMA UpdateReads ==
  ASSUME NEW access, NEW idx, NEW min, NEW ttl, PointsAt(idx, access, Config)
  PROVE  ReadsAs(C!EncodeUpdate(idx, min, ttl, Covenant, Genesis),
                 access, InitMeant("Update", min, ttl))
<1> DEFINE act == [action_tag |-> "Update", config_idx |-> idx, min |-> min, ttl |->
                  ttl, covenant_id |-> Covenant, lock |-> Genesis]
<1>1. idx \in 0..(Len(access) - 1)
  BY DEF PointsAt
<1>2. DecodesTo(C!EncodeUpdate(idx, min, ttl, Covenant, Genesis), Len(access), act)
  BY <1>1, UpdateDecodes
<1>3. Named(access, act) = InitMeant("Update", min, ttl)
  BY DEF Named, IndexFields, PointsAt, InitMeant
<1> QED BY <1>2, <1>3 DEF ReadsAs

LEMMA DepositReads ==
  ASSUME NEW access, NEW user_idx, NEW config_idx, NEW user, PointsAt(user_idx,
         access, user), PointsAt(config_idx, access, Config)
  PROVE  ReadsAs(C!EncodeDeposit(user_idx, config_idx, 0, user), access, DepositMeant(user))
<1> DEFINE act == [action_tag |-> "Deposit", user_idx |-> user_idx, config_idx |->
                  config_idx, output_idx |-> 0, lock |-> user]
<1>1. /\ user_idx \in 0..(Len(access) - 1)
      /\ config_idx \in 0..(Len(access) - 1)
  BY DEF PointsAt
<1>2. DecodesTo(C!EncodeDeposit(user_idx, config_idx, 0, user), Len(access), act)
  BY <1>1, DepositDecodes
<1>3. Named(access, act) = DepositMeant(user)
  BY DEF Named, IndexFields, PointsAt, DepositMeant
<1> QED BY <1>2, <1>3 DEF ReadsAs

LEMMA CreateReads ==
  ASSUME NEW access, NEW creator_idx, NEW game_idx, NEW game, NEW
         stake, NEW rounds, PointsAt(creator_idx, access, game[1]),
         PointsAt(game_idx, access, game)
  PROVE  ReadsAs(C!EncodeCreateGame(creator_idx, game_idx, stake, rounds, "X"),
                 access, CreateMeant(game, stake, rounds))
<1> DEFINE act == [action_tag |-> "CreateGame", creator_idx |-> creator_idx, game_idx
                  |-> game_idx, stake |-> stake, rounds |-> rounds, mark |-> "X"]
<1>1. /\ creator_idx \in 0..(Len(access) - 1)
      /\ game_idx \in 0..(Len(access) - 1)
  BY DEF PointsAt
<1>2. DecodesTo(C!EncodeCreateGame(creator_idx, game_idx, stake, rounds, "X"), Len(access), act)
  BY <1>1, CreateDecodes DEF C!MarkByte
<1>3. Named(access, act) = CreateMeant(game, stake, rounds)
  BY DEF Named, IndexFields, PointsAt, CreateMeant
<1> QED BY <1>2, <1>3 DEF ReadsAs

LEMMA JoinReads ==
  ASSUME NEW access, NEW game_idx, NEW joiner_idx, NEW game, NEW joiner,
         PointsAt(game_idx, access, game), PointsAt(joiner_idx, access, joiner)
  PROVE  ReadsAs(C!EncodeJoinGame(game_idx, joiner_idx), access, JoinMeant(game, joiner))
<1> DEFINE act == [action_tag |-> "JoinGame", game_idx |-> game_idx, joiner_idx |->
                  joiner_idx]
<1>1. /\ game_idx \in 0..(Len(access) - 1)
      /\ joiner_idx \in 0..(Len(access) - 1)
  BY DEF PointsAt
<1>2. DecodesTo(C!EncodeJoinGame(game_idx, joiner_idx), Len(access), act)
  BY <1>1, JoinDecodes
<1>3. Named(access, act) = JoinMeant(game, joiner)
  BY DEF Named, IndexFields, PointsAt, JoinMeant
<1> QED BY <1>2, <1>3 DEF ReadsAs

LEMMA TurnReads ==
  ASSUME NEW access, NEW game_idx, NEW user_idx, NEW game, NEW user, NEW cell \in
         0..8, PointsAt(game_idx, access, game), PointsAt(user_idx, access, user)
  PROVE  ReadsAs(C!EncodeTurn(game_idx, user_idx, cell), access, TurnMeant(game, user, cell))
<1> DEFINE act == [action_tag |-> "Turn", game_idx |-> game_idx, user_idx |-> user_idx,
                  cell |-> cell]
<1>1. /\ game_idx \in 0..(Len(access) - 1)
      /\ user_idx \in 0..(Len(access) - 1)
  BY DEF PointsAt
<1>2. DecodesTo(C!EncodeTurn(game_idx, user_idx, cell), Len(access), act)
  BY <1>1, TurnDecodes
<1>3. Named(access, act) = TurnMeant(game, user, cell)
  BY DEF Named, IndexFields, PointsAt, TurnMeant
<1> QED BY <1>2, <1>3 DEF ReadsAs

LEMMA TransferReads ==
  ASSUME NEW access, NEW source_idx, NEW dest_idx, NEW source, NEW dest, NEW amount,
         PointsAt(source_idx, access, source), PointsAt(dest_idx, access, dest)
  PROVE  ReadsAs(C!EncodeTransfer(source_idx, dest_idx, amount),
                 access, TransferMeant(source, dest, amount, C!NoLock))
<1> DEFINE act == [action_tag |-> "Transfer", source_idx |-> source_idx, dest_idx |->
                  dest_idx, amount |-> amount, dest_init |-> C!NoLock]
<1>1. /\ source_idx \in 0..(Len(access) - 1)
      /\ dest_idx \in 0..(Len(access) - 1)
  BY DEF PointsAt
<1>2. DecodesTo(C!EncodeTransfer(source_idx, dest_idx, amount), Len(access), act)
  BY <1>1, TransferDecodes
<1>3. Named(access, act) = TransferMeant(source, dest, amount, C!NoLock)
  BY DEF Named, IndexFields, PointsAt, TransferMeant
<1> QED BY <1>2, <1>3 DEF ReadsAs

LEMMA TransferCreateReads ==
  ASSUME NEW access, NEW source_idx, NEW dest_idx, NEW source, NEW dest, NEW amount,
         NEW lock, PointsAt(source_idx, access, source), PointsAt(dest_idx, access,
         dest)
  PROVE  ReadsAs(C!EncodeTransferCreate(source_idx, dest_idx, amount, lock),
                 access, TransferMeant(source, dest, amount, lock))
<1> DEFINE act == [action_tag |-> "Transfer", source_idx |-> source_idx, dest_idx |->
                  dest_idx, amount |-> amount, dest_init |-> lock]
<1>1. /\ source_idx \in 0..(Len(access) - 1)
      /\ dest_idx \in 0..(Len(access) - 1)
  BY DEF PointsAt
<1>2. DecodesTo(C!EncodeTransferCreate(source_idx, dest_idx, amount, lock), Len(access), act)
  BY <1>1, TransferCreateDecodes
<1>3. Named(access, act) = TransferMeant(source, dest, amount, lock)
  BY DEF Named, IndexFields, PointsAt, TransferMeant
<1> QED BY <1>2, <1>3 DEF ReadsAs

LEMMA WithdrawReads ==
  ASSUME NEW access, NEW user_idx, NEW config_idx, NEW user, NEW amount,
         PointsAt(user_idx, access, user), PointsAt(config_idx, access, Config)
  PROVE  ReadsAs(C!EncodeWithdraw(user_idx, config_idx, amount, user),
                 access, WithdrawMeant(user, amount))
<1> DEFINE act == [action_tag |-> "Withdraw", user_idx |-> user_idx, config_idx |->
                  config_idx, amount |-> amount, dest |-> user]
<1>1. /\ user_idx \in 0..(Len(access) - 1)
      /\ config_idx \in 0..(Len(access) - 1)
  BY DEF PointsAt
<1>2. DecodesTo(C!EncodeWithdraw(user_idx, config_idx, amount, user), Len(access), act)
  BY <1>1, WithdrawDecodes
<1>3. Named(access, act) = WithdrawMeant(user, amount)
  BY DEF Named, IndexFields, PointsAt, WithdrawMeant
<1> QED BY <1>2, <1>3 DEF ReadsAs

LEMMA TimeoutReads ==
  ASSUME NEW access, NEW game_idx, NEW config_idx, NEW game, PointsAt(game_idx,
         access, game), PointsAt(config_idx, access, Config)
  PROVE  ReadsAs(C!EncodeTimeout(game_idx, config_idx), access, TimeoutMeant(game))
<1> DEFINE act == [action_tag |-> "Timeout", game_idx |-> game_idx, config_idx |->
                  config_idx]
<1>1. /\ game_idx \in 0..(Len(access) - 1)
      /\ config_idx \in 0..(Len(access) - 1)
  BY DEF PointsAt
<1>2. DecodesTo(C!EncodeTimeout(game_idx, config_idx), Len(access), act)
  BY <1>1, TimeoutDecodes
<1>3. Named(access, act) = TimeoutMeant(game)
  BY DEF Named, IndexFields, PointsAt, TimeoutMeant
<1> QED BY <1>2, <1>3 DEF ReadsAs

UserLockMeant(user, lock) ==
  [action_tag |-> "UpdateUserLock", user_idx |-> user, lock |-> lock]

LEMMA UserLockReads ==
  ASSUME NEW access, NEW user_idx, NEW user, NEW lock, PointsAt(user_idx, access,
         user)
  PROVE  ReadsAs(C!EncodeUpdateUserLock(user_idx, lock), access, UserLockMeant(user, lock))
<1> DEFINE act == [action_tag |-> "UpdateUserLock", user_idx |-> user_idx, lock |->
                  lock]
<1>1. user_idx \in 0..(Len(access) - 1)
  BY DEF PointsAt
<1>2. DecodesTo(C!EncodeUpdateUserLock(user_idx, lock), Len(access), act)
  BY <1>1, UserLockDecodes
<1>3. Named(access, act) = UserLockMeant(user, lock)
  BY DEF Named, IndexFields, PointsAt, UserLockMeant
<1> QED BY <1>2, <1>3 DEF ReadsAs

---------------------------------------------------------------------------
(* Access lists: every entry is where the client looks for it *)

LEMMA SameCardinality ==
  ASSUME NEW S
  PROVE  C!Cardinality(S) = Cardinality(S)
BY DEF C!Cardinality, Cardinality

(* Ids are distinct hashes. *)
RankTells ==
  /\ rank \in [Resources -> Nat]
  /\ \A r, s \in Resources : rank[r] = rank[s] => r = s

(* The access list holds, in some order, entries of modes a client writes. *)
AccessFine(access) ==
  \A i \in DOMAIN access : access[i].access_type \in {"Write", "Read"}

LEMMA PairPoints ==
  ASSUME NEW first, NEW second, NEW at, at = C!PairAccess(first, second)
  PROVE  /\ PointsAt(at.first_idx, at.access, first.id)
         /\ PointsAt(at.second_idx, at.access, second.id)
         /\ \A i \in DOMAIN at.access : at.access[i] \in {first, second}
<1>1. CASE C!Precedes(first.id, second.id)
  <2>1. at.first_idx = 0 /\ at.second_idx = 1 /\ at.access = <<first, second>>
    BY <1>1 DEF C!PairAccess
  <2>2. /\ Len(at.access) = 2 /\ DOMAIN at.access = {1, 2}
        /\ at.access[1] = first /\ at.access[2] = second
    BY <2>1
  <2> QED BY <2>1, <2>2 DEF PointsAt
<1>2. CASE ~C!Precedes(first.id, second.id)
  <2>1. at.first_idx = 1 /\ at.second_idx = 0 /\ at.access = <<second, first>>
    BY <1>2 DEF C!PairAccess
  <2>2. /\ Len(at.access) = 2 /\ DOMAIN at.access = {1, 2}
        /\ at.access[1] = second /\ at.access[2] = first
    BY <2>1
  <2> QED BY <2>1, <2>2 DEF PointsAt
<1> QED BY <1>1, <1>2

(* The number of ids before one is its place. *)
Below(ids, id) == { other \in ids : rank[other] < rank[id] }

LEMMA PlacesDiffer ==
  ASSUME RankTells, NEW ids \in SUBSET Resources, IsFiniteSet(ids)
  PROVE  /\ \A id \in ids : Cardinality(Below(ids, id)) \in 0..(Cardinality(ids) - 1)
         /\ \A id, other \in ids :
              Cardinality(Below(ids, id)) = Cardinality(Below(ids, other)) => id = other
         /\ \A i \in 0..(Cardinality(ids) - 1) :
              \E id \in ids : Cardinality(Below(ids, id)) = i
<1> DEFINE n == Cardinality(ids)
           place == [id \in ids |-> Cardinality(Below(ids, id))]
<1>1. n \in Nat
  BY FS_CardinalityType
<1>2. ASSUME NEW id \in ids
      PROVE  /\ IsFiniteSet(Below(ids, id)) /\ Cardinality(Below(ids, id)) \in 0..(n - 1)
             /\ Below(ids, id) \subseteq ids
  <2>1. Below(ids, id) \in SUBSET ids /\ id \notin Below(ids, id)
    BY DEF Below, RankTells
  <2>2. /\ IsFiniteSet(Below(ids, id)) /\ Cardinality(Below(ids, id)) <= n
        /\ (n = Cardinality(Below(ids, id)) => ids = Below(ids, id))
    BY <2>1, FS_Subset
  <2>3. Cardinality(Below(ids, id)) \in Nat
    BY <2>2, FS_CardinalityType
  <2>4. Cardinality(Below(ids, id)) # n
    BY <1>2, <2>1, <2>2
  <2> QED BY <1>1, <2>1, <2>2, <2>3, <2>4
<1>3. ASSUME NEW id \in ids, NEW other \in ids, rank[id] < rank[other]
      PROVE  Cardinality(Below(ids, id)) # Cardinality(Below(ids, other))
  <2>1. rank \in [Resources -> Nat]
    BY DEF RankTells
  <2>2. Below(ids, id) \in SUBSET Below(ids, other)
    BY <1>3, <2>1 DEF Below
  <2>3. id \in Below(ids, other) /\ id \notin Below(ids, id)
    BY <1>3, <2>1 DEF Below
  <2>4. Cardinality(Below(ids, other)) = Cardinality(Below(ids, id))
          => Below(ids, other) = Below(ids, id)
    BY <1>2, <2>2, FS_Subset
  <2> QED BY <2>3, <2>4
<1>4. ASSUME NEW id \in ids, NEW other \in ids,
             Cardinality(Below(ids, id)) = Cardinality(Below(ids, other))
      PROVE  id = other
  <2>1. id \in Resources /\ other \in Resources
    OBVIOUS
  <2>2. rank[id] \in Nat /\ rank[other] \in Nat
    BY <2>1 DEF RankTells
  <2>3. ~(rank[id] < rank[other]) /\ ~(rank[other] < rank[id])
    BY <1>3, <1>4
  <2>4. rank[id] = rank[other]
    BY <2>2, <2>3
  <2> QED BY <2>1, <2>4 DEF RankTells
<1>5. place \in Injection(ids, 0..(n - 1))
  <2>1. place \in [ids -> 0..(n - 1)]
    BY <1>2
  <2> QED BY <1>4, <2>1 DEF Injection, IsInjective
<1>6. IsFiniteSet(0..(n - 1)) /\ Cardinality(0..(n - 1)) = n
  <2> HIDE DEF n
  <2>1. n - 1 \in Int /\ (IF 0 > n - 1 THEN 0 ELSE (n - 1) - 0 + 1) = n
    BY <1>1
  <2> QED BY <2>1, FS_Interval
<1>7. place \in Surjection(ids, 0..(n - 1))
  <2> HIDE DEF place, n
  <2> QED BY <1>5, <1>6, FS_Injection DEF n
<1>8. ASSUME NEW i \in 0..(n - 1)
      PROVE  \E id \in ids : Cardinality(Below(ids, id)) = i
  BY <1>7 DEF Surjection
<1> QED BY <1>2, <1>4, <1>8

IdsOf(entries, k) == { entries[i].id : i \in 1..k }

LEMMA SortedPoints ==
  ASSUME RankTells, NEW k \in Nat, NEW entries, DOMAIN entries = 1..k,
         IdsOf(entries, k) \subseteq Resources,
         NEW access, access = C!SortedAccess(entries)
  PROVE  /\ \A id \in IdsOf(entries, k) : PointsAt(C!Position(access, id), access, id)
         /\ \A i \in DOMAIN access : \E j \in 1..k : access[i] = entries[j]
<1> DEFINE ids == { entries[i].id : i \in DOMAIN entries }
           before(id) == C!Cardinality({ other \in ids : C!Precedes(other, id) })
           First(id) == CHOOSE i \in DOMAIN entries :
                          entries[i].id = id /\ \A j \in 1..(i - 1) : entries[j].id # id
           IdAt(i) == CHOOSE id \in ids : before(id) = i - 1
           n == Cardinality(ids)
<1>0. access = [i \in 1..C!Cardinality(ids) |-> entries[First(IdAt(i))]]
  BY DEF C!SortedAccess
<1>1. IsFiniteSet(ids) /\ n \in Nat
  <2> DEFINE f == [i \in 1..k |-> entries[i].id]
  <2>1. f \in Surjection(1..k, ids)
    BY DEF Surjection
  <2>2. IsFiniteSet(1..k)
    BY FS_Interval
  <2>3. IsFiniteSet(ids)
    BY <2>1, <2>2, FS_Surjection
  <2> QED BY <2>3, FS_CardinalityType
<1>2. access = [i \in 1..n |-> entries[First(IdAt(i))]]
  <2>1. C!Cardinality(ids) = n
    BY SameCardinality
  <2> HIDE DEF ids, n, First, IdAt
  <2> QED BY <1>0, <2>1
<1>3. ASSUME NEW id \in ids
      PROVE  First(id) \in 1..k /\ entries[First(id)].id = id
  <2> DEFINE Spots == { i \in 1..k : entries[i].id = id }
  <2>1. Spots \subseteq Nat /\ Spots # {}
    BY <1>3
  <2>2. PICK i \in Spots : \A j \in Spots : i <= j
    BY <2>1, LeastNat
  <2>3. i \in 1..k /\ entries[i].id = id /\ \A j \in 1..(i - 1) : entries[j].id # id
    <3>1. i \in 1..k /\ entries[i].id = id
      BY <2>2
    <3>2. ASSUME NEW j \in 1..(i - 1), entries[j].id = id PROVE FALSE
      <4>1. j \in 1..k /\ j < i
        BY <3>1, <3>2
      <4>2. j \in Spots
        BY <3>2, <4>1
      <4> QED BY <2>2, <3>1, <4>1, <4>2
    <3> QED BY <3>1, <3>2
  <2> QED BY <2>3
<1> HIDE DEF First
<1>4. ids \in SUBSET Resources /\ ids = IdsOf(entries, k)
  BY DEF IdsOf
<1> HIDE DEF ids, n
<1>5. /\ \A id \in ids : Cardinality(Below(ids, id)) \in 0..(n - 1)
      /\ \A id, other \in ids :
           Cardinality(Below(ids, id)) = Cardinality(Below(ids, other)) => id = other
      /\ \A i \in 0..(n - 1) : \E id \in ids : Cardinality(Below(ids, id)) = i
  BY <1>1, <1>4, PlacesDiffer DEF n
<1>9. \A id : before(id) = Cardinality(Below(ids, id))
  BY SameCardinality DEF Below, C!Precedes
<1> HIDE DEF before
<1>6. Len(access) = n /\ DOMAIN access = 1..n
  BY <1>1, <1>2, RowIsMade
<1>7. ASSUME NEW id \in ids
      PROVE  PointsAt(C!Position(access, id), access, id)
  <2> DEFINE i == Cardinality(Below(ids, id)) + 1
  <2>1. i \in 1..n
    BY <1>1, <1>5, <1>7
  <2>2. IdAt(i) = id
    <3>1. i - 1 = Cardinality(Below(ids, id))
      BY <1>5, <1>7
    <3> HIDE DEF i
    <3>2. IdAt(i) \in ids /\ Cardinality(Below(ids, IdAt(i))) = i - 1
      BY <1>7, <1>9, <3>1
    <3> HIDE DEF IdAt
    <3> QED BY <1>5, <1>7, <3>1, <3>2
  <2> HIDE DEF i, IdAt
  <2>3. access[i].id = id
    BY <1>2, <1>3, <1>7, <2>1, <2>2
  <2>4. (CHOOSE j \in DOMAIN access : access[j].id = id) \in DOMAIN access
    BY <1>6, <2>1, <2>3
  <2>5. access[CHOOSE j \in DOMAIN access : access[j].id = id].id = id
    BY <1>6, <2>1, <2>3
  <2> DEFINE p == CHOOSE j \in DOMAIN access : access[j].id = id
  <2>6. p \in 1..n /\ access[p].id = id
    BY <1>6, <2>4, <2>5
  <2>7. C!Position(access, id) = p - 1
    BY DEF C!Position
  <2> HIDE DEF p
  <2>8. p - 1 \in 0..(n - 1) /\ (p - 1) + 1 = p
    BY <1>1, <2>6
  <2> QED BY <1>6, <2>6, <2>7, <2>8 DEF PointsAt
<1>8. ASSUME NEW i \in DOMAIN access PROVE \E j \in 1..k : access[i] = entries[j]
  <2>1. i \in 1..n /\ i - 1 \in 0..(n - 1)
    BY <1>1, <1>6
  <2>2. IdAt(i) \in ids
    <3>1. \E id \in ids : before(id) = i - 1
      BY <1>5, <1>9, <2>1
    <3> QED BY <3>1
  <2> HIDE DEF IdAt
  <2> QED BY <1>2, <1>3, <2>1, <2>2
<1> QED BY <1>4, <1>7, <1>8

---------------------------------------------------------------------------
(* Payloads of one, two or three actions *)

(* At most one pointer, to a user or the config.                           *)
SignersPoint(signers, access) ==
  \/ signers = <<>>
  \/ \E idx, id, kind :
       /\ id \in Users \cup {Config} /\ kind \in SignerKinds
       /\ PointsAt(idx, access, id)
       /\ signers = <<C!Pointer(idx, kind)>>

LEMMA PointersFit ==
  ASSUME NEW signers, NEW access, SignersPoint(signers, access)
  PROVE  /\ IsRow(signers)
         /\ \A i \in 1..Len(signers) :
              /\ signers[i].resource_idx \in 0..(Len(access) - 1)
              /\ signers[i].kind \in SignerKinds
              /\ access[signers[i].resource_idx + 1].id \in Users \cup {Config}
         /\ C!SignersAscend(signers)
<1>1. CASE signers = <<>>
  <2>1. Len(signers) = 0 /\ IsRow(signers)
    BY <1>1, EmptyRow
  <2> QED BY <2>1 DEF C!SignersAscend
<1>2. CASE signers # <<>>
  <2>1. PICK idx, id, kind :
          /\ id \in Users \cup {Config} /\ kind \in SignerKinds
          /\ PointsAt(idx, access, id)
          /\ signers = <<C!Pointer(idx, kind)>>
    BY <1>2 DEF SignersPoint
  <2> DEFINE p == C!Pointer(idx, kind)
  <2>2. p.resource_idx = idx /\ p.kind = kind
    BY DEF C!Pointer
  <2> HIDE DEF p
  <2>3. signers = <<p>>
    BY <2>1 DEF p
  <2>4. IsRow(signers) /\ Len(signers) = 1 /\ signers[1] = p
    <3>1. IsRow(<<p>>)
      BY FieldFirst, EmptyRow
    <3>2. Len(<<p>>) = 1 /\ <<p>>[1] = p
      OBVIOUS
    <3> QED BY <2>3, <3>1, <3>2
  <2>5. idx \in 0..(Len(access) - 1) /\ access[idx + 1].id = id
    BY <2>1 DEF PointsAt
  <2>6. \A i \in 1..Len(signers) : i = 1
    BY <2>4
  <2>7. C!SignersAscend(signers)
    <3>1. 1..(Len(signers) - 1) = {}
      BY <2>4
    <3> QED BY <3>1 DEF C!SignersAscend
  <2> QED BY <2>1, <2>2, <2>4, <2>5, <2>6, <2>7
<1> QED BY <1>1, <1>2

LEMMA ConveysRow ==
  ASSUME NEW access, NEW actions, NEW signers, NEW meant,
         IsRow(actions), SignersPoint(signers, access),
         meant = [i \in 1..Len(actions) |-> meant[i]],
         \A i \in 1..Len(actions) : ReadsAs(actions[i], access, meant[i])
  PROVE  Conveys(C!Payload(access, actions, signers), meant)
<1> DEFINE payload == C!Payload(access, actions, signers)
<1>1. payload.access = access /\ payload.actions = actions /\ payload.signers = signers
  BY DEF C!Payload
<1> HIDE DEF payload
<1>2. WellFormed(payload)
  BY <1>1, PointersFit DEF WellFormed
<1>3. \A i \in 1..Len(payload.signers) :
        payload.access[payload.signers[i].resource_idx + 1].id \in Users \cup {Config}
  BY <1>1, PointersFit
<1>4. Conveys(payload, meant)
  BY <1>1, <1>2, <1>3 DEF Conveys
<1> QED BY <1>4 DEF payload

LEMMA ConveysOne ==
  ASSUME NEW access, NEW body, NEW signers, NEW m,
         SignersPoint(signers, access), ReadsAs(body, access, m)
  PROVE  Conveys(C!Payload(access, <<body>>, signers), <<m>>)
<1> DEFINE actions == <<body>>
           meant == <<m>>
<1>1. IsRow(actions)
  BY FieldFirst, EmptyRow
<1>2. Len(actions) = 1 /\ actions[1] = body /\ meant[1] = m
  OBVIOUS
<1>3. meant = [i \in 1..1 |-> meant[i]]
  OBVIOUS
<1> HIDE DEF actions, meant
<1>4. meant = [i \in 1..Len(actions) |-> meant[i]]
  BY <1>2, <1>3
<1>5. \A i \in 1..Len(actions) : ReadsAs(actions[i], access, meant[i])
  <2>1. \A i \in 1..Len(actions) : i = 1
    BY <1>2
  <2> QED BY <1>2, <2>1
<1>6. Conveys(C!Payload(access, actions, signers), meant)
  BY <1>1, <1>4, <1>5, ConveysRow
<1> QED BY <1>6 DEF actions, meant

LEMMA ConveysTwo ==
  ASSUME NEW access, NEW body, NEW other, NEW signers, NEW meant,
         meant = [i \in 1..2 |-> meant[i]],
         SignersPoint(signers, access),
         ReadsAs(body, access, meant[1]), ReadsAs(other, access, meant[2])
  PROVE  Conveys(C!Payload(access, <<body, other>>, signers), meant)
<1> DEFINE actions == <<body, other>>
<1>1. IsRow(actions)
  <2>1. actions \in Seq({body, other})
    OBVIOUS
  <2> QED BY <2>1, RowOf
<1>2. Len(actions) = 2 /\ actions[1] = body /\ actions[2] = other
  OBVIOUS
<1> HIDE DEF actions
<1>4. meant = [i \in 1..Len(actions) |-> meant[i]]
  BY <1>2
<1>5. \A i \in 1..Len(actions) : ReadsAs(actions[i], access, meant[i])
  <2>1. \A i \in 1..Len(actions) : i = 1 \/ i = 2
    BY <1>2
  <2> QED BY <1>2, <2>1
<1>6. Conveys(C!Payload(access, actions, signers), meant)
  BY <1>1, <1>4, <1>5, ConveysRow
<1> QED BY <1>6 DEF actions

LEMMA ConveysThree ==
  ASSUME NEW access, NEW body, NEW other, NEW third, NEW signers, NEW meant,
         meant = [i \in 1..3 |-> meant[i]],
         SignersPoint(signers, access),
         ReadsAs(body, access, meant[1]), ReadsAs(other, access, meant[2]),
         ReadsAs(third, access, meant[3])
  PROVE  Conveys(C!Payload(access, <<body, other, third>>, signers), meant)
<1> DEFINE actions == <<body, other, third>>
<1>1. IsRow(actions)
  <2>1. actions \in Seq({body, other, third})
    OBVIOUS
  <2> QED BY <2>1, RowOf
<1>2. Len(actions) = 3 /\ actions[1] = body /\ actions[2] = other /\ actions[3] = third
  OBVIOUS
<1> HIDE DEF actions
<1>4. meant = [i \in 1..Len(actions) |-> meant[i]]
  BY <1>2
<1>5. \A i \in 1..Len(actions) : ReadsAs(actions[i], access, meant[i])
  <2>1. \A i \in 1..Len(actions) : i = 1 \/ i = 2 \/ i = 3
    BY <1>2
  <2> QED BY <1>2, <2>1
<1>6. Conveys(C!Payload(access, actions, signers), meant)
  BY <1>1, <1>4, <1>5, ConveysRow
<1> QED BY <1>6 DEF actions

(* What a client signs its own carrier with. *)
LEMMA OwnPointer ==
  ASSUME NEW idx, NEW access, NEW id \in Users \cup {Config}, PointsAt(idx, access, id)
  PROVE  SignersPoint(C!OwnSignature(idx), access)
<1>1. C!SignerTag.SchnorrSigPtr \in SignerKinds
  BY DEF SignerKinds, C!SignerTag
<1> QED BY <1>1 DEF SignersPoint, C!OwnSignature

---------------------------------------------------------------------------
(* What the builders of Carriers say *)

Amount == 0..U64_MAX

(* An action that is meant has the arguments its handler takes.            *)
ArgumentsFine(m) ==
  /\ "action_tag" \in DOMAIN m
  /\ m.action_tag \in {"Init", "Update"} =>
       {"min", "lock"} \subseteq DOMAIN m /\ m.min \in Amount /\ m.lock \in Locks
  /\ m.action_tag = "UpdateUserLock" => "lock" \in DOMAIN m /\ m.lock \in Locks
  /\ m.action_tag \in {"Transfer", "Withdraw"} => "amount" \in DOMAIN m /\ m.amount \in Nat
  /\ m.action_tag = "CreateGame" => "stake" \in DOMAIN m /\ m.stake \in Nat

MeantFine(meant) == \A i \in DOMAIN meant : ArgumentsFine(meant[i])

Says(payload, meant) == Conveys(payload, meant) /\ AccessFine(payload.access) /\ MeantFine(meant)

LEMMA SaysOne ==
  ASSUME NEW access, NEW body, NEW signers, NEW m, AccessFine(access),
         SignersPoint(signers, access), ReadsAs(body, access, m), ArgumentsFine(m)
  PROVE  Says(C!Payload(access, <<body>>, signers), <<m>>)
<1>1. Conveys(C!Payload(access, <<body>>, signers), <<m>>)
  BY ConveysOne
<1>2. C!Payload(access, <<body>>, signers).access = access
  BY DEF C!Payload
<1>3. MeantFine(<<m>>)
  BY DEF MeantFine
<1> QED BY <1>1, <1>2, <1>3 DEF Says

LEMMA NoPointer ==
  ASSUME NEW access
  PROVE  SignersPoint(<<>>, access)
BY DEF SignersPoint

(* The access lists of encode.rs *)

LEMMA OnlyPoints ==
  ASSUME NEW id
  PROVE  PointsAt(0, <<C!Write(id)>>, id) /\ AccessFine(<<C!Write(id)>>)
<1>1. C!Write(id).id = id /\ C!Write(id).access_type = "Write"
  BY DEF C!Write, C!Entry
<1> QED BY <1>1 DEF PointsAt, AccessFine

LEMMA UserConfigPoints ==
  ASSUME NEW user, NEW at, at = C!UserConfigAccess(user)
  PROVE  /\ PointsAt(at.first_idx, at.access, user)
         /\ PointsAt(at.second_idx, at.access, Config)
         /\ AccessFine(at.access)
<1>1. /\ C!Write(user).id = user /\ C!Write(user).access_type = "Write"
      /\ C!Read(Config).id = Config /\ C!Read(Config).access_type = "Read"
  BY DEF C!Write, C!Read, C!Entry
<1>2. /\ PointsAt(at.first_idx, at.access, C!Write(user).id)
      /\ PointsAt(at.second_idx, at.access, C!Read(Config).id)
      /\ \A i \in DOMAIN at.access : at.access[i] \in {C!Write(user), C!Read(Config)}
  BY PairPoints DEF C!UserConfigAccess
<1> QED BY <1>1, <1>2 DEF AccessFine

LEMMA GameConfigPoints ==
  ASSUME NEW game, NEW at, at = C!GameConfigAccess(game)
  PROVE  /\ PointsAt(at.first_idx, at.access, game)
         /\ PointsAt(at.second_idx, at.access, Config)
         /\ AccessFine(at.access)
BY UserConfigPoints DEF C!UserConfigAccess, C!GameConfigAccess

LEMMA TwoWritePoints ==
  ASSUME NEW first, NEW second, NEW at, at = C!PairAccess(C!Write(first), C!Write(second))
  PROVE  /\ PointsAt(at.first_idx, at.access, first)
         /\ PointsAt(at.second_idx, at.access, second)
         /\ AccessFine(at.access)
<1>1. /\ C!Write(first).id = first /\ C!Write(first).access_type = "Write"
      /\ C!Write(second).id = second /\ C!Write(second).access_type = "Write"
  BY DEF C!Write, C!Entry
<1>2. /\ PointsAt(at.first_idx, at.access, C!Write(first).id)
      /\ PointsAt(at.second_idx, at.access, C!Write(second).id)
      /\ \A i \in DOMAIN at.access : at.access[i] \in {C!Write(first), C!Write(second)}
  BY PairPoints
<1> QED BY <1>1, <1>2 DEF AccessFine

(* A list of entries a client writes, sorted: each of its ids is found.     *)
EntriesFine(entries, k) ==
  /\ DOMAIN entries = 1..k
  /\ \A i \in 1..k : /\ entries[i].id \in Resources
                     /\ entries[i].access_type \in {"Write", "Read"}

LEMMA SortedFine ==
  ASSUME RankTells, NEW k \in Nat, NEW entries, EntriesFine(entries, k),
         NEW access, access = C!SortedAccess(entries)
  PROVE  /\ \A i \in 1..k :
              PointsAt(C!Position(access, entries[i].id), access, entries[i].id)
         /\ AccessFine(access)
<1>1. DOMAIN entries = 1..k /\ IdsOf(entries, k) \subseteq Resources
  BY DEF EntriesFine, IdsOf
<1>2. /\ \A id \in IdsOf(entries, k) : PointsAt(C!Position(access, id), access, id)
      /\ \A i \in DOMAIN access : \E j \in 1..k : access[i] = entries[j]
  BY <1>1, SortedPoints
<1>3. \A i \in 1..k : entries[i].id \in IdsOf(entries, k)
  BY DEF IdsOf
<1>4. AccessFine(access)
  BY <1>2 DEF AccessFine, EntriesFine
<1> QED BY <1>2, <1>3, <1>4

LEMMA GameTwoUserPoints ==
  ASSUME RankTells, NEW game \in Games, NEW first \in Users, NEW second \in Users,
         NEW at, at = C!GameTwoUserAccess(game, first, second)
  PROVE  /\ PointsAt(at.game_idx, at.access, game)
         /\ PointsAt(at.first_user_idx, at.access, first)
         /\ PointsAt(at.second_user_idx, at.access, second)
         /\ AccessFine(at.access)
<1> DEFINE entries == <<C!Write(game), C!Write(first), C!Write(second)>>
           access == C!SortedAccess(entries)
<1>1. /\ entries[1].id = game /\ entries[2].id = first /\ entries[3].id = second
      /\ \A i \in 1..3 : entries[i].access_type = "Write"
      /\ DOMAIN entries = 1..3
  <2>1. \A id : C!Write(id).id = id /\ C!Write(id).access_type = "Write"
    BY DEF C!Write, C!Entry
  <2>2. \A i \in 1..3 : i = 1 \/ i = 2 \/ i = 3
    OBVIOUS
  <2> QED BY <2>1, <2>2
<1>2. /\ at.access = access
      /\ at.game_idx = C!Position(access, game)
      /\ at.first_user_idx = C!Position(access, first)
      /\ at.second_user_idx = C!Position(access, second)
  BY DEF C!GameTwoUserAccess
<1> HIDE DEF entries
<1>3. EntriesFine(entries, 3)
  <2>1. \A i \in 1..3 : i = 1 \/ i = 2 \/ i = 3
    OBVIOUS
  <2>2. game \in Resources /\ first \in Resources /\ second \in Resources
    BY DEF Resources
  <2> QED BY <1>1, <2>1, <2>2 DEF EntriesFine
<1>4. /\ \A i \in 1..3 : PointsAt(C!Position(access, entries[i].id), access, entries[i].id)
      /\ AccessFine(access)
  BY <1>3, SortedFine
<1> HIDE DEF access
<1>5. 1 \in 1..3 /\ 2 \in 1..3 /\ 3 \in 1..3
  OBVIOUS
<1> QED BY <1>1, <1>2, <1>4, <1>5

LEMMA InitSays ==
  ASSUME NEW min \in Amount, NEW ttl
  PROVE  Says(C!BuildInit(Covenant, min, ttl), <<InitMeant("Init", min, ttl)>>)
<1> DEFINE access == <<C!Write(Config)>>
           body == C!EncodeInit(0, min, ttl, Covenant, Genesis)
           signers == <<C!Pointer(0, C!SignerTag.GenesisSchnorrSigPtr)>>
<1>1. C!BuildInit(Covenant, min, ttl) = C!Payload(access, <<body>>, signers)
  BY DEF C!BuildInit
<1>2. PointsAt(0, access, Config) /\ AccessFine(access)
  BY OnlyPoints
<1> HIDE DEF access
<1>3. SignersPoint(signers, access)
  <2>1. C!SignerTag.GenesisSchnorrSigPtr \in SignerKinds
    BY DEF SignerKinds, C!SignerTag
  <2> QED BY <1>2, <2>1 DEF SignersPoint
<1>4. ReadsAs(body, access, InitMeant("Init", min, ttl))
  BY <1>2, InitReads
<1>5. ArgumentsFine(InitMeant("Init", min, ttl))
  BY LedgerAssumption DEF ArgumentsFine, InitMeant, Locks
<1> HIDE DEF body, signers
<1> QED BY <1>1, <1>2, <1>3, <1>4, <1>5, SaysOne

LEMMA DepositSays ==
  ASSUME NEW user
  PROVE  Says(C!BuildDeposit(user), <<DepositMeant(user)>>)
<1> DEFINE at == C!UserConfigAccess(user)
           body == C!EncodeDeposit(at.first_idx, at.second_idx, 0, user)
<1>1. C!BuildDeposit(user) = C!Payload(at.access, <<body>>, <<>>)
  BY DEF C!BuildDeposit
<1>2. /\ PointsAt(at.first_idx, at.access, user) /\ PointsAt(at.second_idx, at.access, Config)
      /\ AccessFine(at.access)
  BY UserConfigPoints
<1> HIDE DEF at
<1>3. ReadsAs(body, at.access, DepositMeant(user))
  BY <1>2, DepositReads
<1>4. ArgumentsFine(DepositMeant(user))
  BY DEF ArgumentsFine, DepositMeant
<1> HIDE DEF body
<1> QED BY <1>1, <1>2, <1>3, <1>4, NoPointer, SaysOne

(* One action on a game, signed by the user it names. *)
LEMMA GameUserSays ==
  ASSUME NEW game, NEW user \in Users, NEW at, at = C!GameUserAccess(game, user)
  PROVE  /\ PointsAt(at.first_idx, at.access, game) /\ PointsAt(at.second_idx, at.access, user)
         /\ AccessFine(at.access)
         /\ SignersPoint(C!OwnSignature(at.second_idx), at.access)
<1>1. /\ PointsAt(at.first_idx, at.access, game) /\ PointsAt(at.second_idx, at.access, user)
      /\ AccessFine(at.access)
  BY TwoWritePoints DEF C!GameUserAccess
<1> QED BY <1>1, OwnPointer

LEMMA CreateSays ==
  ASSUME NEW game \in Games, NEW stake \in Nat, NEW rounds
  PROVE  Says(C!BuildCreateGame(game[1], game, stake, rounds, "X"),
              <<CreateMeant(game, stake, rounds)>>)
<1> DEFINE at == C!GameUserAccess(game, game[1])
           body == C!EncodeCreateGame(at.second_idx, at.first_idx, stake, rounds, "X")
<1>1. C!BuildCreateGame(game[1], game, stake, rounds, "X")
        = C!Payload(at.access, <<body>>, C!OwnSignature(at.second_idx))
  BY DEF C!BuildCreateGame
<1>2. /\ PointsAt(at.first_idx, at.access, game) /\ PointsAt(at.second_idx, at.access, game[1])
      /\ AccessFine(at.access)
      /\ SignersPoint(C!OwnSignature(at.second_idx), at.access)
  <2>1. game[1] \in Users
    BY DEF Games
  <2> QED BY <2>1, GameUserSays
<1> HIDE DEF at
<1>3. ReadsAs(body, at.access, CreateMeant(game, stake, rounds))
  BY <1>2, CreateReads
<1>4. ArgumentsFine(CreateMeant(game, stake, rounds))
  BY DEF ArgumentsFine, CreateMeant
<1> HIDE DEF body
<1> QED BY <1>1, <1>2, <1>3, <1>4, SaysOne

LEMMA JoinSays ==
  ASSUME NEW game, NEW joiner \in Users
  PROVE  Says(C!BuildJoinGame(joiner, game), <<JoinMeant(game, joiner)>>)
<1> DEFINE at == C!GameUserAccess(game, joiner)
           body == C!EncodeJoinGame(at.first_idx, at.second_idx)
<1>1. C!BuildJoinGame(joiner, game)
        = C!Payload(at.access, <<body>>, C!OwnSignature(at.second_idx))
  BY DEF C!BuildJoinGame
<1>2. /\ PointsAt(at.first_idx, at.access, game) /\ PointsAt(at.second_idx, at.access, joiner)
      /\ AccessFine(at.access)
      /\ SignersPoint(C!OwnSignature(at.second_idx), at.access)
  BY GameUserSays
<1> HIDE DEF at
<1>3. ReadsAs(body, at.access, JoinMeant(game, joiner))
  BY <1>2, JoinReads
<1>4. ArgumentsFine(JoinMeant(game, joiner))
  BY DEF ArgumentsFine, JoinMeant
<1> HIDE DEF body
<1> QED BY <1>1, <1>2, <1>3, <1>4, SaysOne

LEMMA TwoUserSays ==
  ASSUME NEW source \in Users, NEW dest, NEW at, at = C!TwoUserAccess(source, dest)
  PROVE  /\ PointsAt(at.first_idx, at.access, source) /\ PointsAt(at.second_idx, at.access, dest)
         /\ AccessFine(at.access)
         /\ SignersPoint(C!OwnSignature(at.first_idx), at.access)
<1>1. /\ PointsAt(at.first_idx, at.access, source) /\ PointsAt(at.second_idx, at.access, dest)
      /\ AccessFine(at.access)
  BY TwoWritePoints DEF C!TwoUserAccess
<1> QED BY <1>1, OwnPointer

LEMMA TransferSays ==
  ASSUME NEW source \in Users, NEW dest, NEW amount \in Nat
  PROVE  Says(C!BuildTransfer(source, dest, amount),
              <<TransferMeant(source, dest, amount, C!NoLock)>>)
<1> DEFINE at == C!TwoUserAccess(source, dest)
           body == C!EncodeTransfer(at.first_idx, at.second_idx, amount)
<1>1. C!BuildTransfer(source, dest, amount)
        = C!Payload(at.access, <<body>>, C!OwnSignature(at.first_idx))
  BY DEF C!BuildTransfer
<1>2. /\ PointsAt(at.first_idx, at.access, source) /\ PointsAt(at.second_idx, at.access, dest)
      /\ AccessFine(at.access)
      /\ SignersPoint(C!OwnSignature(at.first_idx), at.access)
  BY TwoUserSays
<1> HIDE DEF at
<1>3. ReadsAs(body, at.access, TransferMeant(source, dest, amount, C!NoLock))
  BY <1>2, TransferReads
<1>4. ArgumentsFine(TransferMeant(source, dest, amount, C!NoLock))
  BY DEF ArgumentsFine, TransferMeant
<1> HIDE DEF body
<1> QED BY <1>1, <1>2, <1>3, <1>4, SaysOne

TurnsMeant(game, user, cells) == [i \in DOMAIN cells |-> TurnMeant(game, user, cells[i])]

LEMMA TurnArguments ==
  ASSUME NEW game, NEW user, NEW cell
  PROVE  ArgumentsFine(TurnMeant(game, user, cell))
BY DEF ArgumentsFine, TurnMeant

LEMMA TurnASays ==
  ASSUME RankTells, NEW game \in Games, NEW user \in Users, NEW other \in Users
  PROVE  Says(C!BuildTurnA(game, user, other), TurnsMeant(game, user, <<0, 1, 2>>))
<1> DEFINE at == C!GameTwoUserAccess(game, user, other)
           body(cell) == C!EncodeTurn(at.game_idx, at.first_user_idx, cell)
           signers == C!OwnSignature(at.first_user_idx)
           meant == TurnsMeant(game, user, <<0, 1, 2>>)
<1>1. C!BuildTurnA(game, user, other)
        = C!Payload(at.access, <<body(0), body(1), body(2)>>, signers)
  BY DEF C!BuildTurnA
<1>2. /\ PointsAt(at.game_idx, at.access, game) /\ PointsAt(at.first_user_idx, at.access, user)
      /\ AccessFine(at.access)
  BY GameTwoUserPoints
<1> HIDE DEF at
<1>3. SignersPoint(signers, at.access)
  BY <1>2, OwnPointer
<1>4. ASSUME NEW cell \in 0..8
      PROVE  ReadsAs(body(cell), at.access, TurnMeant(game, user, cell))
  BY <1>2, <1>4, TurnReads
<1>5. /\ meant = [i \in 1..3 |-> meant[i]] /\ DOMAIN meant = 1..3
      /\ meant[1] = TurnMeant(game, user, 0)
      /\ meant[2] = TurnMeant(game, user, 1)
      /\ meant[3] = TurnMeant(game, user, 2)
  BY DEF TurnsMeant
<1> HIDE DEF meant, body, signers
<1>6. Conveys(C!Payload(at.access, <<body(0), body(1), body(2)>>, signers), meant)
  <2>1. /\ ReadsAs(body(0), at.access, meant[1]) /\ ReadsAs(body(1), at.access, meant[2])
        /\ ReadsAs(body(2), at.access, meant[3])
    <3>1. 0 \in 0..8 /\ 1 \in 0..8 /\ 2 \in 0..8
      OBVIOUS
    <3> QED BY <1>4, <1>5, <3>1
  <2> QED BY <1>3, <1>5, <2>1, ConveysThree
<1>7. MeantFine(meant)
  <2>1. \A i \in DOMAIN meant : i = 1 \/ i = 2 \/ i = 3
    BY <1>5
  <2> QED BY <1>5, <2>1, TurnArguments DEF MeantFine
<1>8. C!Payload(at.access, <<body(0), body(1), body(2)>>, signers).access = at.access
  BY DEF C!Payload
<1> QED BY <1>1, <1>2, <1>6, <1>7, <1>8 DEF Says, meant

LEMMA TurnBSays ==
  ASSUME RankTells, NEW game \in Games, NEW user \in Users, NEW other \in Users
  PROVE  Says(C!BuildTurnB(game, other, user), TurnsMeant(game, user, <<3, 4>>))
<1> DEFINE at == C!GameTwoUserAccess(game, other, user)
           body(cell) == C!EncodeTurn(at.game_idx, at.second_user_idx, cell)
           signers == C!OwnSignature(at.second_user_idx)
           meant == TurnsMeant(game, user, <<3, 4>>)
<1>1. C!BuildTurnB(game, other, user) = C!Payload(at.access, <<body(3), body(4)>>, signers)
  BY DEF C!BuildTurnB
<1>2. /\ PointsAt(at.game_idx, at.access, game) /\ PointsAt(at.second_user_idx, at.access, user)
      /\ AccessFine(at.access)
  BY GameTwoUserPoints
<1> HIDE DEF at
<1>3. SignersPoint(signers, at.access)
  BY <1>2, OwnPointer
<1>4. ASSUME NEW cell \in 0..8
      PROVE  ReadsAs(body(cell), at.access, TurnMeant(game, user, cell))
  BY <1>2, <1>4, TurnReads
<1>5. /\ meant = [i \in 1..2 |-> meant[i]] /\ DOMAIN meant = 1..2
      /\ meant[1] = TurnMeant(game, user, 3)
      /\ meant[2] = TurnMeant(game, user, 4)
  BY DEF TurnsMeant
<1> HIDE DEF meant, body, signers
<1>6. Conveys(C!Payload(at.access, <<body(3), body(4)>>, signers), meant)
  <2>1. ReadsAs(body(3), at.access, meant[1]) /\ ReadsAs(body(4), at.access, meant[2])
    <3>1. 3 \in 0..8 /\ 4 \in 0..8
      OBVIOUS
    <3> QED BY <1>4, <1>5, <3>1
  <2> QED BY <1>3, <1>5, <2>1, ConveysTwo
<1>7. MeantFine(meant)
  <2>1. \A i \in DOMAIN meant : i = 1 \/ i = 2
    BY <1>5
  <2> QED BY <1>5, <2>1, TurnArguments DEF MeantFine
<1>8. C!Payload(at.access, <<body(3), body(4)>>, signers).access = at.access
  BY DEF C!Payload
<1> QED BY <1>1, <1>2, <1>6, <1>7, <1>8 DEF Says, meant

WithdrawsMeant(user, pot, remainder, min) ==
  <<WithdrawMeant(user, pot)>>
    \o IF remainder >= min THEN <<WithdrawMeant(user, remainder)>> ELSE <<>>

LEMMA WithdrawArguments ==
  ASSUME NEW user, NEW amount \in Nat
  PROVE  ArgumentsFine(WithdrawMeant(user, amount))
BY DEF ArgumentsFine, WithdrawMeant

LEMMA WithdrawSays ==
  ASSUME NEW user \in Users, NEW pot \in Nat, NEW remainder \in Nat, NEW min \in Nat
  PROVE  Says(C!BuildWithdraw(user, pot, remainder, min), WithdrawsMeant(user, pot, remainder, min))
<1> DEFINE at == C!UserConfigAccess(user)
           body(amount) == C!EncodeWithdraw(at.first_idx, at.second_idx, amount, user)
           signers == C!OwnSignature(at.first_idx)
           first == WithdrawMeant(user, pot)
           second == WithdrawMeant(user, remainder)
<1>1. C!BuildWithdraw(user, pot, remainder, min)
        = C!Payload(at.access, IF remainder >= min THEN <<body(pot), body(remainder)>>
                                                   ELSE <<body(pot)>>, signers)
  BY DEF C!BuildWithdraw
<1>2. /\ PointsAt(at.first_idx, at.access, user) /\ PointsAt(at.second_idx, at.access, Config)
      /\ AccessFine(at.access)
  BY UserConfigPoints
<1> HIDE DEF at
<1>3. SignersPoint(signers, at.access)
  BY <1>2, OwnPointer
<1>4. ASSUME NEW amount \in Nat
      PROVE  ReadsAs(body(amount), at.access, WithdrawMeant(user, amount))
  BY <1>2, WithdrawReads
<1>5. ArgumentsFine(first) /\ ArgumentsFine(second)
  BY WithdrawArguments
<1>6. ReadsAs(body(pot), at.access, first) /\ ReadsAs(body(remainder), at.access, second)
  BY <1>4
<1> HIDE DEF body, signers, first, second
<1>7. CASE remainder >= min
  <2> DEFINE one == <<first>>
             two == <<second>>
             meant == one \o two
  <2>1. WithdrawsMeant(user, pot, remainder, min) = meant
    BY <1>7 DEF WithdrawsMeant, first, second
  <2>2. /\ meant = [i \in 1..2 |-> meant[i]] /\ DOMAIN meant = 1..2
        /\ meant[1] = first /\ meant[2] = second
    <3>1. IsRow(one) /\ IsRow(two)
      BY FieldFirst, EmptyRow
    <3>2. Len(one) = 1 /\ Len(two) = 1 /\ one[1] = first /\ two[1] = second
      OBVIOUS
    <3> HIDE DEF one, two
    <3>3. /\ IsRow(one \o two) /\ Len(one \o two) = Len(one) + Len(two)
          /\ \A i \in 1..Len(one) : (one \o two)[i] = one[i]
          /\ \A i \in 1..Len(two) : (one \o two)[Len(one) + i] = two[i]
      BY <3>1, RowJoins
    <3>4. Len(meant) = 2 /\ meant[1] = first /\ meant[1 + 1] = second /\ IsRow(meant)
      BY <3>2, <3>3
    <3> HIDE DEF meant
    <3>5. meant = [i \in 1..2 |-> meant[i]]
      BY <3>4 DEF IsRow
    <3> QED BY <3>4, <3>5
  <2> HIDE DEF meant
  <2>3. Conveys(C!Payload(at.access, <<body(pot), body(remainder)>>, signers), meant)
    BY <1>3, <1>6, <2>2, ConveysTwo
  <2>4. MeantFine(meant)
    <3>1. \A i \in DOMAIN meant : i = 1 \/ i = 2
      BY <2>2
    <3> QED BY <1>5, <2>2, <3>1 DEF MeantFine
  <2>5. C!Payload(at.access, <<body(pot), body(remainder)>>, signers).access = at.access
    BY DEF C!Payload
  <2> QED BY <1>1, <1>2, <1>7, <2>1, <2>3, <2>4, <2>5 DEF Says
<1>8. CASE ~(remainder >= min)
  <2>1. WithdrawsMeant(user, pot, remainder, min) = <<first>>
    <3>1. WithdrawsMeant(user, pot, remainder, min) = <<first>> \o <<>>
      BY <1>8 DEF WithdrawsMeant, first
    <3>2. <<first>> \o <<>> = <<first>>
      OBVIOUS
    <3> QED BY <3>1, <3>2
  <2>2. C!BuildWithdraw(user, pot, remainder, min) = C!Payload(at.access, <<body(pot)>>, signers)
    BY <1>1, <1>8
  <2>3. Says(C!Payload(at.access, <<body(pot)>>, signers), <<first>>)
    BY <1>2, <1>3, <1>5, <1>6, SaysOne
  <2> QED BY <2>1, <2>2, <2>3
<1> QED BY <1>7, <1>8

---------------------------------------------------------------------------
(* What the transactions of the browser say *)

Carries(carrier, meant) ==
  \E payload, key, deposit :
    /\ key \in Keys /\ deposit \in Amount
    /\ carrier = C!Carrier(payload, key, deposit)
    /\ Says(payload, meant)

LEMMA SaidIsCarried ==
  ASSUME NEW payload, NEW key \in Keys, NEW deposit \in Amount, NEW meant, Says(payload, meant)
  PROVE  Carries(C!Carrier(payload, key, deposit), meant)
BY DEF Carries

LEMMA NothingDeposited == 0 \in Amount
BY LedgerAssumption DEF Amount

LEMMA PairIsRow ==
  ASSUME NEW first, NEW second, NEW at, at = C!PairAccess(first, second)
  PROVE  IsRow(at.access) /\ Len(at.access) = 2 /\ DOMAIN at.access = 1..2
<1>1. at.access = <<first, second>> \/ at.access = <<second, first>>
  BY DEF C!PairAccess
<1>2. at.access \in Seq({first, second}) /\ Len(at.access) = 2 /\ DOMAIN at.access = 1..2
  <2>1. ASSUME NEW x, NEW y
        PROVE  <<x, y>> \in Seq({x, y}) /\ Len(<<x, y>>) = 2 /\ DOMAIN <<x, y>> = 1..2
    OBVIOUS
  <2>2. {first, second} = {second, first}
    OBVIOUS
  <2> QED BY <1>1, <2>1, <2>2
<1> QED BY <1>2, RowOf

(* The merged access list of a funded entry. *)
EntryAccess(me, game) ==
  C!SortedAccess(C!UserConfigAccess(me).access \o C!GameUserAccess(game, me).access)

LEMMA EntryPoints ==
  ASSUME RankTells, NEW me \in Users, NEW game \in Games, NEW access,
         access = EntryAccess(me, game)
  PROVE  /\ PointsAt(C!Position(access, me), access, me)
         /\ PointsAt(C!Position(access, Config), access, Config)
         /\ PointsAt(C!Position(access, game), access, game)
         /\ AccessFine(access)
<1> DEFINE at == C!UserConfigAccess(me)
           to == C!GameUserAccess(game, me)
           a == at.access
           b == to.access
           entries == a \o b
<1>1. /\ PointsAt(at.first_idx, a, me) /\ PointsAt(at.second_idx, a, Config)
      /\ \A i \in DOMAIN a : a[i] \in {C!Write(me), C!Read(Config)}
      /\ IsRow(a) /\ Len(a) = 2 /\ DOMAIN a = 1..2
  <2>1. at = C!PairAccess(C!Write(me), C!Read(Config))
    BY DEF C!UserConfigAccess
  <2>2. PointsAt(at.first_idx, a, me) /\ PointsAt(at.second_idx, a, Config)
    BY UserConfigPoints
  <2> HIDE DEF at
  <2> QED BY <2>1, <2>2, PairIsRow, PairPoints
<1>2. /\ PointsAt(to.first_idx, b, game)
      /\ \A i \in DOMAIN b : b[i] \in {C!Write(game), C!Write(me)}
      /\ IsRow(b) /\ Len(b) = 2 /\ DOMAIN b = 1..2
  <2>1. to = C!PairAccess(C!Write(game), C!Write(me))
    BY DEF C!GameUserAccess
  <2> HIDE DEF to
  <2>2. PointsAt(to.first_idx, b, game)
    BY <2>1, TwoWritePoints
  <2> QED BY <2>1, <2>2, PairIsRow, PairPoints
<1>3. access = C!SortedAccess(entries)
  BY DEF EntryAccess
<1> HIDE DEF at, to, a, b
<1>4. /\ IsRow(entries) /\ Len(entries) = 4
      /\ \A i \in 1..2 : entries[i] = a[i] /\ entries[2 + i] = b[i]
  <2>1. /\ IsRow(a \o b) /\ Len(a \o b) = Len(a) + Len(b)
        /\ \A i \in 1..Len(a) : (a \o b)[i] = a[i]
        /\ \A i \in 1..Len(b) : (a \o b)[Len(a) + i] = b[i]
    <3>1. IsRow(a)
      BY <1>1
    <3>2. IsRow(b)
      BY <1>2
    <3> QED BY <3>1, <3>2, RowJoins
  <2> HIDE DEF entries
  <2> QED BY <1>1, <1>2, <2>1 DEF entries
<1> HIDE DEF entries
<1>5. DOMAIN entries = 1..4
  BY <1>4 DEF IsRow
<1>6. EntriesFine(entries, 4)
  <2>1. /\ C!Write(me).id \in Resources /\ C!Write(me).access_type = "Write"
        /\ C!Write(game).id \in Resources /\ C!Write(game).access_type = "Write"
        /\ C!Read(Config).id \in Resources /\ C!Read(Config).access_type = "Read"
    BY DEF C!Write, C!Read, C!Entry, Resources
  <2>2. \A i \in 1..2 : /\ a[i] \in {C!Write(me), C!Read(Config)}
                       /\ b[i] \in {C!Write(game), C!Write(me)}
    BY <1>1, <1>2
  <2>3. ASSUME NEW i \in 1..4
        PROVE  entries[i] \in {C!Write(me), C!Read(Config), C!Write(game)}
    <3>1. CASE i \in 1..2
      BY <1>4, <2>2, <3>1
    <3>2. CASE i \notin 1..2
      <4>1. i - 2 \in 1..2 /\ 2 + (i - 2) = i
        BY <3>2
      <4>2. entries[2 + (i - 2)] = b[i - 2]
        BY <1>4, <4>1
      <4> QED BY <2>2, <4>1, <4>2
    <3> QED BY <3>1, <3>2
  <2> QED BY <1>5, <2>1, <2>3 DEF EntriesFine
<1>7. /\ \A i \in 1..4 : PointsAt(C!Position(access, entries[i].id), access, entries[i].id)
      /\ AccessFine(access)
  BY <1>3, <1>6, SortedFine
<1>8. \E i \in 1..4 : entries[i].id = me
  <2>1. at.first_idx + 1 \in 1..2 /\ a[at.first_idx + 1].id = me
    BY <1>1 DEF PointsAt
  <2>2. at.first_idx + 1 \in 1..4
    BY <2>1
  <2> QED BY <1>4, <2>1, <2>2
<1>9. \E i \in 1..4 : entries[i].id = Config
  <2>1. at.second_idx + 1 \in 1..2 /\ a[at.second_idx + 1].id = Config
    BY <1>1 DEF PointsAt
  <2>2. at.second_idx + 1 \in 1..4
    BY <2>1
  <2> QED BY <1>4, <2>1, <2>2
<1>10. \E i \in 1..4 : entries[i].id = game
  <2>1. to.first_idx + 1 \in 1..2 /\ b[to.first_idx + 1].id = game
    BY <1>2 DEF PointsAt
  <2>2. 2 + (to.first_idx + 1) \in 1..4
    BY <2>1
  <2>3. entries[2 + (to.first_idx + 1)].id = game
    BY <1>4, <2>1
  <2> QED BY <2>2, <2>3
<1> QED BY <1>7, <1>8, <1>9, <1>10

(* The deposit comes first, then the action it pays for. *)
LEMMA FundedSays ==
  ASSUME RankTells, NEW me \in Users, NEW game \in Games, NEW access,
         access = EntryAccess(me, game), NEW body, NEW entry,
         ReadsAs(body, access, entry), ArgumentsFine(entry)
  PROVE  Says(C!Payload(access,
                        <<C!EncodeDeposit(C!Position(access, me), C!Position(access, Config), 0,
                                          me),
                          body>>,
                        C!OwnSignature(C!Position(access, me))),
              <<DepositMeant(me), entry>>)
<1> DEFINE deposit == C!EncodeDeposit(C!Position(access, me), C!Position(access, Config), 0, me)
           signers == C!OwnSignature(C!Position(access, me))
           first == DepositMeant(me)
           meant == <<first, entry>>
<1>1. /\ PointsAt(C!Position(access, me), access, me)
      /\ PointsAt(C!Position(access, Config), access, Config)
      /\ AccessFine(access)
  BY EntryPoints
<1>2. ReadsAs(deposit, access, first)
  BY <1>1, DepositReads
<1>3. SignersPoint(signers, access)
  BY <1>1, OwnPointer
<1>4. ArgumentsFine(first)
  BY DEF ArgumentsFine, DepositMeant
<1> HIDE DEF deposit, signers, first
<1>5. /\ meant = [i \in 1..2 |-> meant[i]] /\ DOMAIN meant = 1..2
      /\ meant[1] = first /\ meant[2] = entry
  OBVIOUS
<1> HIDE DEF meant
<1>6. Conveys(C!Payload(access, <<deposit, body>>, signers), meant)
  BY <1>2, <1>3, <1>5, ConveysTwo
<1>7. MeantFine(meant)
  <2>1. \A i \in DOMAIN meant : i = 1 \/ i = 2
    BY <1>5
  <2> QED BY <1>4, <1>5, <2>1 DEF MeantFine
<1>8. C!Payload(access, <<deposit, body>>, signers).access = access
  BY DEF C!Payload
<1>9. Says(C!Payload(access, <<deposit, body>>, signers), meant)
  BY <1>1, <1>6, <1>7, <1>8 DEF Says
<1> QED BY <1>9 DEF deposit, signers, first, meant

EntryMeant(me, entry, deposit) == IF deposit > 0 THEN <<DepositMeant(me), entry>> ELSE <<entry>>

LEMMA CreateArguments ==
  ASSUME NEW game, NEW stake \in Nat, NEW rounds
  PROVE  ArgumentsFine(CreateMeant(game, stake, rounds))
BY DEF ArgumentsFine, CreateMeant

LEMMA CreateCarries ==
  ASSUME RankTells, NEW me \in Users \cap Keys, NEW number, <<me, number>> \in Games,
         NEW stake \in Nat, NEW deposit \in Amount
  PROVE  Carries(C!CreateGameTx(me, number, stake, 1, "X", deposit),
                 EntryMeant(me, CreateMeant(<<me, number>>, stake, 1), deposit))
<1> DEFINE game == <<me, number>>
           tx1 == C!CreateGameTx(me, number, stake, 1, "X", deposit)
           entry == CreateMeant(game, stake, 1)
<1>1. game \in Games /\ game[1] = me
  OBVIOUS
<1>2. CASE deposit > 0
  <2> DEFINE access == EntryAccess(me, game)
             body == C!EncodeCreateGame(C!Position(access, me), C!Position(access, game),
                                        stake, 1, "X")
             payload == C!Payload(access,
                          <<C!EncodeDeposit(C!Position(access, me), C!Position(access, Config), 0,
                                            me),
                            body>>,
                          C!OwnSignature(C!Position(access, me)))
  <2>1. tx1 = C!Carrier(payload, me, deposit)
    BY <1>2 DEF C!CreateGameTx, C!FundedEntry, EntryAccess
  <2> HIDE DEF access, game
  <2>2. /\ PointsAt(C!Position(access, me), access, me)
        /\ PointsAt(C!Position(access, game), access, game)
    BY <1>1, EntryPoints DEF access
  <2>3. ReadsAs(body, access, entry)
    BY <1>1, <2>2, CreateReads
  <2>4. ArgumentsFine(entry)
    BY CreateArguments
  <2> HIDE DEF body, entry
  <2>5. Says(payload, <<DepositMeant(me), entry>>)
    BY <1>1, <2>3, <2>4, FundedSays DEF access
  <2> HIDE DEF payload
  <2>6. Carries(tx1, <<DepositMeant(me), entry>>)
    BY <2>1, <2>5, SaidIsCarried
  <2> QED BY <1>2, <2>6 DEF EntryMeant, entry, game
<1>3. CASE ~(deposit > 0)
  <2>1. tx1 = C!Carrier(C!BuildCreateGame(game[1], game, stake, 1, "X"), me, 0)
    BY <1>3 DEF C!CreateGameTx, C!BareEntry, C!BuildCreateGame
  <2> HIDE DEF game
  <2>2. Says(C!BuildCreateGame(game[1], game, stake, 1, "X"), <<entry>>)
    BY <1>1, CreateSays
  <2>3. Carries(tx1, <<entry>>)
    BY <2>1, <2>2, SaidIsCarried, NothingDeposited
  <2> QED BY <1>3, <2>3 DEF EntryMeant, game
<1> QED BY <1>2, <1>3

LEMMA JoinCarries ==
  ASSUME RankTells, NEW me \in Users \cap Keys, NEW game \in Games, NEW deposit \in Amount
  PROVE  Carries(C!JoinGameTx(me, game, deposit), EntryMeant(me, JoinMeant(game, me), deposit))
<1> DEFINE tx1 == C!JoinGameTx(me, game, deposit)
           entry == JoinMeant(game, me)
<1>2. CASE deposit > 0
  <2> DEFINE access == EntryAccess(me, game)
             body == C!EncodeJoinGame(C!Position(access, game), C!Position(access, me))
             payload == C!Payload(access,
                          <<C!EncodeDeposit(C!Position(access, me), C!Position(access, Config), 0,
                                            me),
                            body>>,
                          C!OwnSignature(C!Position(access, me)))
  <2>1. tx1 = C!Carrier(payload, me, deposit)
    BY <1>2 DEF C!JoinGameTx, C!FundedEntry, EntryAccess
  <2> HIDE DEF access
  <2>2. /\ PointsAt(C!Position(access, me), access, me)
        /\ PointsAt(C!Position(access, game), access, game)
    BY EntryPoints DEF access
  <2>3. ReadsAs(body, access, entry)
    BY <2>2, JoinReads
  <2>4. ArgumentsFine(entry)
    BY DEF ArgumentsFine, JoinMeant
  <2> HIDE DEF body, entry
  <2>5. Says(payload, <<DepositMeant(me), entry>>)
    BY <2>3, <2>4, FundedSays DEF access
  <2> HIDE DEF payload
  <2>6. Carries(tx1, <<DepositMeant(me), entry>>)
    BY <2>1, <2>5, SaidIsCarried
  <2> QED BY <1>2, <2>6 DEF EntryMeant, entry
<1>3. CASE ~(deposit > 0)
  <2>1. tx1 = C!Carrier(C!BuildJoinGame(me, game), me, 0)
    BY <1>3 DEF C!JoinGameTx, C!BareEntry, C!BuildJoinGame
  <2>2. Says(C!BuildJoinGame(me, game), <<entry>>)
    BY JoinSays
  <2>3. Carries(tx1, <<entry>>)
    BY <2>1, <2>2, SaidIsCarried, NothingDeposited
  <2> QED BY <1>3, <2>3 DEF EntryMeant
<1> QED BY <1>2, <1>3

LEMMA TurnCarries ==
  ASSUME RankTells, NEW me \in Users \cap Keys, NEW opponent \in Users, NEW game \in Games,
         NEW cell \in 0..8
  PROVE  Carries(C!TurnTx(me, opponent, game, cell), <<TurnMeant(game, me, cell)>>)
<1> DEFINE at == C!GameTwoUserAccess(game, me, opponent)
           body == C!EncodeTurn(at.game_idx, at.first_user_idx, cell)
           payload == C!Payload(at.access, <<body>>, C!OwnSignature(at.first_user_idx))
<1>1. C!TurnTx(me, opponent, game, cell) = C!Carrier(payload, me, 0)
  BY DEF C!TurnTx
<1>2. /\ PointsAt(at.game_idx, at.access, game) /\ PointsAt(at.first_user_idx, at.access, me)
      /\ AccessFine(at.access)
  BY GameTwoUserPoints
<1> HIDE DEF at
<1>3. ReadsAs(body, at.access, TurnMeant(game, me, cell))
  BY <1>2, TurnReads
<1>4. SignersPoint(C!OwnSignature(at.first_user_idx), at.access)
  BY <1>2, OwnPointer
<1> HIDE DEF body
<1>5. Says(payload, <<TurnMeant(game, me, cell)>>)
  BY <1>2, <1>3, <1>4, TurnArguments, SaysOne
<1> HIDE DEF payload
<1> QED BY <1>1, <1>5, SaidIsCarried, NothingDeposited

LEMMA TransferCarries ==
  ASSUME NEW me \in Users \cap Keys, NEW dest, NEW exists \in BOOLEAN, NEW amount \in Nat
  PROVE  Carries(C!TransferTx(me, dest, exists, amount),
                 <<TransferMeant(me, dest, amount, IF exists THEN C!NoLock ELSE dest)>>)
<1> DEFINE at == C!TwoUserAccess(me, dest)
           body == IF exists THEN C!EncodeTransfer(at.first_idx, at.second_idx, amount)
                   ELSE C!EncodeTransferCreate(at.first_idx, at.second_idx, amount, dest)
           meant == TransferMeant(me, dest, amount, IF exists THEN C!NoLock ELSE dest)
           payload == C!Payload(at.access, <<body>>, C!OwnSignature(at.first_idx))
<1>1. C!TransferTx(me, dest, exists, amount) = C!Carrier(payload, me, 0)
  BY DEF C!TransferTx
<1>2. /\ PointsAt(at.first_idx, at.access, me) /\ PointsAt(at.second_idx, at.access, dest)
      /\ AccessFine(at.access)
      /\ SignersPoint(C!OwnSignature(at.first_idx), at.access)
  BY TwoUserSays
<1> HIDE DEF at
<1>3. ReadsAs(body, at.access, meant)
  BY <1>2, TransferReads, TransferCreateReads
<1>4. ArgumentsFine(meant)
  BY DEF ArgumentsFine, TransferMeant
<1> HIDE DEF body, meant
<1>5. Says(payload, <<meant>>)
  BY <1>2, <1>3, <1>4, SaysOne
<1> HIDE DEF payload
<1>6. Carries(C!TransferTx(me, dest, exists, amount), <<meant>>)
  BY <1>1, <1>5, SaidIsCarried, NothingDeposited
<1> QED BY <1>6 DEF meant

LEMMA WithdrawCarries ==
  ASSUME NEW me \in Users \cap Keys, NEW amount \in Nat
  PROVE  Carries(C!WithdrawTx(me, amount), <<WithdrawMeant(me, amount)>>)
<1> DEFINE at == C!UserConfigAccess(me)
           body == C!EncodeWithdraw(at.first_idx, at.second_idx, amount, me)
           payload == C!Payload(at.access, <<body>>, C!OwnSignature(at.first_idx))
<1>1. C!WithdrawTx(me, amount) = C!Carrier(payload, me, 0)
  BY DEF C!WithdrawTx
<1>2. /\ PointsAt(at.first_idx, at.access, me) /\ PointsAt(at.second_idx, at.access, Config)
      /\ AccessFine(at.access)
  BY UserConfigPoints
<1> HIDE DEF at
<1>3. SignersPoint(C!OwnSignature(at.first_idx), at.access)
  BY <1>2, OwnPointer
<1>4. ReadsAs(body, at.access, WithdrawMeant(me, amount))
  BY <1>2, WithdrawReads
<1> HIDE DEF body
<1>5. Says(payload, <<WithdrawMeant(me, amount)>>)
  BY <1>2, <1>3, <1>4, WithdrawArguments, SaysOne
<1> HIDE DEF payload
<1> QED BY <1>1, <1>5, SaidIsCarried, NothingDeposited

---------------------------------------------------------------------------
(* What others say *)

LEMMA UpdateSays ==
  ASSUME NEW min \in Amount, NEW ttl
  PROVE  Says(C!Payload(<<C!Write(Config)>>, <<C!EncodeUpdate(0, min, ttl, Covenant, Genesis)>>,
                        C!OwnSignature(0)),
              <<InitMeant("Update", min, ttl)>>)
<1> DEFINE access == <<C!Write(Config)>>
<1>1. PointsAt(0, access, Config) /\ AccessFine(access)
  BY OnlyPoints
<1> HIDE DEF access
<1>2. SignersPoint(C!OwnSignature(0), access)
  BY <1>1, OwnPointer
<1>3. ReadsAs(C!EncodeUpdate(0, min, ttl, Covenant, Genesis), access, InitMeant("Update", min, ttl))
  BY <1>1, UpdateReads
<1>4. ArgumentsFine(InitMeant("Update", min, ttl))
  BY LedgerAssumption DEF ArgumentsFine, InitMeant, Locks
<1>5. Says(C!Payload(access, <<C!EncodeUpdate(0, min, ttl, Covenant, Genesis)>>,
                     C!OwnSignature(0)),
           <<InitMeant("Update", min, ttl)>>)
  BY <1>1, <1>2, <1>3, <1>4, SaysOne
<1> QED BY <1>5 DEF access

LEMMA UserLockSays ==
  ASSUME NEW user \in Users, NEW lock \in Locks
  PROVE  Says(C!Payload(<<C!Write(user)>>, <<C!EncodeUpdateUserLock(0, lock)>>, C!OwnSignature(0)),
              <<UserLockMeant(user, lock)>>)
<1> DEFINE access == <<C!Write(user)>>
<1>1. PointsAt(0, access, user) /\ AccessFine(access)
  BY OnlyPoints
<1> HIDE DEF access
<1>2. SignersPoint(C!OwnSignature(0), access)
  BY <1>1, OwnPointer
<1>3. ReadsAs(C!EncodeUpdateUserLock(0, lock), access, UserLockMeant(user, lock))
  BY <1>1, UserLockReads
<1>4. ArgumentsFine(UserLockMeant(user, lock))
  BY DEF ArgumentsFine, UserLockMeant
<1>5. Says(C!Payload(access, <<C!EncodeUpdateUserLock(0, lock)>>, C!OwnSignature(0)),
           <<UserLockMeant(user, lock)>>)
  BY <1>1, <1>2, <1>3, <1>4, SaysOne
<1> QED BY <1>5 DEF access

LEMMA TimeoutArguments ==
  ASSUME NEW game
  PROVE  ArgumentsFine(TimeoutMeant(game))
BY DEF ArgumentsFine, TimeoutMeant

LEMMA SweepSays ==
  ASSUME NEW game, NEW at, at = C!GameConfigAccess(game)
  PROVE  Says(C!Payload(at.access, <<C!EncodeTimeout(at.first_idx, at.second_idx)>>, <<>>),
              <<TimeoutMeant(game)>>)
<1>1. /\ PointsAt(at.first_idx, at.access, game) /\ PointsAt(at.second_idx, at.access, Config)
      /\ AccessFine(at.access)
  BY GameConfigPoints
<1>2. ReadsAs(C!EncodeTimeout(at.first_idx, at.second_idx), at.access, TimeoutMeant(game))
  BY <1>1, TimeoutReads
<1> QED BY <1>1, <1>2, NoPointer, TimeoutArguments, SaysOne

LEMMA SweepWithPlayersSays ==
  ASSUME RankTells, NEW game \in Games, NEW joiner \in Users, NEW access,
         access = C!SortedAccess(<<C!Write(game), C!Read(Config), C!Write(game[1]),
                                   C!Write(joiner)>>)
  PROVE  Says(C!Payload(access, <<C!EncodeTimeout(C!Position(access, game),
                                                  C!Position(access, Config))>>, <<>>),
              <<TimeoutMeant(game)>>)
<1> DEFINE entries == <<C!Write(game), C!Read(Config), C!Write(game[1]), C!Write(joiner)>>
<1>1. /\ entries[1].id = game /\ entries[2].id = Config /\ entries[3].id = game[1]
      /\ entries[4].id = joiner
      /\ DOMAIN entries = 1..4
  <2>1. \A id : C!Write(id).id = id /\ C!Read(id).id = id
    BY DEF C!Write, C!Read, C!Entry
  <2> QED BY <2>1
<1>2. /\ entries[1].access_type = "Write" /\ entries[2].access_type = "Read"
      /\ entries[3].access_type = "Write" /\ entries[4].access_type = "Write"
  <2>1. \A id : C!Write(id).access_type = "Write" /\ C!Read(id).access_type = "Read"
    BY DEF C!Write, C!Read, C!Entry
  <2> QED BY <2>1
<1>3. access = C!SortedAccess(entries)
  OBVIOUS
<1> HIDE DEF entries
<1>4. EntriesFine(entries, 4)
  <2>1. \A i \in 1..4 : i = 1 \/ i = 2 \/ i = 3 \/ i = 4
    OBVIOUS
  <2>2. game \in Resources /\ Config \in Resources /\ game[1] \in Resources /\ joiner \in Resources
    BY DEF Resources, Games
  <2> QED BY <1>1, <1>2, <2>1, <2>2 DEF EntriesFine
<1>5. /\ PointsAt(C!Position(access, game), access, game)
      /\ PointsAt(C!Position(access, Config), access, Config)
      /\ AccessFine(access)
  <2>1. /\ \A i \in 1..4 : PointsAt(C!Position(access, entries[i].id), access, entries[i].id)
        /\ AccessFine(access)
    BY <1>3, <1>4, SortedFine
  <2>2. 1 \in 1..4 /\ 2 \in 1..4
    OBVIOUS
  <2> QED BY <1>1, <2>1, <2>2
<1> DEFINE body == C!EncodeTimeout(C!Position(access, game), C!Position(access, Config))
<1>6. ReadsAs(body, access, TimeoutMeant(game))
  BY <1>5, TimeoutReads
<1> HIDE DEF body
<1>7. Says(C!Payload(access, <<body>>, <<>>), <<TimeoutMeant(game)>>)
  BY <1>5, <1>6, NoPointer, TimeoutArguments, SaysOne
<1> QED BY <1>7 DEF body

---------------------------------------------------------------------------
(* The invariant of the lane *)

(* What the guest finds in the carrier is what its sender meant, and what  *)
(* it does with it stays within the types of the ledger.                   *)
CarrierFine(carrier) ==
  /\ Understood(carrier) /\ SignersFine(carrier) /\ IsRow(Decoded(carrier).actions)
  /\ AccessFine(carrier.access)
  /\ MeantFine(carrier.meant)
  /\ carrier.deposit \in Amount

SentFine == \A carrier \in BagToSet(mempool) : CarrierFine(carrier)

ScenarioFine == \E s \in Scenarios : rank = s.rank /\ cfg = s.cfg

LEMMA ScenarioTells ==
  ASSUME ScenarioFine
  PROVE  /\ RankTells
         /\ cfg.deposit \in Amount /\ cfg.stake \in Nat /\ cfg.transfer \in Nat
<1>1. PICK s \in Scenarios : rank = s.rank /\ cfg = s.cfg
  BY DEF ScenarioFine
<1>2. /\ s.rank \in [Resources -> Nat]
      /\ \A r, other \in Resources : s.rank[r] = s.rank[other] => r = other
      /\ s.cfg.deposit \in 1..U64_MAX /\ s.cfg.stake \in 1..(U64_MAX \div 2)
      /\ s.cfg.transfer \in 0..U64_MAX
  BY LaneAssumption
<1>3. RankTells
  BY <1>1, <1>2 DEF RankTells
<1>4. cfg.deposit \in Amount /\ cfg.stake \in Nat /\ cfg.transfer \in Nat
  BY <1>1, <1>2 DEF Amount
<1> QED BY <1>3, <1>4

LEMMA CarriedIsFine ==
  ASSUME NEW carrier, NEW meant, Carries(carrier, meant), NEW sent1, sent1.meant = meant,
         sent1.access = carrier.access, sent1.ix = carrier.ix, sent1.deposit = carrier.deposit
  PROVE  CarrierFine(sent1)
<1>1. PICK payload, key, deposit :
        /\ key \in Keys /\ deposit \in Amount
        /\ carrier = C!Carrier(payload, key, deposit)
        /\ Says(payload, meant)
  BY DEF Carries
<1>2. /\ sent1.access = payload.access /\ sent1.ix = C!InstructionStream(payload, key)
      /\ sent1.deposit = deposit
  BY <1>1 DEF C!Carrier
<1>3. Conveys(payload, sent1.meant) /\ AccessFine(payload.access) /\ MeantFine(meant)
  BY <1>1 DEF Says
<1>4. Understood(sent1) /\ SignersFine(sent1) /\ IsRow(Decoded(sent1).actions)
  BY <1>1, <1>2, <1>3, ConveyedIsUnderstood
<1> QED BY <1>1, <1>2, <1>3, <1>4 DEF CarrierFine

(* Whatever a client sends is fine if it carries what the client means. *)
LEMMA SendKeeps ==
  ASSUME SentFine, NEW carrier, NEW client, NEW meant, NEW about,
         Carries(carrier, meant), Send(carrier, client, meant, about)
  PROVE  SentFine'
<1> DEFINE sent1 == [client |-> client, meant |-> meant, about |-> about,
                     access |-> carrier.access, ix |-> carrier.ix, deposit |-> carrier.deposit]
<1>1. mempool' = mempool (+) SetToBag({sent1})
  BY DEF Send
<1>2. /\ sent1.meant = meant /\ sent1.access = carrier.access /\ sent1.ix = carrier.ix
      /\ sent1.deposit = carrier.deposit
  OBVIOUS
<1> HIDE DEF sent1
<1>3. CarrierFine(sent1)
  BY <1>2, CarriedIsFine
<1>4. BagToSet(mempool') = BagToSet(mempool) \cup {sent1}
  BY <1>1 DEF BagToSet, (+), SetToBag
<1> QED BY <1>3, <1>4 DEF SentFine

LEMMA MinusFine ==
  ASSUME NEW a \in Nat, NEW b \in Nat
  PROVE  Minus(a, b) \in Nat /\ Minus(a, b) <= a
BY DEF Minus

LEMMA ClientsFine ==
  /\ PlayerA \in Users \cap Keys /\ PlayerB \in Users \cap Keys /\ Web \in Users \cap Keys
  /\ Genesis \in Keys /\ ScriptGame \in Games /\ ScriptGame[1] = PlayerA
  /\ MIN_WITHDRAWAL \in Amount /\ MIN_WITHDRAWAL \in Nat
<1>1. /\ PlayerA \in Users \cap Keys /\ PlayerB \in Users \cap Keys /\ Web \in Users \cap Keys
      /\ Genesis \in Keys
  BY LaneAssumption, LedgerAssumption
<1>2. ScriptGame \in Games /\ ScriptGame[1] = PlayerA
  <2>1. 0 \in 0..(MaxGames - 1)
    BY LaneAssumption, LedgerAssumption
  <2> QED BY <1>1, <2>1 DEF ScriptGame, Games
<1>3. MIN_WITHDRAWAL \in Amount /\ MIN_WITHDRAWAL \in Nat
  BY LaneAssumption, LedgerAssumption DEF Amount
<1> QED BY <1>1, <1>2, <1>3

LEMMA ScriptKeeps ==
  ASSUME ScenarioFine, SentFine, next_step \in 1..9, Script
  PROVE  SentFine'
<1> DEFINE Sends(carrier, meant) == Send(carrier, "script", meant, [kind |-> "script"])
<1>1. /\ RankTells /\ cfg.deposit \in Amount /\ cfg.stake \in Nat /\ cfg.transfer \in Nat
  BY ScenarioTells
<1>2. ASSUME NEW carrier, NEW meant, Carries(carrier, meant), Sends(carrier, meant)
      PROVE  SentFine'
  BY <1>2, SendKeeps
<1>3. CASE next_step = 1
  <2> DEFINE payload == C!BuildInit(Covenant, MIN_WITHDRAWAL, cfg.turn_ttl)
             meant == <<InitMeant("Init", MIN_WITHDRAWAL, cfg.turn_ttl)>>
  <2>1. Sends(C!Carrier(payload, Genesis, 0), meant)
    BY <1>3 DEF Script
  <2>2. Says(payload, meant)
    BY ClientsFine, InitSays
  <2> HIDE DEF payload, meant
  <2> QED BY <1>2, <2>1, <2>2, ClientsFine, NothingDeposited, SaidIsCarried
<1>4. CASE next_step = 2
  <2> DEFINE payload == C!BuildDeposit(PlayerA)
             meant == <<DepositMeant(PlayerA)>>
  <2>1. Sends(C!Carrier(payload, PlayerA, cfg.deposit), meant)
    BY <1>4 DEF Script
  <2>2. Says(payload, meant)
    BY DepositSays
  <2> HIDE DEF payload, meant
  <2> QED BY <1>1, <1>2, <2>1, <2>2, ClientsFine, SaidIsCarried
<1>5. CASE next_step = 3
  <2> DEFINE payload == C!BuildDeposit(PlayerB)
             meant == <<DepositMeant(PlayerB)>>
  <2>1. Sends(C!Carrier(payload, PlayerB, cfg.deposit), meant)
    BY <1>5 DEF Script
  <2>2. Says(payload, meant)
    BY DepositSays
  <2> HIDE DEF payload, meant
  <2> QED BY <1>1, <1>2, <2>1, <2>2, ClientsFine, SaidIsCarried
<1>6. CASE next_step = 4
  <2> DEFINE payload == C!BuildCreateGame(PlayerA, ScriptGame, cfg.stake, Rounds, "X")
             meant == <<CreateMeant(ScriptGame, cfg.stake, Rounds)>>
  <2>1. Sends(C!Carrier(payload, PlayerA, 0), meant)
    BY <1>6 DEF Script
  <2>2. Says(payload, meant)
    BY <1>1, ClientsFine, CreateSays
  <2> HIDE DEF payload, meant
  <2> QED BY <1>2, <2>1, <2>2, ClientsFine, NothingDeposited, SaidIsCarried
<1>7. CASE next_step = 5
  <2> DEFINE payload == C!BuildJoinGame(PlayerB, ScriptGame)
             meant == <<JoinMeant(ScriptGame, PlayerB)>>
  <2>1. Sends(C!Carrier(payload, PlayerB, 0), meant)
    BY <1>7 DEF Script
  <2>2. Says(payload, meant)
    BY ClientsFine, JoinSays
  <2> HIDE DEF payload, meant
  <2> QED BY <1>2, <2>1, <2>2, ClientsFine, NothingDeposited, SaidIsCarried
<1>8. CASE next_step = 6
  <2> DEFINE payload == C!BuildTransfer(PlayerA, PlayerB, cfg.transfer)
             meant == <<TransferMeant(PlayerA, PlayerB, cfg.transfer, C!NoLock)>>
  <2>1. Sends(C!Carrier(payload, PlayerA, 0), meant)
    BY <1>8 DEF Script
  <2>2. Says(payload, meant)
    BY <1>1, ClientsFine, TransferSays
  <2> HIDE DEF payload, meant
  <2> QED BY <1>2, <2>1, <2>2, ClientsFine, NothingDeposited, SaidIsCarried
<1>9. CASE next_step = 7
  <2> DEFINE payload == C!BuildTurnA(ScriptGame, PlayerA, PlayerB)
             meant == TurnsMeant(ScriptGame, PlayerA, <<0, 1, 2>>)
  <2>1. Sends(C!Carrier(payload, PlayerA, 0), meant)
    BY <1>9 DEF Script, TurnsMeant
  <2>2. Says(payload, meant)
    BY <1>1, ClientsFine, TurnASays
  <2> HIDE DEF payload, meant
  <2> QED BY <1>2, <2>1, <2>2, ClientsFine, NothingDeposited, SaidIsCarried
<1>10. CASE next_step = 8
  <2> DEFINE payload == C!BuildTurnB(ScriptGame, PlayerA, PlayerB)
             meant == TurnsMeant(ScriptGame, PlayerB, <<3, 4>>)
  <2>1. Sends(C!Carrier(payload, PlayerB, 0), meant)
    BY <1>10 DEF Script, TurnsMeant
  <2>2. Says(payload, meant)
    BY <1>1, ClientsFine, TurnBSays
  <2> HIDE DEF payload, meant
  <2> QED BY <1>2, <2>1, <2>2, ClientsFine, NothingDeposited, SaidIsCarried
<1>11. CASE next_step = 9
  <2> DEFINE payload == C!BuildWithdraw(PlayerA, 2 * cfg.stake, Remainder, MIN_WITHDRAWAL)
             meant == WithdrawsMeant(PlayerA, 2 * cfg.stake, Remainder, MIN_WITHDRAWAL)
  <2>1. Sends(C!Carrier(payload, PlayerA, 0), meant)
    BY <1>11 DEF Script, WithdrawsMeant
  <2>2. Remainder \in Nat /\ 2 * cfg.stake \in Nat
    <3>1. cfg.deposit \in Nat /\ cfg.stake \in Nat /\ cfg.transfer \in Nat
      BY <1>1 DEF Amount
    <3>2. Minus(cfg.deposit, cfg.stake) \in Nat
      BY <3>1, MinusFine
    <3>3. Minus(Minus(cfg.deposit, cfg.stake), cfg.transfer) \in Nat
      BY <3>1, <3>2, MinusFine
    <3>4. 2 * cfg.stake \in Nat
      BY <3>1
    <3> QED BY <3>3, <3>4 DEF Remainder
  <2>3. Says(payload, meant)
    BY <2>2, ClientsFine, WithdrawSays
  <2> HIDE DEF payload, meant
  <2> QED BY <1>2, <2>1, <2>3, ClientsFine, NothingDeposited, SaidIsCarried
<1> QED BY <1>3, <1>4, <1>5, <1>6, <1>7, <1>8, <1>9, <1>10, <1>11

(* A board in play is of the two players the ledger holds.                 *)
BoardOf(b, g, entry) ==
  /\ b.state = entry.state
  /\ entry.state # "New" =>
       /\ {"state", "players"} \subseteq DOMAIN b /\ Seats \subseteq DOMAIN b.players
       /\ b.players[0] = g[1]
  /\ entry.state \notin {"New", "Open"} => b.players[1] = entry.joiner

BoardsAgree(w, t) ==
  /\ "boards" \in DOMAIN t /\ DOMAIN t.boards = Games
  /\ \A g \in Games : BoardOf(t.boards[g], g, w.games[g])

(* The account a browser read is of the ledger's types.                    *)
FormFine ==
  form = NoForm \/ /\ form.kind \in {"create", "join"} /\ form.stake \in Amount
                   /\ form.account \in User

LEMMA EntryDepositFine ==
  ASSUME NEW account \in User, NEW stake \in Amount
  PROVE  EntryDeposit(account, stake) \in Amount
<1> DEFINE shortfall == Minus(stake, account.balance)
           floor == IF account.live THEN 0 ELSE MIN_CREATE_BALANCE
<1>1. stake \in Nat /\ stake <= U64_MAX /\ account.balance \in Nat /\ U64_MAX \in Nat
  BY LedgerAssumption DEF Amount, User
<1>2. shortfall \in Nat /\ shortfall <= stake
  BY <1>1, MinusFine
<1>3. floor \in 0..U64_MAX
  BY LedgerAssumption, LaneAssumption
<1>4. EntryDeposit(account, stake) = IF shortfall > floor THEN shortfall ELSE floor
  BY DEF EntryDeposit
<1> HIDE DEF shortfall, floor
<1> QED BY <1>1, <1>2, <1>3, <1>4 DEF Amount

LEMMA FetchKeeps ==
  ASSUME TypeOK, FetchAccount
  PROVE  FormFine' /\ mempool' = mempool
<1>1. Mine \in User
  <2>1. Web \in Users /\ store \in Store
    BY ClientsFine DEF TypeOK
  <2> QED BY <2>1 DEF Mine, Store
<1>2. CASE \E stake \in Stakes :
             form' = [kind |-> "create", stake |-> stake, account |-> Mine]
  <2>1. PICK stake \in Stakes : form' = [kind |-> "create", stake |-> stake, account |-> Mine]
    BY <1>2
  <2>2. stake \in Amount
    BY LaneAssumption DEF Amount
  <2> HIDE DEF Mine
  <2> QED BY <1>1, <2>1, <2>2 DEF FormFine, FetchAccount
<1>3. CASE \E game \in Games :
             form' = [kind |-> "join", game |-> game, stake |-> store.games[game].stake,
                      account |-> Mine]
  <2>1. PICK game \in Games : form' = [kind |-> "join", game |-> game,
                                       stake |-> store.games[game].stake, account |-> Mine]
    BY <1>3
  <2>2. store.games[game].stake \in Amount
    <3>1. store.games[game] \in Game
      BY DEF TypeOK, Store
    <3> QED BY <3>1 DEF Game, Amount
  <2> DEFINE stake == store.games[game].stake
  <2> HIDE DEF stake
  <2>3. form'.kind = "join" /\ form'.stake = stake /\ form'.account = Mine
    BY <2>1 DEF stake
  <2> QED BY <1>1, <2>2, <2>3 DEF FormFine, FetchAccount, stake
<1> QED BY <1>2, <1>3 DEF FetchAccount

LEMMA EntryKeeps ==
  ASSUME ScenarioFine, FormFine, SentFine, SubmitEntry
  PROVE  SentFine' /\ FormFine'
<1> DEFINE deposit == EntryDeposit(form.account, form.stake)
<1>1. /\ form # NoForm /\ form.kind \in {"create", "join"} /\ form.stake \in Amount
      /\ deposit \in Amount
  BY EntryDepositFine DEF FormFine, SubmitEntry
<1>2. RankTells
  BY ScenarioTells
<1>3. FormFine'
  BY DEF SubmitEntry, FormFine
<1>4. CASE form.kind = "create"
  <2> DEFINE number == form.account.started
             game == <<Web, number>>
             about == [kind |-> form.kind, game |-> game, account |-> form.account]
             carrier == C!CreateGameTx(Web, number, form.stake, 1, "X", deposit)
             meant == EntryMeant(Web, CreateMeant(game, form.stake, 1), deposit)
  <2>1. game \in Games /\ Send(carrier, "web", meant, about)
    BY <1>4 DEF SubmitEntry, EntryMeant
  <2>2. form.stake \in Nat
    BY <1>1 DEF Amount
  <2> HIDE DEF deposit
  <2>3. Carries(carrier, meant)
    BY <1>1, <1>2, <2>1, <2>2, ClientsFine, CreateCarries
  <2> HIDE DEF carrier, meant, about
  <2>4. SentFine'
    BY <2>1, <2>3, SendKeeps
  <2> QED BY <1>3, <2>4
<1>5. CASE form.kind = "join"
  <2> DEFINE game == form.game
             about == [kind |-> form.kind, game |-> game, account |-> form.account]
             carrier == C!JoinGameTx(Web, game, deposit)
             meant == EntryMeant(Web, JoinMeant(game, Web), deposit)
  <2>1. game \in Games /\ Send(carrier, "web", meant, about)
    BY <1>5 DEF SubmitEntry, EntryMeant
  <2> HIDE DEF deposit
  <2>3. Carries(carrier, meant)
    BY <1>1, <1>2, <2>1, ClientsFine, JoinCarries
  <2> HIDE DEF carrier, meant, about
  <2>4. SentFine'
    BY <2>1, <2>3, SendKeeps
  <2> QED BY <1>3, <2>4
<1> QED BY <1>1, <1>4, <1>5

(* The opponent is the other of the two players on the board. *)
LEMMA SubmitTurnKeeps ==
  ASSUME ScenarioFine, SentFine, MoneyInv, BoardsAgree(store, table),
         NEW game \in Games, NEW cell \in WebCells, SubmitTurn(game, cell)
  PROVE  SentFine'
<1> DEFINE board == table.boards[game]
           Opponents == { user \in Users \ {Web} : \E s \in Seats : board.players[s] = user }
           opponent == CHOOSE user \in Users \ {Web} : \E s \in Seats : board.players[s] = user
           about == [kind |-> "turn", game |-> game, cell |-> cell]
           carrier == C!TurnTx(Web, opponent, game, cell)
           meant == <<TurnMeant(game, Web, cell)>>
<1>1. board.state = "Playing" /\ Send(carrier, "web", meant, about)
  BY DEF SubmitTurn, WebSends
<1>2. /\ board.players[0] = game[1] /\ board.players[1] = store.games[game].joiner
      /\ store.games[game].state = "Playing"
  BY <1>1 DEF BoardsAgree, BoardOf
<1>3. game[1] \in Users /\ store.games[game].joiner \in Users \ {game[1]}
  <2>1. game[1] \in Users
    BY DEF Games
  <2>2. Paired(store)
    BY DEF MoneyInv, Told
  <2> QED BY <1>2, <2>1, <2>2 DEF Paired
<1>4. opponent \in Users
  <2>1. \E user \in Users \ {Web} : \E s \in Seats : board.players[s] = user
    <3>1. 0 \in Seats /\ 1 \in Seats
      BY DEF Seats
    <3>2. CASE game[1] # Web
      BY <1>2, <1>3, <3>1, <3>2
    <3>3. CASE game[1] = Web
      BY <1>2, <1>3, <3>1, <3>3
    <3> QED BY <3>2, <3>3
  <2> HIDE DEF board
  <2> QED BY <2>1
<1> HIDE DEF opponent, about
<1>5. Carries(carrier, meant)
  <2>1. cell \in 0..8
    BY LaneAssumption
  <2>2. RankTells
    BY ScenarioTells
  <2> QED BY <1>4, <2>1, <2>2, ClientsFine, TurnCarries
<1> HIDE DEF carrier, meant
<1> QED BY <1>1, <1>5, SendKeeps

LEMMA SubmitTransferKeeps ==
  ASSUME SentFine, TypeOK, NEW amount \in Stakes, SubmitTransfer(amount)
  PROVE  SentFine'
<1> DEFINE exists == store.users[PlayerB].live
           carrier == C!TransferTx(Web, PlayerB, exists, amount)
           meant == <<TransferMeant(Web, PlayerB, amount, IF exists THEN C!NoLock ELSE PlayerB)>>
<1>1. Send(carrier, "web", meant, [kind |-> "transfer"])
  BY DEF SubmitTransfer, WebSends
<1>2. exists \in BOOLEAN
  BY ClientsFine DEF TypeOK, Store, User
<1>3. amount \in Nat
  BY LaneAssumption
<1> HIDE DEF exists
<1>4. Carries(carrier, meant)
  BY <1>2, <1>3, ClientsFine, TransferCarries
<1> HIDE DEF carrier, meant
<1> QED BY <1>1, <1>4, SendKeeps

LEMMA SubmitWithdrawKeeps ==
  ASSUME SentFine, NEW amount \in Stakes, SubmitWithdraw(amount)
  PROVE  SentFine'
<1>1. Send(C!WithdrawTx(Web, amount), "web", <<WithdrawMeant(Web, amount)>>, [kind |-> "withdraw"])
  BY DEF SubmitWithdraw, WebSends
<1>2. amount \in Nat
  BY LaneAssumption
<1>3. Carries(C!WithdrawTx(Web, amount), <<WithdrawMeant(Web, amount)>>)
  BY <1>2, ClientsFine, WithdrawCarries
<1> QED BY <1>1, <1>3, SendKeeps

LEMMA OthersKeep ==
  ASSUME SentFine, NEW payload, NEW key \in Keys, NEW meant, Says(payload, meant),
         OthersSend(payload, key, meant)
  PROVE  SentFine'
<1>1. Send(C!Carrier(payload, key, 0), "others", meant, [kind |-> "others"])
  BY DEF OthersSend
<1>2. Carries(C!Carrier(payload, key, 0), meant)
  BY NothingDeposited, SaidIsCarried
<1> QED BY <1>1, <1>2, SendKeeps

LEMMA UpdateKeeps ==
  ASSUME SentFine, NEW min \in Stakes, OwnerUpdates(min)
  PROVE  SentFine'
<1> DEFINE payload == C!Payload(<<C!Write(Config)>>,
                                <<C!EncodeUpdate(0, min, cfg.turn_ttl, Covenant, Genesis)>>,
                                C!OwnSignature(0))
           meant == <<InitMeant("Update", min, cfg.turn_ttl)>>
<1>1. OthersSend(payload, Genesis, meant)
  BY DEF OwnerUpdates
<1>2. Says(payload, meant)
  <2>1. min \in Amount
    BY LaneAssumption DEF Amount
  <2> QED BY <2>1, UpdateSays
<1> HIDE DEF payload, meant
<1> QED BY <1>1, <1>2, ClientsFine, OthersKeep

LEMMA RotateKeeps ==
  ASSUME SentFine, NEW key \in NewLocks, WebRotates(key)
  PROVE  SentFine'
<1> DEFINE payload == C!Payload(<<C!Write(Web)>>, <<C!EncodeUpdateUserLock(0, key)>>,
                                C!OwnSignature(0))
           meant == <<UserLockMeant(Web, key)>>
<1>1. OthersSend(payload, Web, meant)
  BY DEF WebRotates, UserLockMeant
<1>2. Says(payload, meant)
  <2>1. key \in Locks
    BY LedgerAssumption
  <2> QED BY <2>1, ClientsFine, UserLockSays
<1> HIDE DEF payload, meant
<1> QED BY <1>1, <1>2, ClientsFine, OthersKeep

LEMMA SweepKeeps ==
  ASSUME SentFine, NEW game \in Games, Sweeps(game)
  PROVE  SentFine'
<1> DEFINE at == C!GameConfigAccess(game)
           payload == C!Payload(at.access, <<C!EncodeTimeout(at.first_idx, at.second_idx)>>, <<>>)
           meant == <<TimeoutMeant(game)>>
<1>1. OthersSend(payload, Genesis, meant)
  BY DEF Sweeps
<1>2. Says(payload, meant)
  BY SweepSays
<1> HIDE DEF payload, meant
<1> QED BY <1>1, <1>2, ClientsFine, OthersKeep

LEMMA SweepWithPlayersKeeps ==
  ASSUME ScenarioFine, SentFine, LedgerInv, NEW game \in Games, SweepsWithPlayers(game)
  PROVE  SentFine'
<1> DEFINE joiner == store.games[game].joiner
           access == C!SortedAccess(<<C!Write(game), C!Read(Config), C!Write(game[1]),
                                      C!Write(joiner)>>)
           payload == C!Payload(access, <<C!EncodeTimeout(C!Position(access, game),
                                                          C!Position(access, Config))>>, <<>>)
           meant == <<TimeoutMeant(game)>>
<1>1. store.games[game].state = "Playing" /\ OthersSend(payload, Genesis, meant)
  BY DEF SweepsWithPlayers
<1>2. joiner \in Users
  BY <1>1 DEF LedgerInv, Seated
<1>3. RankTells
  BY ScenarioTells
<1> HIDE DEF joiner
<1>4. Says(payload, meant)
  BY <1>2, <1>3, SweepWithPlayersSays
<1> HIDE DEF payload, meant
<1> QED BY <1>1, <1>4, ClientsFine, OthersKeep

---------------------------------------------------------------------------
(* The guest's side of the invariant *)

(* What is still to apply has the arguments its handlers take.             *)
TodoFine == IsRow(todo) /\ \A i \in 1..Len(todo) : ArgumentsFine(todo[i])

(* Every carrier on its way says what its sender means, the boards are     *)
(* those of the games the ledger holds, in the committed resources and in  *)
(* the running transaction's copy alike, and the ledger's own invariant    *)
(* holds: the browser reads both to write its next carrier.                *)
LaneInv ==
  /\ MoneyInv
  /\ ScenarioFine /\ FormFine /\ SentFine /\ TodoFine
  /\ BoardsAgree(store, table)
  /\ tx.status # "Failed" => BoardsAgree(work, playing)

LEMMA NamedArguments ==
  ASSUME NEW access, NEW act, ArgumentsFine(Named(access, act))
  PROVE  ArgumentsFine(act)
<1> DEFINE named == Named(access, act)
<1>1. DOMAIN named = DOMAIN act
  BY DEF Named
<1>2. \A f \in DOMAIN act : f \notin IndexFields => named[f] = act[f]
  BY DEF Named
<1>3. /\ "action_tag" \notin IndexFields /\ "min" \notin IndexFields /\ "lock" \notin IndexFields
      /\ "amount" \notin IndexFields /\ "stake" \notin IndexFields
  BY DEF IndexFields
<1> HIDE DEF named
<1> QED BY <1>1, <1>2, <1>3 DEF ArgumentsFine, named

(* The actions of a carrier that is fine are. *)
LEMMA DecodedFine ==
  ASSUME NEW carrier, CarrierFine(carrier)
  PROVE  LET acts == Decoded(carrier).actions
         IN  IsRow(acts) /\ \A i \in 1..Len(acts) : ArgumentsFine(acts[i])
<1> DEFINE acts == Decoded(carrier).actions
           named == NamedActions(carrier.access, acts)
<1>1. IsRow(acts)
  BY DEF CarrierFine
<1>2. named = carrier.meant /\ MeantFine(carrier.meant)
  BY DEF CarrierFine, Understood
<1> HIDE DEF acts
<1>3. DOMAIN acts = 1..Len(acts)
  BY <1>1 DEF IsRow
<1>4. ASSUME NEW i \in 1..Len(acts) PROVE ArgumentsFine(acts[i])
  <2>1. i \in DOMAIN named /\ named[i] = Named(carrier.access, acts[i])
    BY <1>3 DEF NamedActions
  <2>2. ArgumentsFine(named[i])
    BY <1>2, <2>1 DEF MeantFine
  <2> QED BY <2>1, <2>2, NamedArguments
<1> QED BY <1>1, <1>4 DEF acts

(* A client touches nothing but what is on its way. *)
LEMMA ClientsKeep ==
  ASSUME LaneInv, Clients
  PROVE  SentFine' /\ FormFine' /\ UNCHANGED <<vars, guest, rank, cfg>>
<1>1. /\ MoneyInv /\ LedgerInv /\ TypeOK /\ ScenarioFine /\ FormFine /\ SentFine
      /\ BoardsAgree(store, table)
  BY DEF LaneInv, MoneyInv, LedgerInv
<1>2. CASE ScriptStep
  <2>1. SentFine'
    BY <1>1, <1>2, ScriptKeeps DEF ScriptStep
  <2> QED BY <1>1, <1>2, <2>1 DEF ScriptStep, FormFine
<1>3. CASE ScriptGivesUp
  BY <1>1, <1>3 DEF ScriptGivesUp, FormFine, SentFine
<1>4. CASE FetchAccount
  <2>1. FormFine' /\ mempool' = mempool
    BY <1>1, <1>4, FetchKeeps
  <2> QED BY <1>1, <1>4, <2>1 DEF FetchAccount, SentFine
<1>5. CASE SubmitEntry
  <2>1. SentFine' /\ FormFine'
    BY <1>1, <1>5, EntryKeeps
  <2> QED BY <1>5, <2>1 DEF SubmitEntry
<1>6. CASE EntryFails
  BY <1>1, <1>6 DEF EntryFails, FormFine, SentFine
<1>7. ASSUME NEW game \in Games, NEW cell \in WebCells, SubmitTurn(game, cell)
      PROVE  SentFine' /\ UNCHANGED <<vars, guest, form, rank, cfg>>
  <2>1. SentFine'
    BY <1>1, <1>7, SubmitTurnKeeps
  <2> QED BY <1>7, <2>1 DEF SubmitTurn, WebSends
<1>8. ASSUME NEW amount \in Stakes, SubmitTransfer(amount)
      PROVE  SentFine' /\ UNCHANGED <<vars, guest, form, rank, cfg>>
  <2>1. SentFine'
    BY <1>1, <1>8, SubmitTransferKeeps
  <2> QED BY <1>8, <2>1 DEF SubmitTransfer, WebSends
<1>9. ASSUME NEW amount \in Stakes, SubmitWithdraw(amount)
      PROVE  SentFine' /\ UNCHANGED <<vars, guest, form, rank, cfg>>
  <2>1. SentFine'
    BY <1>1, <1>9, SubmitWithdrawKeeps
  <2> QED BY <1>9, <2>1 DEF SubmitWithdraw, WebSends
<1>10. ASSUME NEW amount \in Stakes, OwnerUpdates(amount)
       PROVE  SentFine' /\ UNCHANGED <<vars, guest, form, rank, cfg>>
  <2>1. SentFine'
    BY <1>1, <1>10, UpdateKeeps
  <2> QED BY <1>10, <2>1 DEF OwnerUpdates, OthersSend
<1>11. ASSUME NEW key \in NewLocks, WebRotates(key)
       PROVE  SentFine' /\ UNCHANGED <<vars, guest, form, rank, cfg>>
  <2>1. SentFine'
    BY <1>1, <1>11, RotateKeeps
  <2> QED BY <1>11, <2>1 DEF WebRotates, OthersSend
<1>12. ASSUME NEW game \in Games, Sweeps(game)
       PROVE  SentFine' /\ UNCHANGED <<vars, guest, form, rank, cfg>>
  <2>1. SentFine'
    BY <1>1, <1>12, SweepKeeps
  <2> QED BY <1>12, <2>1 DEF Sweeps, OthersSend
<1>13. ASSUME NEW game \in Games, SweepsWithPlayers(game)
       PROVE  SentFine' /\ UNCHANGED <<vars, guest, form, rank, cfg>>
  <2>1. SentFine'
    BY <1>1, <1>13, SweepWithPlayersKeeps
  <2> QED BY <1>13, <2>1 DEF SweepsWithPlayers, OthersSend
<1>14. ASSUME UNCHANGED form PROVE FormFine'
  BY <1>1, <1>14 DEF FormFine
<1> QED BY <1>2, <1>3, <1>4, <1>5, <1>6, <1>7, <1>8, <1>9, <1>10, <1>11, <1>12, <1>13, <1>14
        DEF Clients

---------------------------------------------------------------------------
(* Boards: a match under one borrow keeps its players *)

(* A match that has players. *)
Seating(b) == {"state", "players"} \subseteq DOMAIN b /\ Seats \subseteq DOMAIN b.players

KeepsSeats(before, after) ==
  /\ Seating(after)
  /\ after.players = before.players
  /\ after.state = before.state \/ after.state \in Finals

LEMMA SeatsPassOn ==
  ASSUME NEW a, NEW b, NEW c, KeepsSeats(a, b), KeepsSeats(b, c)
  PROVE  KeepsSeats(a, c)
BY DEF KeepsSeats

LEMMA CloseKeeps ==
  ASSUME NEW g, Seating(g)
  PROVE  KeepsSeats(g, G!CloseRound(g))
<1>1. CASE G!Outcome(g) = "None"
  BY <1>1 DEF G!CloseRound, KeepsSeats, Seating
<1>2. CASE G!Outcome(g) # "None"
  <2> DEFINE out == G!Outcome(g)
  <2>1. out \in Finals
    BY <1>2 DEF G!Outcome, G!MatchOutcome, Finals
  <2>2. G!CloseRound(g) = [g EXCEPT !.board = G!EmptyBoard, !.state = out, !.pending = G!NoPending]
    BY <1>2 DEF G!CloseRound
  <2> HIDE DEF out
  <2> QED BY <2>1, <2>2 DEF KeepsSeats, Seating
<1> QED BY <1>1, <1>2

LEMMA AwardKeeps ==
  ASSUME NEW g, Seating(g), NEW seat
  PROVE  KeepsSeats(g, G!AwardRound(g, seat))
BY DEF KeepsSeats, Seating, G!AwardRound

LEMMA MoveKeeps ==
  ASSUME NEW g, Seating(g), NEW seat, NEW cell, NEW now
  PROVE  KeepsSeats(g, G!ApplyMove(g, seat, cell, now))
<1> DEFINE mark == G!MarkForSeat(g.creator_mark, G!Round(g), seat)
           placed == [g EXCEPT !.board[cell] = mark, !.last_move_at = now]
           drawn == [placed EXCEPT !.draws = G!Add8(@, 1)]
           awarded == G!AwardRound(placed, seat)
<1>1. KeepsSeats(g, placed) /\ KeepsSeats(g, drawn)
  BY DEF KeepsSeats, Seating
<1>2. G!ApplyMove(g, seat, cell, now) \in {placed, G!CloseRound(drawn), G!CloseRound(awarded)}
  BY DEF G!ApplyMove
<1> HIDE DEF placed, drawn
<1>3. Seating(placed) /\ Seating(drawn)
  BY <1>1 DEF KeepsSeats
<1>4. KeepsSeats(placed, awarded) /\ Seating(awarded)
  BY <1>3, AwardKeeps DEF KeepsSeats
<1> HIDE DEF awarded
<1>5. KeepsSeats(g, G!CloseRound(drawn))
  BY <1>1, <1>3, CloseKeeps, SeatsPassOn
<1>6. KeepsSeats(g, awarded)
  BY <1>1, <1>4, SeatsPassOn
<1>7. KeepsSeats(g, G!CloseRound(awarded))
  BY <1>4, <1>6, CloseKeeps, SeatsPassOn
<1> QED BY <1>1, <1>2, <1>5, <1>7

LEMMA CommitKeeps ==
  ASSUME NEW g, Seating(g), NEW seat, NEW cell, NEW now
  PROVE  KeepsSeats(g, G!CommitExplicit(g, seat, cell, now))
<1>1. KeepsSeats(g, G!ApplyMove(g, seat, cell, now))
  BY MoveKeeps
<1>2. KeepsSeats(g, [g EXCEPT !.pending[seat] = Append(@, cell)])
  BY DEF KeepsSeats, Seating
<1> QED BY <1>1, <1>2 DEF G!CommitExplicit

LEMMA DrainOneKeeps ==
  ASSUME NEW g, Seating(g), NEW now
  PROVE  KeepsSeats(g, G!DrainOne(g, now))
<1> DEFINE seat == G!ToMove(g)
           cell == Head(g.pending[seat])
           popped == [g EXCEPT !.pending[seat] = Tail(@)]
<1>1. G!DrainOne(g, now) \in {g, popped, G!ApplyMove(popped, seat, cell, now)}
  BY DEF G!DrainOne
<1>2. KeepsSeats(g, g) /\ KeepsSeats(g, popped)
  BY DEF KeepsSeats, Seating
<1> HIDE DEF seat, cell, popped
<1>3. Seating(popped)
  BY <1>2 DEF KeepsSeats
<1>4. KeepsSeats(popped, G!ApplyMove(popped, seat, cell, now))
  BY <1>3, MoveKeeps
<1>5. KeepsSeats(g, G!ApplyMove(popped, seat, cell, now))
  BY <1>2, <1>4, SeatsPassOn
<1> QED BY <1>1, <1>2, <1>5

LEMMA DrainKeeps ==
  ASSUME NEW g, Seating(g), NEW now
  PROVE  KeepsSeats(g, G!DrainPending(g, now))
<1>1. ASSUME NEW b, Seating(b) PROVE KeepsSeats(b, G!DrainTwo(b, now))
  <2>1. KeepsSeats(b, G!DrainOne(b, now)) /\ Seating(G!DrainOne(b, now))
    BY <1>1, DrainOneKeeps DEF KeepsSeats
  <2>2. KeepsSeats(G!DrainOne(b, now), G!DrainTwo(b, now))
    BY <2>1, DrainOneKeeps DEF G!DrainTwo
  <2> QED BY <2>1, <2>2, SeatsPassOn
<1>2. ASSUME NEW b, Seating(b) PROVE KeepsSeats(b, G!DrainFour(b, now))
  <2>1. KeepsSeats(b, G!DrainTwo(b, now)) /\ Seating(G!DrainTwo(b, now))
    BY <1>1, <1>2 DEF KeepsSeats
  <2>2. KeepsSeats(G!DrainTwo(b, now), G!DrainFour(b, now))
    BY <1>1, <2>1 DEF G!DrainFour
  <2> QED BY <2>1, <2>2, SeatsPassOn
<1>3. KeepsSeats(g, G!DrainFour(g, now)) /\ Seating(G!DrainFour(g, now))
  BY <1>2 DEF KeepsSeats
<1>4. KeepsSeats(G!DrainFour(g, now), G!DrainPending(g, now))
  BY <1>2, <1>3 DEF G!DrainPending
<1> QED BY <1>3, <1>4, SeatsPassOn

LEMMA TurnKeepsSeats ==
  ASSUME NEW g, Seating(g), NEW seat, NEW cell, NEW now
  PROVE  KeepsSeats(g, G!PlayTurn(g, seat, cell, now))
<1> DEFINE committed == G!CommitExplicit(g, seat, cell, now)
<1>1. KeepsSeats(g, committed) /\ Seating(committed)
  BY CommitKeeps DEF KeepsSeats
<1> HIDE DEF committed
<1>2. KeepsSeats(committed, G!DrainPending(committed, now))
  BY <1>1, DrainKeeps
<1> QED BY <1>1, <1>2, SeatsPassOn DEF G!PlayTurn, committed

LEMMA ForfeitKeepsSeats ==
  ASSUME NEW g, Seating(g), NEW now
  PROVE  KeepsSeats(g, G!ForfeitRound(g, now))
<1> DEFINE awarded == G!AwardRound(g, 1 - G!ToMove(g))
           stamped == [awarded EXCEPT !.last_move_at = now]
           closed == G!CloseRound(stamped)
<1>1. KeepsSeats(g, awarded) /\ Seating(awarded)
  BY AwardKeeps DEF KeepsSeats
<1>2. G!ForfeitRound(g, now) = G!DrainPending(closed, now)
  BY DEF G!ForfeitRound
<1> HIDE DEF awarded
<1>3. KeepsSeats(awarded, stamped) /\ Seating(stamped)
  BY <1>1 DEF KeepsSeats, Seating
<1> HIDE DEF stamped
<1>4. KeepsSeats(stamped, closed) /\ Seating(closed)
  BY <1>3, CloseKeeps DEF KeepsSeats
<1> HIDE DEF closed
<1>5. KeepsSeats(closed, G!DrainPending(closed, now))
  BY <1>4, DrainKeeps
<1>6. KeepsSeats(g, closed)
  BY <1>1, <1>3, <1>4, SeatsPassOn
<1> QED BY <1>2, <1>5, <1>6, SeatsPassOn

---------------------------------------------------------------------------
(* Handlers: what each does to the ledger AnySpec may do, and the boards   *)
(* and the ledger agree after it unless it fails                           *)

Handles == AnyNext /\ (tx'.status # "Failed" => BoardsAgree(work', playing'))

LEMMA WorkFields ==
  ASSUME TypeOK
  PROVE  /\ "games" \in DOMAIN work /\ "status" \in DOMAIN tx
         /\ DOMAIN work.games = Games
         /\ \A g \in Games : {"state", "joiner"} \subseteq DOMAIN work.games[g]
         /\ \A u \in Users : work.users[u].balance \in Nat /\ work.users[u].balance <= U64_MAX
<1>1. work \in Store /\ tx \in Tx /\ U64_MAX \in Nat
  BY LedgerAssumption DEF TypeOK
<1>2. \A g \in Games : work.games[g] \in Game
  BY <1>1 DEF Store
<1>3. \A u \in Users : work.users[u] \in User
  BY <1>1 DEF Store
<1>4. \A g \in Games : {"state", "joiner"} \subseteq DOMAIN work.games[g]
  BY <1>2 DEF Game
<1>5. \A u \in Users : work.users[u].balance \in Nat /\ work.users[u].balance <= U64_MAX
  BY <1>1, <1>3 DEF User
<1>6. "games" \in DOMAIN work /\ "status" \in DOMAIN tx /\ DOMAIN work.games = Games
  BY <1>1 DEF Store, Tx
<1> QED BY <1>4, <1>5, <1>6

LEMMA FailsFits ==
  ASSUME TypeOK, NEW w, Fails(w)
  PROVE  tx'.status = "Failed"
BY WorkFields DEF Fails

(* What a handler that plays no board leaves of the games. *)
LEMMA GamesKept ==
  ASSUME BoardsAgree(work, playing), NEW w, w.games = work.games,
         NEW t, t.boards = playing.boards, DOMAIN t = DOMAIN playing
  PROVE  BoardsAgree(w, t)
BY DEF BoardsAgree

LEMMA UsersOnly ==
  ASSUME NEW w, "games" \in DOMAIN w, NEW u, NEW amount, NEW lock
  PROVE  /\ Debit(w, u, amount).games = w.games /\ "games" \in DOMAIN Debit(w, u, amount)
         /\ Credit(w, u, amount).games = w.games /\ "games" \in DOMAIN Credit(w, u, amount)
         /\ Create(w, u, lock, amount).games = w.games
BY DEF Debit, Credit, Create

LEMMA UnplayedFits ==
  ASSUME TypeOK, BoardsAgree(work, playing), Unplayed,
         work'.games = work.games \/ tx'.status = "Failed"
  PROVE  tx'.status # "Failed" => BoardsAgree(work', playing')
<1> SUFFICES ASSUME work'.games = work.games PROVE BoardsAgree(work', playing')
  OBVIOUS
<1>1. playing'.boards = playing.boards /\ DOMAIN playing' = DOMAIN playing
  BY DEF Unplayed
<1> QED BY <1>1, GamesKept

LEMMA ConfigFits ==
  ASSUME TypeOK, BoardsAgree(work, playing), NEW a, ConfigWritten(a),
         NEW min, NEW lock, WriteConfig(min, lock)
  PROVE  tx'.status # "Failed" => BoardsAgree(work', playing')
<1>1. work'.games = work.games
  BY WorkFields DEF WriteConfig, Applies
<1>2. playing'.boards = playing.boards /\ DOMAIN playing' = DOMAIN playing
  BY DEF ConfigWritten, BoardsAgree
<1> QED BY <1>1, <1>2, GamesKept

LEMMA InitHandled ==
  ASSUME TypeOK, BoardsAgree(work, playing), NEW a, ArgumentsFine(a), a.action_tag = "Init",
         HandleInit(a)
  PROVE  Handles
<1>1. InitConfig(a.min, a.lock) /\ ConfigWritten(a)
  BY DEF HandleInit
<1>2. a.min \in 0..U64_MAX /\ a.lock \in Locks
  BY DEF ArgumentsFine, Amount
<1>3. AnyNext
  BY <1>1, <1>2 DEF AnyNext, AnyConfigAction
<1>4. tx'.status # "Failed" => BoardsAgree(work', playing')
  BY <1>1, ConfigFits DEF InitConfig
<1> QED BY <1>3, <1>4 DEF Handles

LEMMA UpdateHandled ==
  ASSUME TypeOK, BoardsAgree(work, playing), NEW a, ArgumentsFine(a), a.action_tag = "Update",
         HandleUpdate(a)
  PROVE  Handles
<1>1. UpdateConfig(a.min, a.lock) /\ ConfigWritten(a)
  BY DEF HandleUpdate
<1>2. a.min \in 0..U64_MAX /\ a.lock \in Locks
  BY DEF ArgumentsFine, Amount
<1>3. AnyNext
  BY <1>1, <1>2 DEF AnyNext, AnyConfigAction
<1>4. tx'.status # "Failed" => BoardsAgree(work', playing')
  BY <1>1, ConfigFits DEF UpdateConfig
<1> QED BY <1>3, <1>4 DEF Handles

LEMMA TransferHandled ==
  ASSUME TypeOK, BoardsAgree(work, playing), NEW a, ArgumentsFine(a), a.action_tag = "Transfer",
         HandleTransfer(a)
  PROVE  Handles
<1> DEFINE source == At(a.source_idx)
           dest == At(a.dest_idx)
           debited == Debit(work, source, a.amount)
<1>1. /\ source \in Users /\ dest \in Users
      /\ Transfer(source, dest, a.amount, a.dest_init) /\ Unplayed
  BY DEF HandleTransfer
<1> HIDE DEF source, dest
<1>2. a.amount \in 0..U64_MAX
  <2>1. a.amount \in Nat
    BY DEF ArgumentsFine
  <2>2. a.amount <= work.users[source].balance
    BY <1>1 DEF Transfer
  <2> QED BY <1>1, <2>1, <2>2, WorkFields, LedgerAssumption
<1>3. AnyNext
  BY <1>1, <1>2 DEF AnyNext, AnyUserAction
<1>4. debited.games = work.games /\ "games" \in DOMAIN debited
  BY WorkFields, UsersOnly
<1> HIDE DEF debited
<1>5. \/ Fails(debited)
      \/ Applies(Create(debited, dest, a.dest_init, a.amount))
      \/ Applies(Credit(debited, dest, a.amount))
  BY <1>1 DEF Transfer, debited
<1>6. work'.games = work.games \/ tx'.status = "Failed"
  BY <1>4, <1>5, UsersOnly, FailsFits DEF Applies
<1> QED BY <1>1, <1>3, <1>6, UnplayedFits DEF Handles

LEMMA UserLockHandled ==
  ASSUME TypeOK, BoardsAgree(work, playing), NEW a, ArgumentsFine(a),
         a.action_tag = "UpdateUserLock", HandleUpdateUserLock(a)
  PROVE  Handles
<1> DEFINE user == At(a.user_idx)
<1>1. user \in Users /\ UpdateUserLock(user, a.lock) /\ Unplayed
  BY DEF HandleUpdateUserLock
<1> HIDE DEF user
<1>2. a.lock \in Locks
  BY DEF ArgumentsFine
<1>3. AnyNext
  BY <1>1, <1>2 DEF AnyNext, AnyUserAction
<1>4. work'.games = work.games
  BY <1>1, WorkFields DEF UpdateUserLock, Applies
<1> QED BY <1>1, <1>3, <1>4, UnplayedFits DEF Handles

LEMMA DepositHandled ==
  ASSUME TypeOK, BoardsAgree(work, playing), NEW a, HandleDeposit(a)
  PROVE  Handles
<1> DEFINE user == At(a.user_idx)
<1>1. user \in Users /\ a.output_idx \in Outputs /\ Deposit(user, a.output_idx, a.lock) /\ Unplayed
  BY DEF HandleDeposit
<1> HIDE DEF user
<1>2. AnyNext
  BY <1>1 DEF AnyNext, AnyUserAction
<1>3. work'.games = work.games
  BY <1>1, WorkFields, UsersOnly DEF Deposit
<1> QED BY <1>1, <1>2, <1>3, UnplayedFits DEF Handles

LEMMA WithdrawHandled ==
  ASSUME TypeOK, BoardsAgree(work, playing), NEW a, ArgumentsFine(a), a.action_tag = "Withdraw",
         HandleWithdraw(a)
  PROVE  Handles
<1> DEFINE user == At(a.user_idx)
<1>1. user \in Users /\ Withdraw(user, a.amount) /\ Unplayed
  BY DEF HandleWithdraw
<1> HIDE DEF user
<1>2. a.amount \in 0..U64_MAX
  <2>1. a.amount \in Nat
    BY DEF ArgumentsFine
  <2>2. a.amount <= work.users[user].balance
    BY <1>1 DEF Withdraw
  <2> QED BY <1>1, <2>1, <2>2, WorkFields, LedgerAssumption
<1>3. AnyNext
  BY <1>1, <1>2 DEF AnyNext, AnyUserAction
<1>4. work'.games = work.games
  BY <1>1, WorkFields, UsersOnly DEF Withdraw
<1> QED BY <1>1, <1>3, <1>4, UnplayedFits DEF Handles

(* One board is put, and with it one entry of the ledger's games.          *)
LEMMA PutsFits ==
  ASSUME TypeOK, BoardsAgree(work, playing), NEW game \in Games, NEW board, Puts(game, board),
         NEW entry, BoardOf(board, game, entry), work'.games = [work.games EXCEPT ![game] = entry]
  PROVE  BoardsAgree(work', playing')
<1>1. /\ "boards" \in DOMAIN playing /\ DOMAIN playing.boards = Games
      /\ \A g \in Games : BoardOf(playing.boards[g], g, work.games[g])
  BY DEF BoardsAgree
<1>2. /\ "boards" \in DOMAIN playing' /\ DOMAIN playing'.boards = Games
      /\ playing'.boards[game] = board
      /\ \A g \in Games : g # game => playing'.boards[g] = playing.boards[g]
  BY <1>1 DEF Puts
<1>3. work'.games[game] = entry /\ \A g \in Games : g # game => work'.games[g] = work.games[g]
  BY WorkFields
<1>4. ASSUME NEW g \in Games PROVE BoardOf(playing'.boards[g], g, work'.games[g])
  <2>1. CASE g = game
    BY <1>2, <1>3, <2>1
  <2>2. CASE g # game
    BY <1>1, <1>2, <1>3, <2>2
  <2> QED BY <2>1, <2>2
<1> QED BY <1>2, <1>4 DEF BoardsAgree

LEMMA CreateHandled ==
  ASSUME TypeOK, BoardsAgree(work, playing), NEW a, ArgumentsFine(a), a.action_tag = "CreateGame",
         HandleCreateGame(a)
  PROVE  Handles
<1> DEFINE creator == At(a.creator_idx)
           game == At(a.game_idx)
           board == G!NewGame(creator, a.mark, a.rounds)
           debited == [Debit(work, creator, a.stake) EXCEPT !.users[creator].started = @ + 1]
           entry == [state |-> "Open", joiner |-> Unlocked, stake |-> a.stake]
           opened == [debited EXCEPT !.games[game] = entry]
<1>1. creator \in Users /\ game \in Games /\ CreateGame(creator, game, a.stake) /\ Puts(game, board)
  BY DEF HandleCreateGame
<1>2. BoardOf(board, game, entry)
  <2>1. game[1] = creator
    BY <1>1 DEF CreateGame
  <2>2. /\ board.state = "Open" /\ {"state", "players"} \subseteq DOMAIN board
        /\ DOMAIN board.players = Seats /\ board.players[0] = creator
    BY DEF G!NewGame, G!Seats, Seats
  <2> HIDE DEF board, creator
  <2> QED BY <2>1, <2>2 DEF BoardOf
<1> HIDE DEF creator, game, board
<1>3. a.stake \in 0..U64_MAX
  <2>1. a.stake \in Nat
    BY DEF ArgumentsFine
  <2>2. a.stake <= work.users[creator].balance
    BY <1>1 DEF CreateGame
  <2> QED BY <1>1, <2>1, <2>2, WorkFields, LedgerAssumption
<1>4. AnyNext
  BY <1>1, <1>3 DEF AnyNext, AnyGameAction
<1>5. opened.games = [work.games EXCEPT ![game] = entry]
  <2>1. debited.games = work.games /\ "games" \in DOMAIN debited
    <3>1. /\ Debit(work, creator, a.stake).games = work.games
          /\ "games" \in DOMAIN Debit(work, creator, a.stake)
      BY WorkFields, UsersOnly
    <3> QED BY <3>1
  <2> HIDE DEF debited, entry
  <2> QED BY <2>1
<1>6. Fails(debited) \/ Applies(opened)
  BY <1>1 DEF CreateGame
<1> HIDE DEF debited, opened, entry
<1>7. CASE Fails(debited)
  BY <1>4, <1>7, FailsFits DEF Handles
<1>8. CASE Applies(opened)
  <2>1. work' = opened
    BY <1>8 DEF Applies
  <2> QED BY <1>1, <1>2, <1>4, <1>5, <2>1, PutsFits DEF Handles
<1> QED BY <1>6, <1>7, <1>8

LEMMA JoinHandled ==
  ASSUME TypeOK, BoardsAgree(work, playing), NEW a, HandleJoinGame(a)
  PROVE  Handles
<1> DEFINE joiner == At(a.joiner_idx)
           game == At(a.game_idx)
           open == playing.boards[game]
           board == G!Join(open, joiner, clock)
           debited == Debit(work, joiner, work.games[game].stake)
           entry == [work.games[game] EXCEPT !.state = "Playing", !.joiner = joiner]
           joined == [debited EXCEPT !.games[game].state = "Playing",
                                     !.games[game].joiner = joiner]
<1>1. joiner \in Users /\ game \in Games /\ JoinGame(game, joiner) /\ Puts(game, board)
  BY DEF HandleJoinGame, Board
<1> HIDE DEF joiner, game
<1>2. AnyNext
  BY <1>1 DEF AnyNext, AnyGameAction
<1>3. BoardOf(board, game, entry)
  <2>1. work.games[game].state = "Open"
    BY <1>1 DEF JoinGame
  <2>2. BoardOf(open, game, work.games[game])
    BY <1>1 DEF BoardsAgree
  <2>3. /\ {"state", "players"} \subseteq DOMAIN open /\ Seats \subseteq DOMAIN open.players
        /\ open.players[0] = game[1]
    BY <2>1, <2>2 DEF BoardOf
  <2> HIDE DEF open
  <2>4. /\ {"state", "players"} \subseteq DOMAIN board /\ DOMAIN board.players = DOMAIN open.players
        /\ board.state = "Playing" /\ board.players[0] = game[1] /\ board.players[1] = joiner
    BY <2>3 DEF G!Join, Seats
  <2>5. entry.state = "Playing" /\ entry.joiner = joiner
    BY <1>1, WorkFields
  <2> HIDE DEF board, entry
  <2> QED BY <2>3, <2>4, <2>5 DEF BoardOf
<1>4. joined.games = [work.games EXCEPT ![game] = entry]
  <2>1. debited.games = work.games /\ "games" \in DOMAIN debited
    BY WorkFields, UsersOnly
  <2> HIDE DEF debited
  <2>2. game \in DOMAIN work.games
    BY <1>1, WorkFields
  <2> QED BY <2>1, <2>2
<1>5. Fails(debited) \/ Applies(joined)
  BY <1>1 DEF JoinGame
<1> HIDE DEF debited, joined, entry, board
<1>6. CASE Fails(debited)
  BY <1>2, <1>6, FailsFits DEF Handles
<1>7. CASE Applies(joined)
  <2>1. work' = joined
    BY <1>7 DEF Applies
  <2> QED BY <1>1, <1>2, <1>3, <1>4, <2>1, PutsFits DEF Handles
<1> QED BY <1>5, <1>6, <1>7

(* A match moves on to a state the ledger takes over, or the action fails. *)
LEMMA PlaysFits ==
  ASSUME TypeOK, BoardsAgree(work, playing), NEW game \in Games, NEW after,
         KeepsSeats(playing.boards[game], after), Plays(game, after.state), Puts(game, after)
  PROVE  tx'.status # "Failed" => BoardsAgree(work', playing')
<1> DEFINE moved == [work EXCEPT !.games[game].state = after.state]
           entry == [work.games[game] EXCEPT !.state = after.state]
           first == SettleSeat(moved, game, 0)
           settled == SettleSeat(first, game, 1)
<1>1. moved.games = [work.games EXCEPT ![game] = entry] /\ "games" \in DOMAIN moved
  BY WorkFields
<1>2. BoardOf(after, game, entry)
  <2>1. work.games[game].state = "Playing"
    BY DEF Plays
  <2>2. BoardOf(playing.boards[game], game, work.games[game])
    BY DEF BoardsAgree
  <2>3. after.players[0] = game[1] /\ after.players[1] = work.games[game].joiner
    BY <2>1, <2>2 DEF BoardOf, KeepsSeats
  <2>4. entry.state = after.state /\ entry.joiner = work.games[game].joiner
    BY WorkFields
  <2> HIDE DEF entry
  <2> QED BY <2>3, <2>4 DEF BoardOf, KeepsSeats, Seating
<1> HIDE DEF moved, entry
<1>3. settled.games = moved.games
  <2>1. first.games = moved.games /\ "games" \in DOMAIN first
    BY <1>1 DEF SettleSeat
  <2> HIDE DEF first
  <2> QED BY <2>1 DEF SettleSeat
<1> HIDE DEF settled
<1>4. Fails(moved) \/ Fails(first) \/ Applies(moved) \/ Applies(settled)
  BY DEF Plays, Settles, moved, settled
<1>5. CASE Applies(moved) \/ Applies(settled)
  <2>1. work'.games = [work.games EXCEPT ![game] = entry]
    BY <1>1, <1>3, <1>5 DEF Applies
  <2> QED BY <1>2, <2>1, PutsFits
<1> QED BY <1>4, <1>5, FailsFits

(* A board in play of the copy seats two players. *)
LEMMA InPlay ==
  ASSUME BoardsAgree(work, playing), NEW game \in Games, playing.boards[game].state = "Playing"
  PROVE  Seating(playing.boards[game])
BY DEF BoardsAgree, BoardOf, Seating

LEMMA StaysKnown ==
  ASSUME NEW b, b.state = "Playing", NEW after, KeepsSeats(b, after)
  PROVE  after.state \in Finals \cup {"Playing"}
BY DEF KeepsSeats

LEMMA TurnHandled ==
  ASSUME TypeOK, BoardsAgree(work, playing), NEW a, HandleTurn(a)
  PROVE  Handles
<1> DEFINE game == At(a.game_idx)
           user == At(a.user_idx)
           before == playing.boards[game]
<1>1. PICK seat \in Movable(a) :
        LET after == G!PlayTurn(before, seat, a.cell, clock)
        IN  Turn(game, user, after.state) /\ Puts(game, after)
  BY DEF HandleTurn, Board
<1> DEFINE after == G!PlayTurn(before, seat, a.cell, clock)
<1>2. user \in Users /\ game \in Games /\ before.state = "Playing"
  BY DEF Movable, Board
<1>3. Turn(game, user, after.state) /\ Puts(game, after)
  BY <1>1
<1> HIDE DEF game, user
<1>4. KeepsSeats(before, after) /\ after.state \in Finals \cup {"Playing"}
  <2>1. KeepsSeats(before, after)
    BY <1>2, InPlay, TurnKeepsSeats
  <2> QED BY <1>2, <2>1, StaysKnown
<1> HIDE DEF after
<1>5. AnyNext
  BY <1>2, <1>3, <1>4 DEF AnyNext, AnyGameAction
<1> QED BY <1>2, <1>3, <1>4, <1>5, PlaysFits DEF Handles, Turn

LEMMA TimeoutHandled ==
  ASSUME TypeOK, BoardsAgree(work, playing), NEW a, HandleTimeout(a)
  PROVE  Handles
<1> DEFINE game == At(a.game_idx)
           before == playing.boards[game]
           after == G!ForfeitRound(before, clock)
<1>1. game \in Games /\ before.state = "Playing" /\ Timeout(game, after.state) /\ Puts(game, after)
  BY DEF HandleTimeout, Forfeitable, Board
<1> HIDE DEF game
<1>2. KeepsSeats(before, after) /\ after.state \in Finals \cup {"Playing"}
  <2>1. KeepsSeats(before, after)
    BY <1>1, InPlay, ForfeitKeepsSeats
  <2> QED BY <1>1, <2>1, StaysKnown
<1> HIDE DEF after
<1>3. AnyNext
  BY <1>1, <1>2 DEF AnyNext, AnyGameAction
<1> QED BY <1>1, <1>2, <1>3, PlaysFits DEF Handles, Timeout

---------------------------------------------------------------------------
(* Every step of the lane keeps the invariant, and is a step of the ledger *)

LEMMA ActionHandled ==
  ASSUME LaneInv, HandleOffBoard \/ HandleOnBoard
  PROVE  /\ Handles \/ tx.status = "Failed"
         /\ TodoFine'
         /\ UNCHANGED <<table, current, clock, clients, rank, cfg>>
<1> DEFINE a == Head(todo)
<1>1. TypeOK /\ TodoFine
  BY DEF LaneInv, MoneyInv, LedgerInv
<1>2. /\ todo # <<>> /\ todo' = Tail(todo)
      /\ UNCHANGED <<table, current, clock, clients, rank, cfg>>
      /\ \/ a.action_tag = "Init" /\ HandleInit(a)
         \/ a.action_tag = "Update" /\ HandleUpdate(a)
         \/ a.action_tag = "Transfer" /\ HandleTransfer(a)
         \/ a.action_tag = "UpdateUserLock" /\ HandleUpdateUserLock(a)
         \/ HandleDeposit(a)
         \/ a.action_tag = "Withdraw" /\ HandleWithdraw(a)
         \/ a.action_tag = "CreateGame" /\ HandleCreateGame(a)
         \/ HandleJoinGame(a) \/ HandleTurn(a) \/ HandleTimeout(a)
  <2>1. CASE HandleOffBoard
    BY <2>1 DEF HandleOffBoard, Action, HandleInit, HandleUpdate, HandleTransfer,
                HandleUpdateUserLock, HandleDeposit, HandleWithdraw, HandleCreateGame,
                HandleJoinGame
  <2>2. CASE HandleOnBoard
    BY <2>2 DEF HandleOnBoard, Action, HandleTurn, HandleTimeout
  <2> QED BY <2>1, <2>2
<1>3. TodoFine' /\ ArgumentsFine(a)
  <2>1. /\ IsRow(Tail(todo)) /\ Len(todo) \in Nat \ {0} /\ Len(Tail(todo)) = Len(todo) - 1
        /\ \A i \in 1..(Len(todo) - 1) : Tail(todo)[i] = todo[i + 1]
        /\ a = todo[1]
    BY <1>1, <1>2, RowShifts DEF TodoFine
  <2>2. ArgumentsFine(a)
    BY <1>1, <2>1 DEF TodoFine
  <2>3. \A i \in 1..Len(Tail(todo)) : ArgumentsFine(Tail(todo)[i])
    BY <1>1, <2>1 DEF TodoFine
  <2> QED BY <1>2, <2>1, <2>2, <2>3 DEF TodoFine
<1> HIDE DEF a
<1>4. ASSUME tx.status # "Failed" PROVE Handles
  <2>1. BoardsAgree(work, playing)
    BY <1>4 DEF LaneInv
  <2> QED BY <1>1, <1>2, <1>3, <2>1, InitHandled, UpdateHandled, TransferHandled,
             UserLockHandled, DepositHandled, WithdrawHandled, CreateHandled, JoinHandled,
             TurnHandled, TimeoutHandled
<1> QED BY <1>2, <1>3, <1>4

(* An action is handled only while its transaction runs, on the copy.      *)
LEMMA HandledRunning ==
  ASSUME HandleOffBoard \/ HandleOnBoard
  PROVE  tx.status = "Running" /\ store' = store
<1> DEFINE Runs == tx.status = "Running" /\ store' = store
<1>1. \A w : Applies(w) \/ Fails(w) => store' = store
  BY DEF Applies, Fails
<1>2. \A min, lock : InitConfig(min, lock) \/ UpdateConfig(min, lock) => Runs
  BY <1>1 DEF InitConfig, UpdateConfig, WriteConfig, Running
<1>3. \A source, dest, amount, lock : Transfer(source, dest, amount, lock) => Runs
  BY <1>1 DEF Transfer, Running
<1>4. \A u, lock : UpdateUserLock(u, lock) => Runs
  BY <1>1 DEF UpdateUserLock, Running
<1>5. \A u, output, lock : Deposit(u, output, lock) => Runs
  BY DEF Deposit, Running
<1>6. \A u, amount : Withdraw(u, amount) => Runs
  BY DEF Withdraw, Running
<1>7. \A u, game, stake : CreateGame(u, game, stake) => Runs
  BY <1>1 DEF CreateGame, Running
<1>8. \A u, game : JoinGame(game, u) => Runs
  BY <1>1 DEF JoinGame, Running
<1>9. \A game, state : Plays(game, state) => store' = store
  BY <1>1 DEF Plays, Settles
<1>10. \A u, game, state : Turn(game, u, state) \/ Timeout(game, state) => Runs
  BY <1>9 DEF Turn, Timeout, Running
<1> HIDE DEF Runs
<1>11. CASE HandleOffBoard
  BY <1>2, <1>3, <1>4, <1>5, <1>6, <1>7, <1>8, <1>11
     DEF HandleOffBoard, Action, HandleInit, HandleUpdate, HandleTransfer,
         HandleUpdateUserLock, HandleDeposit, HandleWithdraw, HandleCreateGame, HandleJoinGame,
         Runs
<1>12. CASE HandleOnBoard
  BY <1>10, <1>12 DEF HandleOnBoard, Action, HandleTurn, HandleTimeout, Runs
<1> QED BY <1>11, <1>12

LEMMA AcceptBegins ==
  ASSUME NEW carrier, CarrierFine(carrier), Accept(carrier)
  PROVE  AnyNext
<1> DEFINE decoded == Decoded(carrier)
           signers == SignersOf(carrier, decoded)
           access == AccessOf(carrier)
           outputs == [o \in Outputs |-> carrier.deposit]
<1>1. Begin(signers, access, outputs)
  BY DEF Accept
<1>2. signers \in SUBSET Signers
  <2>1. \A i \in DOMAIN decoded.signers :
          /\ carrier.access[decoded.signers[i].resource_idx + 1].id \in Users \cup {Config}
          /\ carrier.ix[decoded.signers[i].sig_offset].value \in Keys
    BY DEF CarrierFine, SignersFine
  <2> HIDE DEF decoded
  <2> QED BY <2>1 DEF SignersOf, Signers
<1>3. access \in [Resources -> Modes]
  <2>1. \A i \in DOMAIN carrier.access : carrier.access[i].access_type \in Modes
    BY DEF CarrierFine, AccessFine, Modes
  <2> QED BY <2>1 DEF AccessOf, Modes
<1>4. outputs \in [Outputs -> 0..U64_MAX]
  BY DEF CarrierFine, Amount
<1> HIDE DEF signers, access, outputs
<1> QED BY <1>1, <1>2, <1>3, <1>4 DEF AnyNext

LEMMA LaneInvHolds ==
  ASSUME LaneInv, [AnyNext]_vars, UNCHANGED <<rank, cfg>>, SentFine', FormFine', TodoFine',
         BoardsAgree(store', table'), tx'.status # "Failed" => BoardsAgree(work', playing')
  PROVE  LaneInv'
<1>1. MoneyInv'
  BY MoneyNext DEF LaneInv
<1>2. ScenarioFine'
  BY DEF LaneInv, ScenarioFine
<1>3. BoardsAgree(store, table)' /\ (tx.status # "Failed" => BoardsAgree(work, playing))'
  BY DEF BoardsAgree
<1> QED BY <1>1, <1>2, <1>3 DEF LaneInv

LEMMA LaneStep ==
  ASSUME LaneInv, [LaneNext]_laneVars
  PROVE  LaneInv' /\ [AnyNext]_vars
<1>1. /\ MoneyInv /\ LedgerInv /\ TypeOK /\ ScenarioFine /\ FormFine /\ SentFine /\ TodoFine
      /\ BoardsAgree(store, table)
      /\ tx.status # "Failed" => BoardsAgree(work, playing)
  BY DEF LaneInv, MoneyInv, LedgerInv
<1>2. ASSUME UNCHANGED <<vars, guest>>
      PROVE  /\ [AnyNext]_vars /\ TodoFine' /\ BoardsAgree(store', table')
             /\ tx'.status # "Failed" => BoardsAgree(work', playing')
  BY <1>1, <1>2 DEF vars, guest, TodoFine
<1>3. ASSUME UNCHANGED clients PROVE SentFine' /\ FormFine'
  BY <1>1, <1>3 DEF clients, SentFine, FormFine
<1>4. CASE UNCHANGED laneVars
  <2>1. UNCHANGED <<vars, guest>> /\ UNCHANGED clients /\ UNCHANGED <<rank, cfg>>
    BY <1>4 DEF laneVars
  <2> QED BY <1>2, <1>3, <2>1, LaneInvHolds
<1>5. CASE Clients
  <2>1. SentFine' /\ FormFine' /\ UNCHANGED <<vars, guest>> /\ UNCHANGED <<rank, cfg>>
    BY <1>5, ClientsKeep
  <2> QED BY <1>2, <2>1, LaneInvHolds
<1>6. ASSUME NEW carrier \in BagToSet(mempool), Accept(carrier)
      PROVE  LaneInv' /\ [AnyNext]_vars
  <2>1. CarrierFine(carrier)
    BY <1>1 DEF SentFine
  <2>2. [AnyNext]_vars
    BY <1>6, <2>1, AcceptBegins
  <2>3. /\ mempool' = mempool (-) SetToBag({carrier}) /\ todo' = Decoded(carrier).actions
        /\ UNCHANGED <<store, work, table, playing, form, rank, cfg>>
        /\ tx.status = "Idle"
    BY <1>6 DEF Accept, Begin
  <2>4. BagToSet(mempool') \subseteq BagToSet(mempool)
    BY <1>6, <2>3 DEF BagToSet, (-), SetToBag
  <2>5. SentFine' /\ FormFine'
    BY <1>1, <2>3, <2>4 DEF SentFine, FormFine
  <2>6. TodoFine'
    BY <2>1, <2>3, DecodedFine DEF TodoFine
  <2>7. BoardsAgree(store', table') /\ BoardsAgree(work', playing')
    BY <1>1, <2>3
  <2> QED BY <2>2, <2>3, <2>5, <2>6, <2>7, LaneInvHolds
<1>7. CASE HandleOffBoard \/ HandleOnBoard
  <2>1. /\ Handles /\ TodoFine' /\ store' = store
        /\ UNCHANGED table /\ UNCHANGED clients /\ UNCHANGED <<rank, cfg>>
    BY <1>7, ActionHandled, HandledRunning
  <2>2. AnyNext /\ (tx'.status # "Failed" => BoardsAgree(work', playing'))
    BY <2>1 DEF Handles
  <2>3. SentFine' /\ FormFine'
    BY <1>3, <2>1
  <2>4. BoardsAgree(store', table')
    BY <1>1, <2>1
  <2> QED BY <2>1, <2>2, <2>3, <2>4, LaneInvHolds
<1>8. CASE GuestRejects
  <2>1. /\ Reject /\ UNCHANGED guest /\ UNCHANGED clients /\ UNCHANGED <<rank, cfg>>
    BY <1>8 DEF GuestRejects
  <2>2. [AnyNext]_vars
    BY <2>1 DEF AnyNext
  <2>3. SentFine' /\ FormFine'
    BY <1>3, <2>1
  <2>4. TodoFine' /\ BoardsAgree(store', table')
    BY <1>1, <2>1 DEF guest, TodoFine, Reject, Fails
  <2>5. tx'.status = "Failed"
    BY <1>1, <2>1, FailsFits DEF Reject
  <2> QED BY <2>1, <2>2, <2>3, <2>4, <2>5, LaneInvHolds
<1>9. CASE GuestCommits
  <2>1. /\ todo = <<>> /\ Commit /\ table' = playing
        /\ UNCHANGED <<playing, todo>> /\ UNCHANGED clients /\ UNCHANGED <<rank, cfg>>
    BY <1>9 DEF GuestCommits
  <2>2. [AnyNext]_vars
    BY <2>1 DEF AnyNext
  <2>3. SentFine' /\ FormFine' /\ TodoFine'
    BY <1>1, <1>3, <2>1 DEF TodoFine
  <2>4. BoardsAgree(store', table') /\ BoardsAgree(work', playing')
    <3>1. tx.status = "Running" /\ store' = work /\ work' = work
      BY <2>1 DEF Commit
    <3> QED BY <1>1, <2>1, <3>1
  <2> QED BY <2>1, <2>2, <2>3, <2>4, LaneInvHolds
<1>10. CASE GuestRollsBack
  <2>1. /\ Rollback /\ playing' = table /\ todo' = <<>>
        /\ UNCHANGED table /\ UNCHANGED clients /\ UNCHANGED <<rank, cfg>>
    BY <1>10 DEF GuestRollsBack
  <2>2. [AnyNext]_vars
    BY <2>1 DEF AnyNext
  <2>3. SentFine' /\ FormFine'
    BY <1>3, <2>1
  <2>4. TodoFine'
    BY <2>1, EmptyRow DEF TodoFine
  <2>5. BoardsAgree(store', table') /\ BoardsAgree(work', playing')
    BY <1>1, <2>1 DEF Rollback
  <2> QED BY <2>1, <2>2, <2>3, <2>4, <2>5, LaneInvHolds
<1> QED BY <1>4, <1>5, <1>6, <1>7, <1>8, <1>9, <1>10 DEF LaneNext, Guest

LEMMA LaneStarts == LaneInit => LaneInv /\ Init
<1> SUFFICES ASSUME LaneInit PROVE LaneInv /\ Init
  OBVIOUS
<1>1. Init /\ MoneyInv
  BY MoneyInit DEF LaneInit
<1>2. ScenarioFine /\ FormFine /\ SentFine
  <2>1. BagToSet(mempool) = {}
    BY DEF LaneInit, BagToSet, EmptyBag, SetToBag
  <2> QED BY <2>1 DEF LaneInit, ScenarioFine, FormFine, SentFine
<1>3. TodoFine
  BY EmptyRow DEF LaneInit, TodoFine
<1>4. BoardsAgree(store, table) /\ BoardsAgree(work, playing)
  <2>1. store = Empty /\ work = Empty
    BY <1>1 DEF Init
  <2>2. \A g \in Games : Empty.games[g].state = "New"
    BY DEF Empty, NoGame
  <2>3. /\ "boards" \in DOMAIN table /\ DOMAIN table.boards = Games
        /\ \A g \in Games : table.boards[g].state = "New"
        /\ playing = table
    BY DEF LaneInit, NoBoard
  <2> QED BY <2>1, <2>2, <2>3 DEF BoardsAgree, BoardOf
<1> QED BY <1>1, <1>2, <1>3, <1>4 DEF LaneInv

(* In every state of the lane, every carrier on its way says to the guest  *)
(* what its sender means, and the boards and the ledger hold the same      *)
(* games (LaneInv).                                                        *)
THEOREM LaneInvariant == LaneSpec => []LaneInv
<1>1. LaneInv /\ [LaneNext]_laneVars => LaneInv'
  BY LaneStep
<1> QED BY <1>1, LaneStarts, PTL DEF LaneSpec

(* What the guest reads in a carrier is what its sender meant: every       *)
(* builder of encode.rs and ops.rs against the decoder of ix.rs and        *)
(* action.rs, over access lists sorted by ids in whatever order, for every *)
(* number of users, games and carriers.                                    *)
THEOREM LaneReads == LaneSpec => []MeantIsRead
<1>1. LaneInv => MeantIsRead
  BY UnderstoodIsRead DEF LaneInv, SentFine, CarrierFine
<1> QED BY <1>1, LaneInvariant, PTL

(* The lane is a ledger: whatever its clients send, its guest takes only   *)
(* steps AnySpec takes (run.rs, action.rs: decode, then apply).            *)
THEOREM LaneIsLedger == LaneSpec => AnySpec
<1>1. LaneInv /\ [LaneNext]_laneVars => [AnyNext]_vars
  BY LaneStep
<1> QED BY <1>1, LaneStarts, LaneInvariant, PTL DEF LaneSpec, AnySpec

(* So what is proved of the ledger holds of decoded carriers as well.      *)
THEOREM LaneLedger ==
  LaneSpec => /\ [](TypeOK /\ Conserved /\ CanSettle /\ StatsTell)
              /\ CurrentLockOpened /\ WritesAreDeclared
BY LaneIsLedger, AnyType, AnyConserves, AnySettles, AnyStats, AnyLocks, AnyWrites, PTL

=============================================================================
