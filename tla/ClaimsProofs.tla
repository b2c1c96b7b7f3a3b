---------------------------- MODULE ClaimsProofs ----------------------------
(***************************************************************************)
(* The claims of a family of any size, for every pool and purse: the       *)
(* arguments served for a leaf are valid, each leaf is paid once, and a    *)
(* row of the web client can be claimed.                                   *)
(***************************************************************************)
EXTENDS Claims, FoldProofs

---------------------------------------------------------------------------
(* The functions of PermissionTree satisfy their equations.                   *)

LEMMA WidthExists ==
  \E f : f = [d \in Nat |-> IF d = 0 THEN 1 ELSE 2 * f[d - 1]]
<1> DEFINE Widths(f, n) == f = [d \in 0..n |-> IF d = 0 THEN 1 ELSE 2 * f[d - 1]]
           Good == { n \in Nat : \E f : Widths(f, n) }
<1>1. 0 \in Good
  <2> DEFINE f == [d \in 0..0 |-> 1]
  <2>1. Widths(f, 0)
    OBVIOUS
  <2> HIDE DEF f, Widths
  <2> QED BY <2>1
<1>2. ASSUME NEW n \in Nat, n \in Good PROVE n + 1 \in Good
  <2>1. PICK f : Widths(f, n)
    BY <1>2
  <2>2. f[0] = 1 /\ \A d \in 1..n : f[d] = 2 * f[d - 1]
    BY <2>1
  <2> DEFINE g == [d \in 0..(n + 1) |-> IF d = n + 1 THEN 2 * f[n] ELSE f[d]]
  <2>3. \A d \in 0..n : g[d] = f[d]
    OBVIOUS
  <2>4. g[n + 1] = 2 * f[n]
    OBVIOUS
  <2>5. g = [d \in 0..(n + 1) |-> g[d]]
    OBVIOUS
  <2> HIDE DEF g, Widths
  <2>6. ASSUME NEW d \in 0..(n + 1) PROVE g[d] = IF d = 0 THEN 1 ELSE 2 * g[d - 1]
    <3>1. CASE d = 0
      BY <2>2, <2>3, <3>1
    <3>2. CASE d \in 1..n
      <4>1. d - 1 \in 0..n /\ d \in 0..n /\ d # 0
        BY <3>2
      <4> QED BY <2>2, <2>3, <3>2, <4>1
    <3>3. CASE d = n + 1
      <4>1. d - 1 = n /\ n \in 0..n /\ d # 0
        BY <3>3
      <4> QED BY <2>3, <2>4, <3>3, <4>1
    <3> QED BY <3>1, <3>2, <3>3
  <2>7. Widths(g, n + 1)
    BY <2>5, <2>6 DEF Widths
  <2> QED BY <2>7
<1> HIDE DEF Good
<1>3. \A n \in Nat : n \in Good
  BY <1>1, <1>2, NatSetInduction
<1> USE DEF Good
<1> DEFINE at(n) == CHOOSE f : Widths(f, n)
<1>4. ASSUME NEW n \in Nat PROVE Widths(at(n), n)
  <2> HIDE DEF Widths
  <2> QED BY <1>3
<1>5. ASSUME NEW n \in Nat
      PROVE  at(n)[0] = 1 /\ \A d \in 1..n : at(n)[d] = 2 * at(n)[d - 1]
  <2> HIDE DEF at
  <2> QED BY <1>4
<1> HIDE DEF at, Widths, Good
<1>6. ASSUME NEW n \in Nat, NEW d \in 0..n PROVE at(n)[d] = at(d)[d]
  <2> DEFINE Same == { k \in Nat : k <= d => at(n)[k] = at(d)[k] }
  <2>1. 0 \in Same
    BY <1>5
  <2>2. ASSUME NEW k \in Nat, k \in Same PROVE k + 1 \in Same
    <3> SUFFICES ASSUME k + 1 <= d PROVE at(n)[k + 1] = at(d)[k + 1]
      OBVIOUS
    <3>1. k + 1 \in 1..n /\ k + 1 \in 1..d /\ (k + 1) - 1 = k /\ d \in Nat
      OBVIOUS
    <3>2. at(n)[k] = at(d)[k]
      BY <2>2
    <3> QED BY <1>5, <3>1, <3>2
  <2>3. d \in Same
    <3> HIDE DEF Same
    <3>1. d \in Nat
      OBVIOUS
    <3> QED BY <2>1, <2>2, <3>1, NatSetInduction
  <2> QED BY <2>3
<1> DEFINE w == [d \in Nat |-> at(d)[d]]
<1>7. ASSUME NEW d \in Nat PROVE w[d] = IF d = 0 THEN 1 ELSE 2 * w[d - 1]
  <2>1. CASE d = 0
    BY <1>5, <2>1
  <2>2. CASE d # 0
    <3>1. d - 1 \in Nat /\ d \in 1..d /\ d - 1 \in 0..d
      BY <2>2
    <3>2. at(d)[d] = 2 * at(d)[d - 1]
      BY <1>5, <3>1
    <3>3. at(d)[d - 1] = at(d - 1)[d - 1]
      BY <1>6, <3>1
    <3> QED BY <2>2, <3>1, <3>2, <3>3
  <2> QED BY <2>1, <2>2
<1>8. w = [d \in Nat |-> w[d]]
  OBVIOUS
<1> HIDE DEF w
<1> QED BY <1>7, <1>8

LEMMA WidthDef ==
  /\ Width[0] = 1
  /\ \A d \in Nat : Width[d + 1] = 2 * Width[d]
<1>1. Width = [d \in Nat |-> IF d = 0 THEN 1 ELSE 2 * Width[d - 1]]
  BY WidthExists DEF Width
<1> HIDE DEF Width
<1>2. ASSUME NEW d \in Nat PROVE Width[d + 1] = 2 * Width[d]
  <2>1. d + 1 \in Nat /\ d + 1 # 0 /\ (d + 1) - 1 = d
    OBVIOUS
  <2> QED BY <1>1, <2>1
<1> QED BY <1>1, <1>2

LEMMA WidthGrows == \A d \in Nat : Width[d] \in Nat /\ Width[d] > d
<1> DEFINE Good == { d \in Nat : Width[d] \in Nat /\ Width[d] > d }
<1>1. 0 \in Good
  BY WidthDef
<1>2. \A d \in Nat : d \in Good => d + 1 \in Good
  BY WidthDef
<1> HIDE DEF Good
<1>3. \A d \in Nat : d \in Good
  BY <1>1, <1>2, NatSetInduction
<1> QED BY <1>3 DEF Good

LEMMA DepthDef ==
  ASSUME Len(leaves) \in Nat \ {0}
  PROVE  Depth \in Nat /\ Len(leaves) <= Width[Depth]
<1> DEFINE n == Len(leaves)
           Deep == { d \in Nat : d # 0 /\ n <= Width[d] }
           Fits(d) == n <= Width[d] /\ (d = 1 \/ n > Width[d - 1])
<1>1. n \in Deep
  BY WidthGrows
<1>2. PICK d \in Deep : \A m \in Deep : d <= m
  BY <1>1, LeastNat
<1>3. d \in 1..n
  BY <1>1, <1>2
<1>4. d = 1 \/ n > Width[d - 1]
  <2> SUFFICES ASSUME d # 1, ~(n > Width[d - 1]) PROVE FALSE
    OBVIOUS
  <2>1. d - 1 \in Nat /\ d - 1 # 0
    BY <1>3
  <2>2. Width[d - 1] \in Nat
    BY <2>1, WidthGrows
  <2>3. d - 1 \in Deep
    BY <2>1, <2>2
  <2> QED BY <1>2, <2>3
<1>5. Fits(d)
  BY <1>2, <1>4
<1>6. Depth = CHOOSE e \in 1..n : Fits(e)
  BY DEF Depth, RequiredDepth
<1> HIDE DEF Fits
<1>7. Depth \in 1..n /\ Fits(Depth)
  BY <1>3, <1>5, <1>6
<1> QED BY <1>7 DEF Fits

LEMMA PathDef ==
  ASSUME Depth \in Nat, NEW i
  PROVE  /\ Path(i)[0] = i
         /\ \A d \in 1..Depth : Path(i)[d] = Path(i)[d - 1] \div 2
<1> DEFINE next(f, d) == f[d - 1] \div 2
           Below(f, m) == f = [d \in 0..m |-> IF d = 0 THEN i ELSE next(f, d)]
           Good == { m \in Nat : \E f : Below(f, m) }
<1>1. 0 \in Good
  <2> DEFINE f == [d \in 0..0 |-> i]
  <2>1. Below(f, 0)
    OBVIOUS
  <2> HIDE DEF f, Below
  <2> QED BY <2>1
<1>2. ASSUME NEW m \in Nat, m \in Good PROVE m + 1 \in Good
  <2>1. PICK f : Below(f, m)
    BY <1>2
  <2> DEFINE g == [d \in 0..(m + 1) |-> IF d <= m THEN f[d] ELSE next(f, d)]
  <2>2. \A d \in 0..m : g[d] = f[d]
    OBVIOUS
  <2>3. \A d \in 1..(m + 1) : next(g, d) = next(f, d)
    <3> TAKE d \in 1..(m + 1)
    <3>1. d - 1 \in 0..m
      OBVIOUS
    <3>2. g[d - 1] = f[d - 1]
      BY <2>2, <3>1
    <3> QED BY <3>2
  <2>4. g[m + 1] = next(f, m + 1) /\ g = [d \in 0..(m + 1) |-> g[d]]
    OBVIOUS
  <2> HIDE DEF next, g
  <2>5. \A d \in 0..m : f[d] = IF d = 0 THEN i ELSE next(f, d)
    BY <2>1
  <2>6. \A d \in 0..(m + 1) : g[d] = IF d = 0 THEN i ELSE next(g, d)
    <3> TAKE d \in 0..(m + 1)
    <3>1. CASE d \in 0..m
      BY <2>2, <2>3, <2>5, <3>1
    <3>2. CASE d = m + 1
      <4>1. d # 0 /\ d \in 1..(m + 1)
        BY <3>2
      <4> QED BY <2>3, <2>4, <3>2, <4>1
    <3> QED BY <3>1, <3>2
  <2>7. Below(g, m + 1)
    BY <2>4, <2>6
  <2> HIDE DEF Below
  <2> QED BY <2>7
<1>3. Depth \in Good
  <2> HIDE DEF Good
  <2> QED BY <1>1, <1>2, NatSetInduction
<1>4. Path(i) = CHOOSE f : Below(f, Depth)
  BY DEF Path
<1>5. Below(Path(i), Depth)
  <2> HIDE DEF Below
  <2> QED BY <1>3, <1>4
<1> HIDE DEF next
<1>6. Path(i)[0] = i /\ \A d \in 1..Depth : Path(i)[d] = next(Path(i), d)
  BY <1>5
<1> QED BY <1>6 DEF next

LEMMA PathInTree ==
  ASSUME Depth \in Nat, NEW i \in 0..(Width[Depth] - 1)
  PROVE  \A d \in 0..Depth : Path(i)[d] \in 0..(Width[Depth - d] - 1)
<1> DEFINE Good == { d \in Nat : d <= Depth => Path(i)[d] \in 0..(Width[Depth - d] - 1) }
<1>1. 0 \in Good
  BY PathDef
<1>2. ASSUME NEW d \in Nat, d \in Good PROVE d + 1 \in Good
  <2> SUFFICES ASSUME d + 1 <= Depth
               PROVE  Path(i)[d + 1] \in 0..(Width[Depth - (d + 1)] - 1)
    OBVIOUS
  <2> DEFINE e == Depth - (d + 1)
  <2>1. e \in Nat /\ Depth - d = e + 1
    OBVIOUS
  <2>2. Width[e + 1] = 2 * Width[e] /\ Width[e] \in Nat
    BY <2>1, WidthDef, WidthGrows
  <2>3. Path(i)[d] \in 0..(2 * Width[e] - 1)
    BY <1>2, <2>1, <2>2
  <2>4. Path(i)[d + 1] = Path(i)[d] \div 2
    <3>1. d + 1 \in 1..Depth /\ (d + 1) - 1 = d
      OBVIOUS
    <3> QED BY <3>1, PathDef
  <2> HIDE DEF e
  <2>5. Path(i)[d + 1] \in 0..(Width[e] - 1)
    BY <2>2, <2>3, <2>4
  <2> QED BY <2>5 DEF e
<1> HIDE DEF Good
<1>3. \A d \in Nat : d \in Good
  BY <1>1, <1>2, NatSetInduction
<1> QED BY <1>3 DEF Good

LEMMA TreeDef ==
  ASSUME Depth \in Nat, NEW slots
  PROVE  /\ TreeOver(slots)[0] = slots
         /\ \A d \in 1..Depth :
              TreeOver(slots)[d] =
                [i \in 0..(Width[Depth - d] - 1) |->
                   HashBranch(TreeOver(slots)[d - 1][2 * i], TreeOver(slots)[d - 1][2 * i + 1])]
<1> DEFINE next(f, d) == [i \in 0..(Width[Depth - d] - 1) |->
                            HashBranch(f[d - 1][2 * i], f[d - 1][2 * i + 1])]
           Below(f, m) == f = [d \in 0..m |-> IF d = 0 THEN slots ELSE next(f, d)]
           Good == { m \in Nat : \E f : Below(f, m) }
<1>1. 0 \in Good
  <2> DEFINE f == [d \in 0..0 |-> slots]
  <2>1. Below(f, 0)
    <3> HIDE DEF next
    <3> QED OBVIOUS
  <2> HIDE DEF f, Below
  <2> QED BY <2>1
<1>2. ASSUME NEW m \in Nat, m \in Good PROVE m + 1 \in Good
  <2>1. PICK f : Below(f, m)
    BY <1>2
  <2> DEFINE g == [d \in 0..(m + 1) |-> IF d <= m THEN f[d] ELSE next(f, d)]
  <2>4. g[m + 1] = next(f, m + 1) /\ g = [d \in 0..(m + 1) |-> g[d]]
    <3> HIDE DEF next
    <3> QED OBVIOUS
  <2>2. \A d \in 0..m : g[d] = f[d]
    <3> HIDE DEF next
    <3> QED OBVIOUS
  <2> HIDE DEF g
  <2>3. \A d \in 1..(m + 1) : next(g, d) = next(f, d)
    <3> TAKE d \in 1..(m + 1)
    <3>1. d - 1 \in 0..m
      OBVIOUS
    <3>2. g[d - 1] = f[d - 1]
      BY <2>2, <3>1
    <3> QED BY <3>2
  <2> HIDE DEF next
  <2>5. \A d \in 0..m : f[d] = IF d = 0 THEN slots ELSE next(f, d)
    BY <2>1
  <2>6. \A d \in 0..(m + 1) : g[d] = IF d = 0 THEN slots ELSE next(g, d)
    <3> TAKE d \in 0..(m + 1)
    <3>1. CASE d \in 0..m
      BY <2>2, <2>3, <2>5, <3>1
    <3>2. CASE d = m + 1
      <4>1. d # 0 /\ d \in 1..(m + 1)
        BY <3>2
      <4> QED BY <2>3, <2>4, <3>2, <4>1
    <3> QED BY <3>1, <3>2
  <2>7. Below(g, m + 1)
    BY <2>4, <2>6
  <2> HIDE DEF Below
  <2> QED BY <2>7
<1>3. Depth \in Good
  <2> HIDE DEF Good
  <2> QED BY <1>1, <1>2, NatSetInduction
<1>4. TreeOver(slots) = CHOOSE f : Below(f, Depth)
  BY DEF TreeOver
<1>5. Below(TreeOver(slots), Depth)
  <2> HIDE DEF Below
  <2> QED BY <1>3, <1>4
<1> HIDE DEF next
<1>6. /\ TreeOver(slots)[0] = slots
      /\ \A d \in 1..Depth : TreeOver(slots)[d] = next(TreeOver(slots), d)
  BY <1>5
<1> QED BY <1>6 DEF next

(* The hash of a branch on the path, from the one below and its sibling.     *)
Above(place, hash, sibling) ==
  IF place % 2 = 0 THEN HashBranch(hash, sibling) ELSE HashBranch(sibling, hash)

LEMMA FoldedDef ==
  ASSUME Depth \in Nat, NEW i, NEW slot, NEW siblings
  PROVE  \E c : /\ c[0] = slot
                /\ \A d \in 1..Depth : c[d] = Above(Path(i)[d - 1], c[d - 1], siblings[d])
                /\ Folded(i, slot, siblings) = c[Depth]
<1> DEFINE next(f, d) == IF Path(i)[d - 1] % 2 = 0 THEN HashBranch(f[d - 1], siblings[d])
                         ELSE HashBranch(siblings[d], f[d - 1])
           Below(f, m) == f = [d \in 0..m |-> IF d = 0 THEN slot ELSE next(f, d)]
           Good == { m \in Nat : \E f : Below(f, m) }
<1>1. 0 \in Good
  <2> DEFINE f == [d \in 0..0 |-> slot]
  <2>1. Below(f, 0)
    <3> HIDE DEF next
    <3> QED OBVIOUS
  <2> HIDE DEF f, Below
  <2> QED BY <2>1
<1>2. ASSUME NEW m \in Nat, m \in Good PROVE m + 1 \in Good
  <2>1. PICK f : Below(f, m)
    BY <1>2
  <2> DEFINE g == [d \in 0..(m + 1) |-> IF d <= m THEN f[d] ELSE next(f, d)]
  <2>4. g[m + 1] = next(f, m + 1) /\ g = [d \in 0..(m + 1) |-> g[d]]
    <3> HIDE DEF next
    <3> QED OBVIOUS
  <2>2. \A d \in 0..m : g[d] = f[d]
    <3> HIDE DEF next
    <3> QED OBVIOUS
  <2> HIDE DEF g
  <2>3. \A d \in 1..(m + 1) : next(g, d) = next(f, d)
    <3> TAKE d \in 1..(m + 1)
    <3>1. d - 1 \in 0..m
      OBVIOUS
    <3>2. g[d - 1] = f[d - 1]
      BY <2>2, <3>1
    <3> QED BY <3>2
  <2> HIDE DEF next
  <2>5. \A d \in 0..m : f[d] = IF d = 0 THEN slot ELSE next(f, d)
    BY <2>1
  <2>6. \A d \in 0..(m + 1) : g[d] = IF d = 0 THEN slot ELSE next(g, d)
    <3> TAKE d \in 0..(m + 1)
    <3>1. CASE d \in 0..m
      BY <2>2, <2>3, <2>5, <3>1
    <3>2. CASE d = m + 1
      <4>1. d # 0 /\ d \in 1..(m + 1)
        BY <3>2
      <4> QED BY <2>3, <2>4, <3>2, <4>1
    <3> QED BY <3>1, <3>2
  <2>7. Below(g, m + 1)
    BY <2>4, <2>6
  <2> HIDE DEF Below
  <2> QED BY <2>7
<1>3. Depth \in Good
  <2> HIDE DEF Good
  <2> QED BY <1>1, <1>2, NatSetInduction
<1> DEFINE c == CHOOSE f : Below(f, Depth)
<1>4. Folded(i, slot, siblings) = c[Depth]
  BY DEF Folded
<1>5. Below(c, Depth)
  <2> HIDE DEF Below
  <2> QED BY <1>3
<1> HIDE DEF next, c
<1>6. c[0] = slot /\ \A d \in 1..Depth : c[d] = next(c, d)
  BY <1>5
<1>7. \A d \in 1..Depth : c[d] = Above(Path(i)[d - 1], c[d - 1], siblings[d])
  BY <1>6 DEF next, Above
<1> QED BY <1>4, <1>6, <1>7

---------------------------------------------------------------------------
(* T is the row S with another hash in slot i.                               *)
Replaces(T, S, i, slot) ==
  T[i] = slot /\ \A j \in 0..(Width[Depth] - 1) : j # i => T[j] = S[j]

(* The siblings of the path of position i in the tree over S.                *)
Beside(S, i) == [d \in 1..Depth |-> TreeOver(S)[d - 1][Sibling(Path(i)[d - 1])]]

(* Folding a slot over the siblings of its path gives the root of the tree   *)
(* with that slot replaced.                                                  *)
LEMMA FoldClimbs ==
  ASSUME Depth \in Nat, NEW S, NEW T, NEW i \in 0..(Width[Depth] - 1), NEW slot, Replaces(T, S, i, slot)
  PROVE  Folded(i, slot, Beside(S, i)) = TreeOver(T)[Depth][0]
<1> DEFINE old == TreeOver(S)
           new == TreeOver(T)
           siblings == Beside(S, i)
           Joined(d) == \A j \in 0..(Width[Depth - d] - 1) : j # Path(i)[d] => new[d][j] = old[d][j]
<1>1. PICK c : /\ c[0] = slot
               /\ \A d \in 1..Depth : c[d] = Above(Path(i)[d - 1], c[d - 1], siblings[d])
               /\ Folded(i, slot, siblings) = c[Depth]
  BY FoldedDef
<1> DEFINE Good == { d \in Nat : d <= Depth => new[d][Path(i)[d]] = c[d] /\ Joined(d) }
<1>2. /\ old[0] = S /\ new[0] = T
      /\ \A d \in 1..Depth :
           /\ old[d] = [j \in 0..(Width[Depth - d] - 1) |->
                          HashBranch(old[d - 1][2 * j], old[d - 1][2 * j + 1])]
           /\ new[d] = [j \in 0..(Width[Depth - d] - 1) |->
                          HashBranch(new[d - 1][2 * j], new[d - 1][2 * j + 1])]
  BY TreeDef
<1> HIDE DEF old, new, siblings
<1>3. 0 \in Good
  BY <1>1, <1>2, PathDef DEF Replaces
<1>4. ASSUME NEW d \in Nat, d \in Good PROVE d + 1 \in Good
  <2> SUFFICES ASSUME d + 1 <= Depth
               PROVE  new[d + 1][Path(i)[d + 1]] = c[d + 1] /\ Joined(d + 1)
    OBVIOUS
  <2> DEFINE e == Depth - (d + 1)
             p == Path(i)[d]
             W == Width[e]
  <2>1. e \in Nat /\ Depth - d = e + 1 /\ d + 1 \in 1..Depth /\ (d + 1) - 1 = d /\ d \in 0..Depth
    OBVIOUS
  <2>2. Width[Depth - d] = 2 * W /\ W \in Nat
    BY <2>1, WidthDef, WidthGrows
  <2>3. p \in 0..(2 * W - 1)
    BY <2>1, <2>2, PathInTree
  <2>4. Path(i)[d + 1] = p \div 2
    BY <2>1, PathDef
  <2>5. /\ \A j \in 0..(W - 1) : old[d + 1][j] = HashBranch(old[d][2 * j], old[d][2 * j + 1])
        /\ \A j \in 0..(W - 1) : new[d + 1][j] = HashBranch(new[d][2 * j], new[d][2 * j + 1])
    <3>1. /\ old[d + 1] = [j \in 0..(W - 1) |-> HashBranch(old[d][2 * j], old[d][2 * j + 1])]
          /\ new[d + 1] = [j \in 0..(W - 1) |-> HashBranch(new[d][2 * j], new[d][2 * j + 1])]
      BY <1>2, <2>1
    <3> HIDE DEF W
    <3> QED BY <3>1
  <2>6. new[d][p] = c[d] /\ \A j \in 0..(2 * W - 1) : j # p => new[d][j] = old[d][j]
    BY <1>4, <2>1, <2>2
  <2>7. c[d + 1] = Above(p, c[d], old[d][Sibling(p)])
    <3>1. siblings[d + 1] = old[d][Sibling(p)]
      BY <2>1 DEF siblings, Beside, old
    <3> QED BY <1>1, <2>1, <3>1
  <2> HIDE DEF e, p, W
  <2>8. \A j \in 0..(W - 1) : 2 * j \in 0..(2 * W - 1) /\ 2 * j + 1 \in 0..(2 * W - 1)
    BY <2>2
  <2>9. p \div 2 \in 0..(W - 1)
    BY <2>2, <2>3
  <2>10. new[d + 1][p \div 2] = c[d + 1]
    <3>1. CASE p % 2 = 0
      <4>1. 2 * (p \div 2) = p /\ 2 * (p \div 2) + 1 = Sibling(p) /\ Sibling(p) # p
        BY <2>3, <3>1 DEF Sibling
      <4> QED BY <2>5, <2>6, <2>7, <2>8, <2>9, <3>1, <4>1 DEF Above
    <3>2. CASE p % 2 # 0
      <4>1. 2 * (p \div 2) = Sibling(p) /\ 2 * (p \div 2) + 1 = p /\ Sibling(p) # p
        BY <2>3, <3>2 DEF Sibling
      <4> QED BY <2>5, <2>6, <2>7, <2>8, <2>9, <3>2, <4>1 DEF Above
    <3> QED BY <3>1, <3>2
  <2>11. ASSUME NEW j \in 0..(W - 1), j # p \div 2 PROVE new[d + 1][j] = old[d + 1][j]
    <3>1. 2 * j # p /\ 2 * j + 1 # p
      BY <2>2, <2>3, <2>11
    <3> QED BY <2>5, <2>6, <2>8, <3>1
  <2> QED BY <2>4, <2>10, <2>11 DEF e, W
<1>5. Depth \in Good
  <2> HIDE DEF Good
  <2> QED BY <1>3, <1>4, NatSetInduction
<1>6. Path(i)[Depth] = 0
  <2>1. Depth \in 0..Depth /\ Depth - Depth = 0 /\ Width[0] = 1
    BY WidthDef
  <2>2. Path(i)[Depth] \in 0..(Width[0] - 1)
    BY <2>1, PathInTree
  <2> QED BY <2>1, <2>2
<1> QED BY <1>1, <1>5, <1>6 DEF new, siblings

LEMMA RootIsOverSlots ==
  ASSUME NEW gone
  PROVE  RootWithout(gone) = TreeOver(Slots(gone))[Depth][0]
<1> DEFINE slots == [i \in 0..(Width[Depth] - 1) |->
                       IF i < Len(leaves) /\ i \notin gone THEN HashLeaf(leaves[i + 1])
                       ELSE HashEmpty]
<1>1. slots = Slots(gone)
  BY DEF Slots, Positions
<1>2. RootWithout(gone) = TreeOver(slots)[Depth][0]
  BY DEF RootWithout
<1> QED BY <1>1, <1>2

(* A leaf that is left folds to the root over what is left, and a claimed    *)
(* one to the root after its claim (exit_views).                             *)
LEMMA LeafFolds ==
  ASSUME Len(leaves) \in Nat \ {0}, NEW gone, NEW i \in Positions \ gone
  PROVE  /\ Folded(i, HashLeaf(leaves[i + 1]), Siblings(gone, i)) = RootWithout(gone)
         /\ FullClaimRoot(gone, i) = RootWithout(gone \cup {i})
<1>1. Depth \in Nat /\ Len(leaves) <= Width[Depth] /\ Width[Depth] \in Nat
  BY DepthDef, WidthGrows
<1>2. i \in 0..(Width[Depth] - 1)
  BY <1>1 DEF Positions
<1>3. Siblings(gone, i) = Beside(Slots(gone), i)
  BY DEF Siblings, Levels, Beside
<1>4. Slots(gone)[i] = HashLeaf(leaves[i + 1])
  BY <1>2 DEF Slots
<1>5. /\ Slots(gone \cup {i})[i] = HashEmpty
      /\ \A j \in 0..(Width[Depth] - 1) : j # i => Slots(gone \cup {i})[j] = Slots(gone)[j]
  BY <1>2 DEF Slots
<1> DEFINE S == Slots(gone)
           T == Slots(gone \cup {i})
           siblings == Siblings(gone, i)
           leaf == HashLeaf(leaves[i + 1])
           empty == HashEmpty
<1> HIDE DEF S, T, siblings, leaf, empty
<1>6. Folded(i, leaf, siblings) = TreeOver(S)[Depth][0]
  <2>1. Replaces(S, S, i, leaf) /\ siblings = Beside(S, i)
    BY <1>3, <1>4 DEF S, siblings, leaf, Replaces
  <2> QED BY <1>1, <1>2, <2>1, FoldClimbs
<1>7. Folded(i, empty, siblings) = TreeOver(T)[Depth][0]
  <2>1. Replaces(T, S, i, empty) /\ siblings = Beside(S, i)
    BY <1>3, <1>5 DEF S, T, siblings, empty, Replaces
  <2> QED BY <1>1, <1>2, <2>1, FoldClimbs
<1> QED BY <1>6, <1>7, RootIsOverSlots DEF FullClaimRoot, S, T, siblings, leaf, empty

(* Roots over different leaves differ.                                       *)
LEMMA RootsTell ==
  ASSUME Len(leaves) \in Nat \ {0}, NEW g, NEW h, RootWithout(g) = RootWithout(h)
  PROVE  \A i \in Positions : i \in g <=> i \in h
<1> DEFINE one == TreeOver(Slots(g))
           two == TreeOver(Slots(h))
           Good == { d \in Nat : d <= Depth =>
                       \A j \in 0..(Width[d] - 1) : one[Depth - d][j] = two[Depth - d][j] }
<1>1. Depth \in Nat /\ Len(leaves) <= Width[Depth] /\ Width[Depth] \in Nat
  BY DepthDef, WidthGrows
<1>2. /\ one[0] = Slots(g) /\ two[0] = Slots(h)
      /\ \A d \in 1..Depth :
           /\ one[d] = [j \in 0..(Width[Depth - d] - 1) |->
                          HashBranch(one[d - 1][2 * j], one[d - 1][2 * j + 1])]
           /\ two[d] = [j \in 0..(Width[Depth - d] - 1) |->
                          HashBranch(two[d - 1][2 * j], two[d - 1][2 * j + 1])]
  BY <1>1, TreeDef
<1>3. one[Depth][0] = two[Depth][0]
  BY RootIsOverSlots
<1> HIDE DEF one, two
<1>4. 0 \in Good
  <2>1. 0..(Width[0] - 1) = {0} /\ Depth - 0 = Depth
    BY <1>1, WidthDef
  <2> QED BY <1>3, <2>1
<1>5. ASSUME NEW d \in Nat, d \in Good PROVE d + 1 \in Good
  <2> SUFFICES ASSUME d + 1 <= Depth, NEW j \in 0..(Width[d + 1] - 1)
               PROVE  one[Depth - (d + 1)][j] = two[Depth - (d + 1)][j]
    OBVIOUS
  <2> DEFINE e == Depth - d
             k == j \div 2
             W == Width[d]
  <2>1. e \in 1..Depth /\ Depth - e = d /\ d <= Depth /\ Depth - (d + 1) = e - 1
    BY <1>1
  <2>2. W \in Nat /\ j \in 0..(2 * W - 1)
    BY WidthDef, WidthGrows
  <2>3. \A m \in 0..(W - 1) : /\ one[e][m] = HashBranch(one[e - 1][2 * m], one[e - 1][2 * m + 1])
                              /\ two[e][m] = HashBranch(two[e - 1][2 * m], two[e - 1][2 * m + 1])
    BY <1>2, <2>1
  <2>4. \A m \in 0..(W - 1) : one[e][m] = two[e][m]
    BY <1>5, <2>1
  <2> HIDE DEF W, e
  <2>5. k \in 0..(W - 1) /\ (j = 2 * k \/ j = 2 * k + 1)
    BY <2>2
  <2> HIDE DEF k
  <2>6. HashBranch(one[e - 1][2 * k], one[e - 1][2 * k + 1])
          = HashBranch(two[e - 1][2 * k], two[e - 1][2 * k + 1])
    BY <2>3, <2>4, <2>5
  <2>7. /\ one[e - 1][2 * k] = two[e - 1][2 * k]
        /\ one[e - 1][2 * k + 1] = two[e - 1][2 * k + 1]
    BY <2>6 DEF HashBranch
  <2>8. one[e - 1][j] = two[e - 1][j]
    BY <2>5, <2>7
  <2> QED BY <2>1, <2>8 DEF e
<1>6. Depth \in Good
  <2> HIDE DEF Good
  <2> QED BY <1>1, <1>4, <1>5, NatSetInduction
<1>7. \A j \in 0..(Width[Depth] - 1) : Slots(g)[j] = Slots(h)[j]
  <2>1. Depth <= Depth /\ Depth - Depth = 0
    BY <1>1
  <2> QED BY <1>2, <1>6, <2>1
<1>8. ASSUME NEW i \in Positions PROVE i \in g <=> i \in h
  <2>1. i \in 0..(Width[Depth] - 1)
    BY <1>1 DEF Positions
  <2>2. /\ Slots(g)[i] = IF i \in g THEN HashEmpty ELSE HashLeaf(leaves[i + 1])
        /\ Slots(h)[i] = IF i \in h THEN HashEmpty ELSE HashLeaf(leaves[i + 1])
    BY <2>1 DEF Slots
  <2>3. HashEmpty # HashLeaf(leaves[i + 1])
    BY DEF HashEmpty, HashLeaf
  <2> QED BY <1>7, <2>1, <2>2, <2>3
<1> QED BY <1>8

(* The family does not change.                                               *)
LEMMA TreeStays ==
  ASSUME leaves' = leaves
  PROVE  Positions' = Positions /\ \A g : RootWithout(g)' = RootWithout(g)
BY DEF Positions, RootWithout, TreeOver, Depth, RequiredDepth

---------------------------------------------------------------------------
(* Amounts *)

Amounts == [u \in Utxos |-> u.amount]

LEMMA UtxoSum ==
  ASSUME NEW S \in SUBSET Utxos, IsFiniteSet(S)
  PROVE  Sum(S) = SumFunctionOnSet(Amounts, S) /\ Sum(S) \in Nat
<1> DEFINE f == [u \in S |-> u.amount]
<1>1. \A u \in S : Amounts[u] \in Nat /\ f[u] = Amounts[u]
  BY DEF Utxos, Amounts
<1> HIDE DEF f
<1>2. SumFunctionOnSet(f, S) = SumFunctionOnSet(Amounts, S)
  BY <1>1, SumSame
<1>3. SumFunctionOnSet(Amounts, S) \in Nat
  BY <1>1, SumNat
<1> QED BY <1>2, <1>3 DEF Sum, f

LEMMA UtxosLeave ==
  ASSUME NEW S \in SUBSET Utxos, IsFiniteSet(S), NEW D \in SUBSET S
  PROVE  /\ IsFiniteSet(S \ D) /\ IsFiniteSet(D)
         /\ Sum(S) \in Nat /\ Sum(D) \in Nat
         /\ Sum(S \ D) = Sum(S) - Sum(D)
<1>1. IsFiniteSet(S \ D) /\ IsFiniteSet(D)
  BY FS_Subset
<1>2. \A u \in S : Amounts[u] \in Int
  BY DEF Utxos, Amounts
<1>3. SumFunctionOnSet(Amounts, S) = SumFunctionOnSet(Amounts, D) + SumFunctionOnSet(Amounts, S \ D)
  BY <1>2, SumSplit
<1>4. /\ Sum(S) = SumFunctionOnSet(Amounts, S) /\ Sum(S) \in Nat
      /\ Sum(D) = SumFunctionOnSet(Amounts, D) /\ Sum(D) \in Nat
      /\ Sum(S \ D) = SumFunctionOnSet(Amounts, S \ D) /\ Sum(S \ D) \in Nat
  <2>1. S \ D \in SUBSET Utxos /\ D \in SUBSET Utxos
    OBVIOUS
  <2> QED BY <1>1, <2>1, UtxoSum
<1> QED BY <1>1, <1>3, <1>4

LEMMA UtxoJoins ==
  ASSUME NEW S \in SUBSET Utxos, IsFiniteSet(S), NEW u \in Utxos, u \notin S
  PROVE  /\ IsFiniteSet(S \cup {u}) /\ S \cup {u} \in SUBSET Utxos
         /\ Sum(S) \in Nat
         /\ Sum(S \cup {u}) = Sum(S) + u.amount
<1> DEFINE T == S \cup {u}
<1>1. IsFiniteSet(T) /\ T \in SUBSET Utxos /\ u \in T /\ T \ {u} = S
  BY FS_AddElement
<1> HIDE DEF T
<1>2. \A v \in T : Amounts[v] \in Int
  BY <1>1 DEF Utxos, Amounts
<1>3. SumFunctionOnSet(Amounts, T) = Amounts[u] + SumFunctionOnSet(Amounts, S)
  BY <1>1, <1>2, SumTakeOne
<1>4. Amounts[u] = u.amount /\ u.amount \in Nat
  BY DEF Utxos, Amounts
<1>5. Sum(T) = SumFunctionOnSet(Amounts, T) /\ Sum(S) = SumFunctionOnSet(Amounts, S) /\ Sum(S) \in Nat
  BY <1>1, UtxoSum
<1> QED BY <1>1, <1>3, <1>4, <1>5 DEF T

(* A family as it is settled.                                                *)
LEMMA Family ==
  ASSUME leaves \in Bundles
  PROVE  /\ Len(leaves) \in Nat \ {0}
         /\ \A i \in Positions : leaves[i + 1].amount \in Nat
         /\ IsFiniteSet(Positions) /\ Cardinality(Positions) = Len(leaves)
<1>1. leaves \in Seq([owner : Clients \cup {"other"}, amount : Nat]) /\ Len(leaves) > 0
  BY ClaimsAssumption
<1>2. Len(leaves) \in Nat \ {0}
  BY <1>1
<1>3. ASSUME NEW i \in Positions PROVE leaves[i + 1].amount \in Nat
  <2>1. i + 1 \in 1..Len(leaves)
    BY <1>2 DEF Positions
  <2> DEFINE Leaves == [owner : Clients \cup {"other"}, amount : Nat]
  <2>2. leaves \in Seq(Leaves)
    BY <1>1
  <2> HIDE DEF Leaves
  <2>3. leaves[i + 1] \in Leaves
    BY <2>1, <2>2
  <2> QED BY <2>3 DEF Leaves
<1>4. IsFiniteSet(Positions) /\ Cardinality(Positions) = Len(leaves)
  <2> DEFINE n == Len(leaves)
  <2>1. 0 \in Int /\ n - 1 \in Int /\ n - 1 >= 0 /\ (n - 1) - 0 + 1 = n
    BY <1>2
  <2> HIDE DEF n
  <2>2. IsFiniteSet(0..(n - 1)) /\ Cardinality(0..(n - 1)) = n
    BY <2>1, FS_Interval
  <2> QED BY <2>2 DEF n, Positions
<1> QED BY <1>2, <1>3, <1>4

Prices == [i \in Positions |-> leaves[i + 1].amount]
Worth(S) == SumFunctionOnSet([i \in S |-> leaves[i + 1].amount], S)

LEMMA WorthSum ==
  ASSUME leaves \in Bundles, NEW S \in SUBSET Positions
  PROVE  Worth(S) = SumFunctionOnSet(Prices, S) /\ Worth(S) \in Nat
<1> DEFINE f == [i \in S |-> leaves[i + 1].amount]
<1>1. \A i \in S : Prices[i] \in Nat /\ f[i] = Prices[i]
  BY Family DEF Prices
<1>2. IsFiniteSet(S)
  BY Family, FS_Subset
<1> HIDE DEF f
<1>3. SumFunctionOnSet(f, S) = SumFunctionOnSet(Prices, S)
  BY <1>1, <1>2, SumSame
<1>4. SumFunctionOnSet(Prices, S) \in Nat
  BY <1>1, <1>2, SumNat
<1> QED BY <1>3, <1>4 DEF Worth, f

LEMMA WorthGrows ==
  ASSUME leaves \in Bundles, NEW S \in SUBSET Positions, NEW i \in Positions \ S
  PROVE  Worth(S \cup {i}) = Worth(S) + leaves[i + 1].amount
<1> DEFINE T == S \cup {i}
<1>1. T \in SUBSET Positions /\ i \in T /\ T \ {i} = S
  OBVIOUS
<1> HIDE DEF T
<1>2. IsFiniteSet(T)
  BY <1>1, Family, FS_Subset
<1>3. \A j \in T : Prices[j] \in Int
  BY <1>1, Family DEF Prices
<1>4. SumFunctionOnSet(Prices, T) = Prices[i] + SumFunctionOnSet(Prices, S)
  BY <1>1, <1>2, <1>3, SumTakeOne
<1>5. Prices[i] = leaves[i + 1].amount /\ leaves[i + 1].amount \in Nat
  BY Family DEF Prices
<1>6. /\ Worth(T) = SumFunctionOnSet(Prices, T)
      /\ Worth(S) = SumFunctionOnSet(Prices, S) /\ Worth(S) \in Nat
  BY <1>1, WorthSum
<1> QED BY <1>4, <1>5, <1>6 DEF T

LEMMA WorthIsPart ==
  ASSUME leaves \in Bundles, NEW S \in SUBSET Positions
  PROVE  Worth(S) <= Worth(Positions)
<1>1. \A i \in Positions : Prices[i] \in Nat
  BY Family DEF Prices
<1>2. IsFiniteSet(Positions)
  BY Family
<1>3. SumFunctionOnSet(Prices, S) <= SumFunctionOnSet(Prices, Positions)
  BY <1>1, <1>2, SumPart
<1>4. Worth(S) = SumFunctionOnSet(Prices, S) /\ Worth(Positions) = SumFunctionOnSet(Prices, Positions)
  BY WorthSum
<1> QED BY <1>3, <1>4

---------------------------------------------------------------------------
(* The family on L1 *)

(* The leaves of the first k claims, and of all of them.                     *)
First(ch, k) == { ch.claims[j].leaf : j \in 1..k }
Now(ch) == First(ch, Len(ch.claims))

(* Each claim takes a leaf that is left and leaves the root over the rest.   *)
ChainOK(ch) ==
  /\ ch = [claims |-> ch.claims, root |-> ch.root, pool |-> ch.pool, purse |-> ch.purse,
           paid |-> ch.paid, spentByOthers |-> ch.spentByOthers]
  /\ IsRow(ch.claims)
  /\ \A k \in 1..Len(ch.claims) :
       /\ ch.claims[k].leaf \in Positions \ First(ch, k - 1)
       /\ ch.claims[k].root = RootWithout(First(ch, k))
  /\ ch.root = RootWithout(Now(ch))
  /\ ch.purse = [c \in Clients |-> ch.purse[c]]
  /\ ch.purse["web"] # {}

(* The leaves claimed so far are what the pool lost and what was paid.       *)
MoneyOK(ch) ==
  /\ IsFiniteSet(ch.pool) /\ ch.pool \subseteq Utxos
  /\ ch.spentByOthers \in {0, 1}
  /\ \A u \in ch.pool : /\ u.id[1] = "pool" => u.id[2] < Len(ch.claims)
                        /\ u.id[1] = "rest" => ch.spentByOthers = 1
  /\ Sum(ch.pool) = Sum(Pool) - Worth(Now(ch)) - ch.spentByOthers
  /\ IsFiniteSet(ch.paid)
  /\ \A p \in ch.paid : p[1] \in Now(ch) /\ p[2] \in Nat
  /\ SumFunctionOnSet([p \in ch.paid |-> p[2]], ch.paid)
       = Worth(Now(ch)) + IF Now(ch) = Positions THEN Rent ELSE 0
  /\ \A i \in Now(ch) : \E p \in ch.paid : p[1] = i /\ p[2] >= leaves[i + 1].amount

(* A claim that L1 can take next.                                            *)
TxOK(ch, tx) ==
  /\ tx.output = Len(ch.claims)
  /\ tx.leaf \in Positions \ Now(ch)
  /\ tx.newRoot = RootWithout(Now(ch) \cup {tx.leaf})
  /\ tx.delegates \subseteq ch.pool
  /\ tx.change = Sum(tx.delegates) - leaves[tx.leaf + 1].amount /\ tx.change >= 0
  /\ tx.payout = leaves[tx.leaf + 1].amount
                   + IF Len(leaves) - Len(ch.claims) = 1 THEN Rent ELSE 0

Extends(nw, ch) ==
  /\ Len(ch.claims) <= Len(nw.claims)
  /\ \A k \in 1..Len(ch.claims) : nw.claims[k] = ch.claims[k]

LEMMA FirstGrows ==
  ASSUME NEW ch, NEW k \in Nat
  PROVE  /\ First(ch, 0) = {}
         /\ First(ch, k + 1) = First(ch, k) \cup {ch.claims[k + 1].leaf}
<1>1. 1..(k + 1) = (1..k) \cup {k + 1} /\ 1..0 = {}
  OBVIOUS
<1> QED BY <1>1 DEF First

LEMMA FirstKept ==
  ASSUME NEW ch, NEW nw, Extends(nw, ch), Len(ch.claims) \in Nat
  PROVE  \A k \in 0..Len(ch.claims) : First(nw, k) = First(ch, k)
<1> SUFFICES ASSUME NEW k \in 0..Len(ch.claims) PROVE First(nw, k) = First(ch, k)
  OBVIOUS
<1>1. \A j \in 1..k : j \in 1..Len(ch.claims)
  OBVIOUS
<1>2. \A j \in 1..k : nw.claims[j] = ch.claims[j]
  BY <1>1 DEF Extends
<1> QED BY <1>2 DEF First

LEMMA FirstCounts ==
  ASSUME leaves \in Bundles, NEW ch, ChainOK(ch)
  PROVE  /\ Len(ch.claims) \in Nat
         /\ \A k \in 0..Len(ch.claims) :
              /\ First(ch, k) \subseteq Positions /\ IsFiniteSet(First(ch, k))
              /\ Cardinality(First(ch, k)) = k /\ k <= Len(leaves)
<1> DEFINE n == Len(ch.claims)
           Counts(k) == /\ First(ch, k) \subseteq Positions /\ IsFiniteSet(First(ch, k))
                        /\ Cardinality(First(ch, k)) = k
           Good == { k \in Nat : k <= n => Counts(k) }
<1>1. n \in Nat
  BY RowOf DEF ChainOK, IsRow
<1>2. 0 \in Good
  <2>1. First(ch, 0) = {}
    BY FirstGrows
  <2> QED BY <2>1, FS_EmptySet
<1>3. ASSUME NEW k \in Nat, k \in Good PROVE k + 1 \in Good
  <2> SUFFICES ASSUME k + 1 <= n PROVE Counts(k + 1)
    OBVIOUS
  <2>1. Counts(k)
    BY <1>1, <1>3
  <2>2. ch.claims[k + 1].leaf \in Positions \ First(ch, k)
    <3>1. k + 1 \in 1..n /\ (k + 1) - 1 = k
      BY <1>1
    <3> QED BY <3>1 DEF ChainOK
  <2> DEFINE S == First(ch, k)
             x == ch.claims[k + 1].leaf
  <2>3. First(ch, k + 1) = S \cup {x}
    BY FirstGrows
  <2> HIDE DEF S, x
  <2>4. IsFiniteSet(S \cup {x}) /\ Cardinality(S \cup {x}) = k + 1
    BY <2>1, <2>2, FS_AddElement DEF S, x
  <2>5. S \cup {x} \subseteq Positions
    BY <2>1, <2>2 DEF S, x
  <2> QED BY <2>3, <2>4, <2>5
<1>4. ASSUME NEW k \in 0..n PROVE Counts(k) /\ k <= Len(leaves)
  <2> HIDE DEF Good
  <2>1. k \in Good
    BY <1>2, <1>3, NatSetInduction
  <2>2. Counts(k)
    BY <1>1, <2>1 DEF Good
  <2>3. Cardinality(First(ch, k)) <= Cardinality(Positions)
    BY <2>2, Family, FS_Subset
  <2> QED BY <2>2, <2>3, Family
<1> QED BY <1>1, <1>4

LEMMA AllOrLess ==
  ASSUME leaves \in Bundles, NEW S \in SUBSET Positions
  PROVE  S = Positions <=> Cardinality(S) = Len(leaves)
BY Family, FS_Subset

(* What a block does to the family.                                          *)
LEMMA ConfirmMoves ==
  ASSUME ChainOK(chain), NEW tx, Confirm(tx)
  PROVE  /\ chain'.claims = Append(chain.claims, [by |-> tx.by, leaf |-> tx.leaf, root |-> tx.newRoot])
         /\ chain'.root = tx.newRoot
         /\ chain'.pool = (chain.pool \ tx.delegates) \cup ChangeOf(tx)
         /\ chain'.purse = PursesAfter(tx)
         /\ chain'.paid = chain.paid \cup {<<tx.leaf, tx.payout>>}
         /\ chain'.spentByOthers = chain.spentByOthers
         /\ chain' = [claims |-> chain'.claims, root |-> chain'.root, pool |-> chain'.pool,
                      purse |-> chain'.purse, paid |-> chain'.paid,
                      spentByOthers |-> chain'.spentByOthers]
BY DEF Confirm, ChainOK

LEMMA ConfirmChain ==
  ASSUME leaves \in Bundles, ChainOK(chain), NEW tx, TxOK(chain, tx), Confirm(tx)
  PROVE  /\ ChainOK(chain')
         /\ Extends(chain', chain) /\ Len(chain'.claims) = Len(chain.claims) + 1
         /\ chain'.claims[Len(chain.claims) + 1] = [by |-> tx.by, leaf |-> tx.leaf, root |-> tx.newRoot]
         /\ Now(chain') = Now(chain) \cup {tx.leaf}
<1> DEFINE n == Len(chain.claims)
           new == [by |-> tx.by, leaf |-> tx.leaf, root |-> tx.newRoot]
<1>1. chain'.claims = Append(chain.claims, new)
  BY ConfirmMoves
<1>2. new.leaf = tx.leaf /\ new.root = tx.newRoot
  OBVIOUS
<1> HIDE DEF new
<1>3. /\ IsRow(chain'.claims) /\ n \in Nat /\ Len(chain'.claims) = n + 1
      /\ chain'.claims[n + 1] = new
      /\ \A k \in 1..n : chain'.claims[k] = chain.claims[k]
  <2>1. IsRow(chain.claims)
    BY DEF ChainOK
  <2> QED BY <1>1, <2>1, RowGrows
<1>4. Extends(chain', chain)
  BY <1>3 DEF Extends
<1>5. \A k \in 0..n : First(chain', k) = First(chain, k)
  BY <1>3, <1>4, FirstKept
<1>6. First(chain', n + 1) = Now(chain) \cup {tx.leaf}
  <2>1. n \in 0..n
    BY <1>3
  <2>2. First(chain', n + 1) = First(chain', n) \cup {chain'.claims[n + 1].leaf}
    BY <1>3, FirstGrows
  <2> QED BY <1>2, <1>3, <1>5, <2>1, <2>2 DEF Now
<1>7. ASSUME NEW k \in 1..(n + 1)
      PROVE  /\ chain'.claims[k].leaf \in Positions \ First(chain', k - 1)
             /\ chain'.claims[k].root = RootWithout(First(chain', k))
  <2>1. CASE k \in 1..n
    <3>1. k - 1 \in 0..n /\ k \in 0..n
      BY <1>3, <2>1
    <3> QED BY <1>3, <1>5, <2>1, <3>1 DEF ChainOK
  <2>2. CASE k = n + 1
    <3>1. k - 1 = n /\ n \in 0..n
      BY <1>3, <2>2
    <3>2. First(chain', k - 1) = Now(chain)
      BY <1>5, <3>1 DEF Now
    <3> QED BY <1>2, <1>3, <1>6, <2>2, <3>2 DEF TxOK
  <2> QED BY <1>3, <2>1, <2>2
<1>8. chain'.root = RootWithout(Now(chain'))
  BY <1>3, <1>6, ConfirmMoves DEF TxOK, Now
<1>9. chain'.purse = [c \in Clients |-> chain'.purse[c]] /\ chain'.purse["web"] # {}
  <2>1. chain'.purse = PursesAfter(tx) /\ "web" \in Clients /\ chain.purse["web"] # {}
    BY ConfirmMoves DEF ChainOK, Clients
  <2> QED BY <2>1 DEF PursesAfter
<1>10. chain' = [claims |-> chain'.claims, root |-> chain'.root, pool |-> chain'.pool,
                 purse |-> chain'.purse, paid |-> chain'.paid,
                 spentByOthers |-> chain'.spentByOthers]
  BY ConfirmMoves
<1>11. ChainOK(chain')
  BY <1>3, <1>7, <1>8, <1>9, <1>10 DEF ChainOK
<1> QED BY <1>3, <1>4, <1>6, <1>11 DEF Now, new

(* Change that comes back is a new output of the pool.                       *)
LEMMA ChangeJoins ==
  ASSUME NEW ch, MoneyOK(ch), Len(ch.claims) \in Nat, NEW tx, tx.output = Len(ch.claims),
         tx.change \in Nat, NEW S \in SUBSET ch.pool
  PROVE  /\ IsFiniteSet(S \cup ChangeOf(tx)) /\ S \cup ChangeOf(tx) \subseteq Utxos
         /\ Sum(S) \in Nat
         /\ Sum(S \cup ChangeOf(tx)) = Sum(S) + tx.change
         /\ \A u \in ChangeOf(tx) : u.id[1] = "pool" /\ u.id[2] = Len(ch.claims)
<1> DEFINE new == [id |-> <<"pool", tx.output>>, amount |-> tx.change]
<1>1. IsFiniteSet(S) /\ S \in SUBSET Utxos
  BY FS_Subset DEF MoneyOK
<1>2. new.amount = tx.change /\ new.id[1] = "pool" /\ new.id[2] = Len(ch.claims)
  OBVIOUS
<1>3. CASE tx.change = 0
  <2>1. ChangeOf(tx) = {}
    BY <1>3 DEF ChangeOf
  <2>2. Sum(S) \in Nat /\ S \cup ChangeOf(tx) = S
    BY <1>1, <2>1, UtxoSum
  <2> QED BY <1>1, <1>3, <2>1, <2>2
<1>4. CASE tx.change # 0
  <2>3. ChangeOf(tx) = {new}
    BY <1>4 DEF ChangeOf
  <2>4. <<"pool", tx.output>> \in Origins \X Nat /\ tx.change \in Nat \ {0}
    BY <1>4 DEF Origins
  <2>1. ChangeOf(tx) = {new} /\ new \in Utxos
    BY <2>3, <2>4 DEF Utxos
  <2>2. new \notin S
    BY <1>2 DEF MoneyOK
  <2> HIDE DEF new
  <2> QED BY <1>1, <1>2, <2>1, <2>2, UtxoJoins
<1> QED BY <1>3, <1>4

LEMMA PaidGrows ==
  ASSUME NEW P, IsFiniteSet(P), \A p \in P : p[2] \in Nat, NEW q, q \notin P, q[2] \in Nat
  PROVE  SumFunctionOnSet([p \in P \cup {q} |-> p[2]], P \cup {q})
           = q[2] + SumFunctionOnSet([p \in P |-> p[2]], P)
<1> DEFINE T == P \cup {q}
           f == [p \in T |-> p[2]]
           g == [p \in P |-> p[2]]
<1>1. IsFiniteSet(T)
  BY FS_AddElement
<1>2. T \ {q} = P /\ q \in T
  OBVIOUS
<1>3. /\ \A p \in T : f[p] = p[2] /\ f[p] \in Int
      /\ \A p \in P : g[p] \in Int /\ f[p] = g[p]
  OBVIOUS
<1> HIDE DEF T, f, g
<1>4. SumFunctionOnSet(f, T) = f[q] + SumFunctionOnSet(f, P)
  BY <1>1, <1>2, <1>3, SumTakeOne
<1>5. SumFunctionOnSet(f, P) = SumFunctionOnSet(g, P)
  BY <1>3, SumSame
<1> QED BY <1>2, <1>3, <1>4, <1>5 DEF T, f, g

LEMMA ConfirmMoney ==
  ASSUME leaves \in Bundles, ChainOK(chain), MoneyOK(chain),
         NEW tx, TxOK(chain, tx), Confirm(tx)
  PROVE  MoneyOK(chain')
<1> DEFINE n == Len(chain.claims)
           amount == leaves[tx.leaf + 1].amount
           now == Now(chain)
           rest == chain.pool \ tx.delegates
<1>1. /\ n \in Nat /\ now \in SUBSET Positions /\ Cardinality(now) = n
      /\ tx.leaf \in Positions \ now /\ amount \in Nat /\ Len(leaves) \in Nat \ {0}
  <2>1. n \in Nat /\ n \in 0..n
    BY FirstCounts
  <2> QED BY <2>1, FirstCounts, Family DEF TxOK, Now
<1>2. /\ Now(chain') = now \cup {tx.leaf} /\ Len(chain'.claims) = n + 1
      /\ Worth(Now(chain')) = Worth(now) + amount /\ Worth(now) \in Nat
  BY <1>1, ConfirmChain, WorthGrows, WorthSum
<1>3. /\ tx.delegates \in SUBSET chain.pool /\ Sum(chain.pool) \in Nat
      /\ Sum(tx.delegates) \in Nat /\ Sum(rest) = Sum(chain.pool) - Sum(tx.delegates)
  BY UtxosLeave DEF MoneyOK, TxOK
<1>4. tx.change \in Nat /\ tx.change = Sum(tx.delegates) - amount /\ tx.output = n
  BY <1>1, <1>3 DEF TxOK
<1> HIDE DEF rest
<1>5. /\ IsFiniteSet(chain'.pool) /\ chain'.pool \subseteq Utxos
      /\ Sum(chain'.pool) = Sum(rest) + tx.change /\ Sum(rest) \in Nat
      /\ \A u \in chain'.pool \ rest : u.id[1] = "pool" /\ u.id[2] = n
  <2>1. chain'.pool = rest \cup ChangeOf(tx)
    BY ConfirmMoves DEF rest
  <2>2. rest \in SUBSET chain.pool
    BY DEF rest
  <2>3. /\ IsFiniteSet(rest \cup ChangeOf(tx)) /\ rest \cup ChangeOf(tx) \subseteq Utxos
        /\ Sum(rest) \in Nat
        /\ Sum(rest \cup ChangeOf(tx)) = Sum(rest) + tx.change
        /\ \A u \in ChangeOf(tx) : u.id[1] = "pool" /\ u.id[2] = n
    BY <1>1, <1>4, <2>2, ChangeJoins
  <2> HIDE DEF n
  <2> QED BY <2>1, <2>3
<1>6. chain'.spentByOthers = chain.spentByOthers /\ chain.spentByOthers \in {0, 1}
  BY ConfirmMoves DEF MoneyOK
<1>7. \A u \in chain'.pool : /\ u.id[1] = "pool" => u.id[2] < Len(chain'.claims)
                             /\ u.id[1] = "rest" => chain'.spentByOthers = 1
  <2> TAKE u \in chain'.pool
  <2>1. CASE u \in rest
    <3>1. u \in chain.pool /\ u \in Utxos
      BY <2>1 DEF rest, MoneyOK
    <3>2. u.id[2] \in Nat
      BY <3>1 DEF Utxos
    <3> QED BY <1>1, <1>2, <1>6, <3>1, <3>2 DEF MoneyOK
  <2>2. CASE u \notin rest
    BY <1>1, <1>2, <1>5, <2>2
  <2> QED BY <2>1, <2>2
<1>8. Sum(chain'.pool) = Sum(Pool) - Worth(Now(chain')) - chain'.spentByOthers
  <2>1. Sum(chain.pool) = Sum(Pool) - Worth(now) - chain.spentByOthers
    BY DEF MoneyOK
  <2>2. Sum(Pool) \in Nat
    BY ClaimsAssumption, UtxoSum
  <2> HIDE DEF amount, now
  <2>3. Sum(chain'.pool) = Sum(chain.pool) - amount
    BY <1>1, <1>3, <1>4, <1>5
  <2>4. chain.spentByOthers \in Nat
    BY <1>6
  <2> QED BY <1>1, <1>2, <1>3, <1>6, <2>1, <2>2, <2>3, <2>4
<1> DEFINE q == <<tx.leaf, tx.payout>>
           last == IF Len(leaves) - n = 1 THEN Rent ELSE 0
<1>9. /\ q[1] = tx.leaf /\ q[2] = amount + last /\ last \in Nat /\ q[2] \in Nat
  <2>1. tx.payout = amount + last
    BY DEF TxOK
  <2>2. last \in Nat
    BY ClaimsAssumption
  <2> HIDE DEF last
  <2> QED BY <1>1, <2>1, <2>2
<1>10. chain'.paid = chain.paid \cup {q}
  BY ConfirmMoves
<1> HIDE DEF q
<1>11. /\ IsFiniteSet(chain.paid) /\ q \notin chain.paid
       /\ \A p \in chain.paid : p[1] \in now /\ p[2] \in Nat
  BY <1>1, <1>9 DEF MoneyOK
<1>12. IsFiniteSet(chain'.paid)
  BY <1>10, <1>11, FS_AddElement
<1>13. \A p \in chain'.paid : p[1] \in Now(chain') /\ p[2] \in Nat
  BY <1>2, <1>9, <1>10, <1>11
<1>14. SumFunctionOnSet([p \in chain'.paid |-> p[2]], chain'.paid)
         = Worth(Now(chain')) + IF Now(chain') = Positions THEN Rent ELSE 0
  <2> DEFINE before == SumFunctionOnSet([p \in chain.paid |-> p[2]], chain.paid)
  <2>1. now # Positions
    BY <1>1
  <2>2. before = Worth(now)
    <3>1. before = Worth(now) + IF now = Positions THEN Rent ELSE 0
      BY DEF MoneyOK
    <3> HIDE DEF before
    <3> QED BY <1>2, <2>1, <3>1
  <2>3. SumFunctionOnSet([p \in chain'.paid |-> p[2]], chain'.paid) = q[2] + before
    BY <1>9, <1>10, <1>11, PaidGrows
  <2> HIDE DEF before
  <2>4. last = IF Now(chain') = Positions THEN Rent ELSE 0
    <3>1. Now(chain') \in SUBSET Positions
      BY <1>1, <1>2
    <3>2. Cardinality(Now(chain')) = n + 1
      <4>1. IsFiniteSet(now)
        BY <1>1, Family, FS_Subset
      <4> HIDE DEF now, n
      <4> QED BY <1>1, <1>2, <4>1, FS_AddElement
    <3>3. Now(chain') = Positions <=> n + 1 = Len(leaves)
      BY <3>1, <3>2, AllOrLess
    <3> QED BY <1>1, <3>3
  <2> HIDE DEF last
  <2> QED BY <1>1, <1>2, <1>9, <2>2, <2>3, <2>4
<1>15. \A i \in Now(chain') : \E p \in chain'.paid : p[1] = i /\ p[2] >= leaves[i + 1].amount
  <2> TAKE i \in Now(chain')
  <2>1. CASE i = tx.leaf
    <3> HIDE DEF last
    <3>1. q[1] = i /\ q[2] >= leaves[i + 1].amount
      BY <1>1, <1>9, <2>1
    <3> QED BY <1>10, <3>1
  <2>2. CASE i # tx.leaf
    <3>1. i \in now
      BY <1>2, <2>2
    <3>2. PICK p \in chain.paid : p[1] = i /\ p[2] >= leaves[i + 1].amount
      BY <3>1 DEF MoneyOK
    <3> QED BY <1>10, <3>2
  <2> QED BY <2>1, <2>2
<1> QED BY <1>5, <1>6, <1>7, <1>8, <1>12, <1>13, <1>14, <1>15 DEF MoneyOK

---------------------------------------------------------------------------
(* Those who look at the family *)

(* A view shows the family after its first claims, and the root then; of a   *)
(* family with no leaf left the index keeps the last root.                   *)
Known(ch, view) ==
  \E k \in 0..Len(ch.claims) :
    /\ view.emptied = First(ch, k)
    /\ k < Len(leaves) => view.root = RootWithout(First(ch, k))

Busy == {"Pool", "Purse", "Submit"}
Sent == {"Waiting", "Complete", "TimedOut"}

IsState(s) ==
  s = [ pc |-> s.pc, view |-> s.view, leaf |-> s.leaf, delegates |-> s.delegates,
        collateral |-> s.collateral, tx |-> s.tx ]

Shape(cl) == cl = [c \in Clients |-> cl[c]] /\ \A c \in Clients : IsState(cl[c])

ViewsOK(ch, em, rt, fd, cl) ==
  /\ Known(ch, [root |-> rt, emptied |-> em])
  /\ Known(ch, fd)
  /\ \A c \in Clients : cl[c].pc \in Busy =>
       Known(ch, cl[c].view) /\ cl[c].leaf \in Positions \ cl[c].view.emptied

(* A submitted row waits for its claim, lost its delegates, or is of an      *)
(* earlier root.                                                             *)
RowsOK(ch, mp, cd) ==
  \A r \in cd : \E k \in 0..Len(ch.claims) :
    /\ k < Len(leaves) /\ r[1] = RootWithout(First(ch, k))
    /\ k = Len(ch.claims) => mp # {} \/ ch.spentByOthers # 0

(* The example submits one claim, for the leaf it fetched.                   *)
SentOK(ch, mp, me) ==
  /\ \A tx \in mp : tx.by = "example" => me.pc \in Sent /\ tx.leaf = me.leaf
  /\ \A k \in 1..Len(ch.claims) :
       ch.claims[k].by = "example" => me.pc \in Sent /\ ch.claims[k].leaf = me.leaf
  /\ me.pc = "Waiting" => me.tx.by = "example"
  /\ me.pc = "Complete" => \E k \in 1..Len(ch.claims) : ch.claims[k].by = "example"

AllOK(ch, mp, em, rt, fd, cl, cd) ==
  /\ ChainOK(ch) /\ MoneyOK(ch)
  /\ \A tx \in mp : TxOK(ch, tx)
  /\ ViewsOK(ch, em, rt, fd, cl)
  /\ RowsOK(ch, mp, cd)
  /\ SentOK(ch, mp, cl["example"])
  /\ Shape(cl)

(* The inductive invariant.                                                  *)
ClaimsInv ==
  leaves \in Bundles /\ AllOK(chain, mempool, emptied, root, feed, client, claimed)

(* What a step leaves, of the family that does not change.                   *)
Kept ==
  leaves' = leaves /\ AllOK(chain', mempool', emptied', root', feed', client', claimed')

LEMMA ChainUnprimed ==
  ASSUME leaves' = leaves
  PROVE  \A ch : ChainOK(ch)' <=> ChainOK(ch)
BY TreeStays DEF ChainOK, Now, First, IsRow, Elements

LEMMA MoneyUnprimed ==
  ASSUME leaves' = leaves
  PROVE  \A ch : MoneyOK(ch)' <=> MoneyOK(ch)
<1>1. \A S : Worth(S)' = Worth(S)
  BY DEF Worth
<1>2. Positions' = Positions
  BY TreeStays
<1> QED BY <1>1, <1>2 DEF MoneyOK, Now, First, Sum

LEMMA TxUnprimed ==
  ASSUME leaves' = leaves
  PROVE  \A ch, tx : TxOK(ch, tx)' <=> TxOK(ch, tx)
BY TreeStays DEF TxOK, Now, First, Sum

LEMMA ViewsUnprimed ==
  ASSUME leaves' = leaves
  PROVE  /\ \A ch, em, rt, fd, cl : ViewsOK(ch, em, rt, fd, cl)' <=> ViewsOK(ch, em, rt, fd, cl)
         /\ \A ch, mp, cd : RowsOK(ch, mp, cd)' <=> RowsOK(ch, mp, cd)
<1>1. Positions' = Positions /\ \A g : RootWithout(g)' = RootWithout(g)
  BY TreeStays
<1>2. \A ch, view : Known(ch, view)' <=> Known(ch, view)
  BY <1>1 DEF Known, First
<1>3. \A ch, mp, cd : RowsOK(ch, mp, cd)' <=> RowsOK(ch, mp, cd)
  BY <1>1 DEF RowsOK, First
<1>4. ASSUME NEW CONSTANT ch, NEW CONSTANT em, NEW CONSTANT rt, NEW CONSTANT fd, NEW CONSTANT cl
      PROVE  ViewsOK(ch, em, rt, fd, cl)' <=> ViewsOK(ch, em, rt, fd, cl)
  <2>1. Known(ch, [root |-> rt, emptied |-> em])' <=> Known(ch, [root |-> rt, emptied |-> em])
    BY <1>2
  <2>2. Known(ch, fd)' <=> Known(ch, fd)
    BY <1>2
  <2>3. \A c \in Clients : Known(ch, cl[c].view)' <=> Known(ch, cl[c].view)
    BY <1>2
  <2> QED BY <1>1, <2>1, <2>2, <2>3 DEF ViewsOK
<1> QED BY <1>3, <1>4

LEMMA KeptIsInv ==
  ASSUME ClaimsInv, Kept
  PROVE  ClaimsInv'
BY ChainUnprimed, MoneyUnprimed, TxUnprimed, ViewsUnprimed
   DEF ClaimsInv, Kept, AllOK, SentOK, Shape, IsState

---------------------------------------------------------------------------
(* Nothing is claimed at the start.                                          *)

LEMMA InitChain ==
  ASSUME ClaimsInit
  PROVE  /\ leaves \in Bundles /\ chain.claims = <<>> /\ Len(chain.claims) = 0
         /\ Now(chain) = {} /\ ChainOK(chain) /\ MoneyOK(chain)
<1>1. leaves \in Bundles /\ Len(leaves) \in Nat \ {0}
  BY Family DEF ClaimsInit
<1>2. chain = [claims |-> <<>>, root |-> root, pool |-> Pool, purse |-> Purses,
               paid |-> {}, spentByOthers |-> 0]
  BY DEF ClaimsInit
<1>3. /\ chain.claims = <<>> /\ chain.root = root /\ chain.pool = Pool /\ chain.purse = Purses
      /\ chain.paid = {} /\ chain.spentByOthers = 0 /\ Len(chain.claims) = 0
  BY <1>2
<1>4. Now(chain) = {}
  BY <1>3, FirstGrows DEF Now
<1>5. ChainOK(chain)
  <2>1. IsRow(chain.claims)
    BY <1>3 DEF IsRow, Elements
  <2>2. chain.root = RootWithout(Now(chain))
    BY <1>3, <1>4 DEF ClaimsInit
  <2>3. chain.purse = [c \in Clients |-> chain.purse[c]] /\ chain.purse["web"] # {}
    BY <1>3, ClaimsAssumption DEF Clients
  <2>4. chain = [claims |-> chain.claims, root |-> chain.root, pool |-> chain.pool,
                 purse |-> chain.purse, paid |-> chain.paid,
                 spentByOthers |-> chain.spentByOthers]
    BY <1>2
  <2> QED BY <1>3, <2>1, <2>2, <2>3, <2>4 DEF ChainOK
<1>6. MoneyOK(chain)
  <2>1. Worth({}) = 0
    BY SumEmpty DEF Worth
  <2>2. SumFunctionOnSet([p \in chain.paid |-> p[2]], chain.paid) = 0
    BY <1>3, SumEmpty
  <2>3. Positions # {}
    BY <1>1 DEF Positions
  <2>4. IsFiniteSet(Pool) /\ Pool \subseteq Utxos /\ \A u \in Pool : u.id[1] = "deposit"
    BY ClaimsAssumption
  <2>5. Sum(Pool) \in Nat
    BY <2>4, UtxoSum
  <2>6. IsFiniteSet({})
    BY FS_EmptySet
  <2>7. Sum(chain.pool) = Sum(Pool) - Worth(Now(chain)) - chain.spentByOthers
    BY <1>3, <1>4, <2>1, <2>5
  <2>8. SumFunctionOnSet([p \in chain.paid |-> p[2]], chain.paid)
          = Worth(Now(chain)) + IF Now(chain) = Positions THEN Rent ELSE 0
    BY <1>4, <2>1, <2>2, <2>3
  <2> QED BY <1>3, <1>4, <2>4, <2>6, <2>7, <2>8 DEF MoneyOK
<1> QED BY <1>1, <1>3, <1>4, <1>5, <1>6

LEMMA Starts ==
  ASSUME ClaimsInit
  PROVE  ClaimsInv
<1>1. /\ leaves \in Bundles /\ Len(chain.claims) = 0
      /\ Now(chain) = {} /\ ChainOK(chain) /\ MoneyOK(chain)
  BY InitChain
<1>2. First(chain, 0) = {}
  BY FirstGrows
<1>3. /\ mempool = {} /\ claimed = {} /\ client = [c \in Clients |-> Idle]
      /\ root = RootWithout({}) /\ emptied = {} /\ feed = [root |-> root, emptied |-> emptied]
  BY DEF ClaimsInit, Served
<1>4. Known(chain, [root |-> root, emptied |-> emptied])
  <2> DEFINE view == [root |-> root, emptied |-> emptied]
  <2>1. view.root = root /\ view.emptied = emptied
    OBVIOUS
  <2> HIDE DEF view
  <2>2. view.emptied = First(chain, 0) /\ view.root = RootWithout(First(chain, 0))
    BY <1>2, <1>3, <2>1
  <2>3. 0 \in 0..Len(chain.claims)
    BY <1>1
  <2>4. Known(chain, view)
    BY <2>2, <2>3 DEF Known
  <2> QED BY <2>4 DEF view
<1>5. ViewsOK(chain, emptied, root, feed, client)
  BY <1>3, <1>4 DEF ViewsOK, Busy, Idle
<1>6. RowsOK(chain, mempool, claimed)
  BY <1>3 DEF RowsOK
<1>7. SentOK(chain, mempool, client["example"])
  BY <1>1, <1>3 DEF SentOK, Idle, Clients
<1>8. Shape(client)
  BY <1>3 DEF Shape, IsState, Idle
<1> QED BY <1>1, <1>3, <1>5, <1>6, <1>7, <1>8 DEF ClaimsInv, AllOK

---------------------------------------------------------------------------
(* The clients *)

LEMMA KnownGrows ==
  ASSUME NEW ch, NEW nw, Extends(nw, ch), Len(ch.claims) \in Nat, Len(nw.claims) \in Nat
  PROVE  \A view : Known(ch, view) => Known(nw, view)
<1> SUFFICES ASSUME NEW view, Known(ch, view) PROVE Known(nw, view)
  OBVIOUS
<1>1. PICK k \in 0..Len(ch.claims) : /\ view.emptied = First(ch, k)
                                     /\ k < Len(leaves) => view.root = RootWithout(First(ch, k))
  BY DEF Known
<1>2. First(nw, k) = First(ch, k) /\ k \in 0..Len(nw.claims)
  BY FirstKept DEF Extends
<1> QED BY <1>1, <1>2 DEF Known

LEMMA ClientMoves ==
  ASSUME Shape(client), NEW c \in Clients, NEW s, Moves(c, s), IsState(s)
  PROVE  /\ client'[c] = s /\ \A d \in Clients : d # c => client'[d] = client[d]
         /\ Shape(client')
BY DEF Shape, Moves

LEMMA GoesMoves ==
  ASSUME Shape(client), NEW c \in Clients, NEW pc, Goes(c, pc)
  PROVE  LET s == [client[c] EXCEPT !.pc = pc]
         IN  Moves(c, s) /\ IsState(s) /\ s.pc = pc /\ s.view = client[c].view
               /\ s.leaf = client[c].leaf
BY DEF Shape, Moves, Goes, IsState

(* What a busy client saw is known, and its leaf was left then.              *)
Informed(s) ==
  s.pc \in Busy => Known(chain, s.view) /\ s.leaf \in Positions \ s.view.emptied

LEMMA ClientInformed ==
  ASSUME ClaimsInv, UNCHANGED <<leaves, emptied, root, chain, feed>>,
         NEW c \in Clients, NEW s, Moves(c, s), IsState(s), Informed(s)
  PROVE  /\ leaves' = leaves
         /\ ChainOK(chain') /\ MoneyOK(chain')
         /\ ViewsOK(chain', emptied', root', feed', client')
         /\ Shape(client')
<1>1. ViewsOK(chain, emptied, root, feed, client) /\ Shape(client)
  BY DEF ClaimsInv, AllOK
<1>2. /\ client'[c] = s /\ \A d \in Clients : d # c => client'[d] = client[d]
      /\ Shape(client')
  BY <1>1, ClientMoves
<1>3. \A d \in Clients : client'[d].pc \in Busy =>
        Known(chain, client'[d].view) /\ client'[d].leaf \in Positions \ client'[d].view.emptied
  BY <1>1, <1>2 DEF ViewsOK, Informed
<1>4. ViewsOK(chain, emptied, root, feed, client')
  BY <1>1, <1>3 DEF ViewsOK
<1> QED BY <1>2, <1>4 DEF ClaimsInv, AllOK

(* A client that submits nothing.                                            *)
LEMMA ClientStep ==
  ASSUME ClaimsInv, UNCHANGED <<leaves, emptied, root, chain, mempool, feed, claimed>>,
         NEW c \in Clients, NEW s, Moves(c, s), IsState(s), Informed(s),
         c = "example" => SentOK(chain, mempool, s)
  PROVE  Kept
<1>1. /\ ChainOK(chain') /\ MoneyOK(chain')
      /\ ViewsOK(chain', emptied', root', feed', client') /\ Shape(client')
  BY ClientInformed
<1>2. SentOK(chain, mempool, client'["example"])
  <2>1. Shape(client) /\ SentOK(chain, mempool, client["example"]) /\ "example" \in Clients
    BY DEF ClaimsInv, AllOK, Clients
  <2>2. /\ client'[c] = s /\ \A d \in Clients : d # c => client'[d] = client[d]
    BY <2>1, ClientMoves
  <2>3. CASE c = "example"
    BY <2>2, <2>3
  <2>4. CASE c # "example"
    BY <2>1, <2>2, <2>4
  <2> QED BY <2>3, <2>4
<1>3. (\A tx \in mempool : TxOK(chain, tx)) /\ RowsOK(chain, mempool, claimed)
  BY DEF ClaimsInv, AllOK
<1> QED BY <1>1, <1>2, <1>3 DEF Kept, AllOK

LEMMA NothingSent ==
  ASSUME NEW ch, NEW mp, NEW me, NEW new, SentOK(ch, mp, me), me.pc \notin Sent, new.pc \notin Sent
  PROVE  SentOK(ch, mp, new)
BY DEF SentOK, Sent

(* A client that goes on, or gives up, before anything was submitted.        *)
LEMMA GoesOn ==
  ASSUME ClaimsInv, UNCHANGED <<leaves, emptied, root, chain, mempool, feed, claimed>>,
         NEW c \in Clients, client[c].pc \notin Sent,
         NEW s, Moves(c, s), IsState(s), Informed(s), s.pc \notin Sent
  PROVE  Kept
<1>1. SentOK(chain, mempool, client["example"])
  BY DEF ClaimsInv, AllOK
<1>2. c = "example" => SentOK(chain, mempool, s)
  BY <1>1, NothingSent
<1> QED BY <1>2, ClientStep

LEMMA GivesUp ==
  ASSUME ClaimsInv, UNCHANGED <<leaves, emptied, root, chain, mempool, feed, claimed>>,
         NEW c \in Clients, client[c].pc \notin Sent,
         NEW pc \in {"Idle", "Exited"}, Goes(c, pc)
  PROVE  Kept
<1> DEFINE s == [client[c] EXCEPT !.pc = pc]
<1>1. Shape(client)
  BY DEF ClaimsInv, AllOK
<1>2. Moves(c, s) /\ IsState(s) /\ s.pc = pc
  BY <1>1, GoesMoves
<1> HIDE DEF s
<1>3. Informed(s) /\ s.pc \notin Sent
  BY <1>2 DEF Informed, Busy, Sent
<1> QED BY <1>2, <1>3, GoesOn

AtWork(view, i) == [Idle EXCEPT !.pc = "Pool", !.view = view, !.leaf = i]

LEMMA Fetched ==
  ASSUME NEW view, NEW i
  PROVE  LET s == AtWork(view, i)
         IN  IsState(s) /\ s.pc = "Pool" /\ s.view = view /\ s.leaf = i
<1> DEFINE s == AtWork(view, i)
<1>1. IsState(Idle)
  BY DEF IsState, Idle
<1>2. s = [Idle EXCEPT !.pc = "Pool", !.view = view, !.leaf = i]
  BY DEF AtWork
<1> HIDE DEF s
<1>3. IsState(s) /\ s.pc = "Pool" /\ s.view = view /\ s.leaf = i
  BY <1>1, <1>2 DEF IsState
<1> QED BY <1>3 DEF s

LEMMA ExampleFetchesKeeps ==
  ASSUME ClaimsInv, ExampleFetches
  PROVE  Kept
<1> DEFINE own == OwnUnspent(Served, "example")
           i == CHOOSE i \in own : \A j \in own : i <= j
           s == AtWork(Served, i)
<1>1. /\ "example" \in Clients /\ client["example"].pc = "Idle"
      /\ client["example"].pc \notin Sent
      /\ UNCHANGED <<leaves, emptied, root, chain, mempool, feed, claimed>>
  BY DEF ExampleFetches, Clients, Sent
<1>2. CASE own = {}
  <2>1. Goes("example", "Exited")
    BY <1>2 DEF ExampleFetches
  <2> HIDE DEF own
  <2> QED BY <1>1, <2>1, GivesUp
<1>3. CASE own # {}
  <2>1. Moves("example", s)
    BY <1>3 DEF ExampleFetches, AtWork
  <2>2. i \in own
    <3>1. own \subseteq Nat
      BY DEF OwnUnspent, Unspent, Positions
    <3> HIDE DEF own
    <3>2. PICK n \in own : \A j \in own : n <= j
      <4> DEFINE Later(n) == \A m \in own : n <= m
                 Good == { n \in Nat : (\A m \in own : m >= n) \/ \E m \in own : Later(m) }
      <4>1. 0 \in Good
        BY <3>1
      <4>2. ASSUME NEW n \in Nat, n \in Good PROVE n + 1 \in Good
        <5>1. CASE \E m \in own : Later(m)
          BY <5>1
        <5>2. CASE (\A m \in own : m >= n) /\ n \in own
          BY <3>1, <5>2
        <5>3. CASE (\A m \in own : m >= n) /\ n \notin own
          <6>1. \A m \in own : m >= n + 1
            BY <3>1, <5>3
          <6> QED BY <6>1
        <5> QED BY <4>2, <5>1, <5>2, <5>3
      <4> HIDE DEF Good
      <4>3. \A n \in Nat : n \in Good
        BY <4>1, <4>2, NatSetInduction
      <4>4. PICK m \in own : TRUE
        BY <1>3
      <4>5. m + 1 \in Good
        BY <3>1, <4>3, <4>4
      <4> QED BY <3>1, <4>4, <4>5 DEF Good
    <3> QED BY <3>2
  <2>3. i \in Positions \ Served.emptied
    BY <2>2 DEF OwnUnspent, Unspent
  <2> HIDE DEF own, i
  <2>4. IsState(s) /\ s.pc = "Pool" /\ s.view = Served /\ s.leaf = i
    BY Fetched
  <2>5. Known(chain, Served)
    BY DEF ClaimsInv, AllOK, ViewsOK, Served
  <2> HIDE DEF s
  <2>6. Informed(s) /\ s.pc \notin Sent
    BY <2>3, <2>4, <2>5 DEF Informed, Sent
  <2> QED BY <1>1, <2>1, <2>4, <2>6, GoesOn
<1> QED BY <1>2, <1>3

LEMMA WebClicksKeeps ==
  ASSUME ClaimsInv, WebClicks
  PROVE  Kept
<1>1. PICK i \in OwnUnspent(feed, "web") :
        /\ RowEnabled(i)
        /\ Moves("web", [Idle EXCEPT !.pc = "Pool", !.view = feed, !.leaf = i])
        /\ UNCHANGED <<leaves, emptied, root, chain, mempool, feed, claimed>>
  BY DEF WebClicks
<1> DEFINE s == AtWork(feed, i)
<1>2. "web" \in Clients /\ client["web"].pc \notin Sent
  BY <1>1 DEF RowEnabled, Sent, Clients
<1>3. IsState(s) /\ s.pc = "Pool" /\ s.view = feed /\ s.leaf = i
  BY Fetched
<1>4. Moves("web", s)
  BY <1>1 DEF AtWork
<1> HIDE DEF s
<1>5. Informed(s) /\ s.pc \notin Sent
  BY <1>3 DEF Informed, Sent, ClaimsInv, AllOK, ViewsOK, OwnUnspent, Unspent
<1> QED BY <1>1, <1>2, <1>3, <1>4, <1>5, GoesOn

LEMMA WebPollsKeeps ==
  ASSUME ClaimsInv, WebPolls
  PROVE  Kept
<1>1. /\ feed' = Served
      /\ UNCHANGED <<leaves, emptied, root, chain, mempool, client, claimed>>
  BY DEF WebPolls
<1>2. AllOK(chain, mempool, emptied, root, feed, client, claimed)
  BY DEF ClaimsInv
<1>3. ViewsOK(chain, emptied, root, feed', client)
  BY <1>1, <1>2 DEF AllOK, ViewsOK, Served
<1>4. AllOK(chain, mempool, emptied, root, feed', client, claimed)
  BY <1>2, <1>3 DEF AllOK
<1> QED BY <1>1, <1>4 DEF Kept

FailsTo(c) == IF c = "example" THEN "Exited" ELSE "Idle"

LEMMA FailsKeeps ==
  ASSUME ClaimsInv, UNCHANGED <<leaves, emptied, root, chain, mempool, feed, claimed>>,
         NEW c \in Clients, client[c].pc \notin Sent, Fails(c)
  PROVE  Kept
<1>1. Goes(c, FailsTo(c)) /\ FailsTo(c) \in {"Idle", "Exited"}
  BY DEF Fails, FailsTo
<1> QED BY <1>1, GivesUp

WithPool(old, taken) == [old EXCEPT !.pc = "Purse", !.delegates = taken]
WithPurse(old, u) == [old EXCEPT !.pc = "Submit", !.collateral = u]

LEMMA StepsOn ==
  ASSUME NEW old, IsState(old), NEW x
  PROVE  /\ LET s == WithPool(old, x)
            IN  IsState(s) /\ s.pc = "Purse" /\ s.view = old.view /\ s.leaf = old.leaf
         /\ LET s == WithPurse(old, x)
            IN  IsState(s) /\ s.pc = "Submit" /\ s.view = old.view /\ s.leaf = old.leaf
<1> DEFINE s == WithPool(old, x)
           t == WithPurse(old, x)
<1>1. /\ s = [old EXCEPT !.pc = "Purse", !.delegates = x]
      /\ t = [old EXCEPT !.pc = "Submit", !.collateral = x]
  BY DEF WithPool, WithPurse
<1> HIDE DEF s, t
<1>2. IsState(s) /\ s.pc = "Purse" /\ s.view = old.view /\ s.leaf = old.leaf
  BY <1>1 DEF IsState
<1>3. IsState(t) /\ t.pc = "Submit" /\ t.view = old.view /\ t.leaf = old.leaf
  BY <1>1 DEF IsState
<1> QED BY <1>2, <1>3 DEF s, t

LEMMA ReadsPoolKeeps ==
  ASSUME ClaimsInv, NEW c \in Clients, ReadsPool(c)
  PROVE  Kept
<1> DEFINE amount == leaves[client[c].leaf + 1].amount
<1>1. /\ client[c].pc = "Pool"
      /\ UNCHANGED <<leaves, emptied, root, chain, mempool, feed, claimed>>
  BY DEF ReadsPool
<1>2. client[c].pc \notin Sent /\ client[c].pc \in Busy
  BY <1>1 DEF Sent, Busy
<1>3. CASE Sum(chain.pool) < amount
  <2>1. Fails(c)
    BY <1>3 DEF ReadsPool
  <2> QED BY <1>1, <1>2, <2>1, FailsKeeps
<1>4. CASE ~(Sum(chain.pool) < amount)
  <2>1. PICK taken \in SUBSET chain.pool : Moves(c, WithPool(client[c], taken))
    BY <1>4 DEF ReadsPool, WithPool
  <2> DEFINE s == WithPool(client[c], taken)
  <2>2. IsState(client[c]) /\ Informed(client[c])
    BY DEF ClaimsInv, AllOK, Shape, ViewsOK, Informed
  <2>3. IsState(s) /\ s.pc = "Purse" /\ s.view = client[c].view /\ s.leaf = client[c].leaf
    BY <2>2, StepsOn
  <2>4. Moves(c, s)
    BY <2>1
  <2> HIDE DEF s
  <2>5. Informed(s) /\ s.pc \notin Sent
    BY <1>2, <2>2, <2>3 DEF Informed, Sent
  <2> QED BY <1>1, <1>2, <2>3, <2>4, <2>5, GoesOn
<1> QED BY <1>3, <1>4

LEMMA ReadsPurseKeeps ==
  ASSUME ClaimsInv, NEW c \in Clients, ReadsPurse(c)
  PROVE  Kept
<1>1. /\ client[c].pc = "Purse"
      /\ UNCHANGED <<leaves, emptied, root, chain, mempool, feed, claimed>>
  BY DEF ReadsPurse
<1>2. client[c].pc \notin Sent /\ client[c].pc \in Busy
  BY <1>1 DEF Sent, Busy
<1>3. CASE chain.purse[c] = {}
  <2>1. Fails(c)
    BY <1>3 DEF ReadsPurse
  <2> QED BY <1>1, <1>2, <2>1, FailsKeeps
<1>4. CASE chain.purse[c] # {}
  <2>1. PICK u \in chain.purse[c] : Moves(c, WithPurse(client[c], u))
    BY <1>4 DEF ReadsPurse, WithPurse
  <2> DEFINE s == WithPurse(client[c], u)
  <2>2. IsState(client[c]) /\ Informed(client[c])
    BY DEF ClaimsInv, AllOK, Shape, ViewsOK, Informed
  <2>3. IsState(s) /\ s.pc = "Submit" /\ s.view = client[c].view /\ s.leaf = client[c].leaf
    BY <2>2, StepsOn
  <2>4. Moves(c, s)
    BY <2>1
  <2> HIDE DEF s
  <2>5. Informed(s) /\ s.pc \notin Sent
    BY <1>2, <2>2, <2>3 DEF Informed, Sent
  <2> QED BY <1>1, <1>2, <2>3, <2>4, <2>5, GoesOn
<1> QED BY <1>3, <1>4

LEMMA ExampleWaitsKeeps ==
  ASSUME ClaimsInv, ExampleWaits
  PROVE  Kept
<1> DEFINE me == client["example"]
<1>1. /\ me.pc = "Waiting"
      /\ UNCHANGED <<leaves, emptied, root, chain, mempool, feed, claimed>>
      /\ \/ PayoutSeen(me.tx) /\ Goes("example", "Complete")
         \/ Goes("example", "TimedOut")
  BY DEF ExampleWaits
<1>2. "example" \in Clients /\ Shape(client) /\ SentOK(chain, mempool, me)
  BY DEF ClaimsInv, AllOK, Clients
<1>3. ASSUME NEW pc \in {"Complete", "TimedOut"}, Goes("example", pc),
             pc = "Complete" => \E k \in 1..Len(chain.claims) : chain.claims[k].by = "example"
      PROVE  Kept
  <2> DEFINE s == [me EXCEPT !.pc = pc]
  <2>1. Moves("example", s) /\ IsState(s) /\ s.pc = pc /\ s.leaf = me.leaf
    BY <1>2, <1>3, GoesMoves
  <2> HIDE DEF s
  <2>2. Informed(s)
    BY <2>1 DEF Informed, Busy
  <2>3. SentOK(chain, mempool, s)
    BY <1>1, <1>2, <1>3, <2>1 DEF SentOK, Sent
  <2> QED BY <1>1, <1>2, <2>1, <2>2, <2>3, ClientStep
<1>4. CASE PayoutSeen(me.tx) /\ Goes("example", "Complete")
  <2>1. PICK i \in DOMAIN chain.claims : i = me.tx.output + 1 /\ chain.claims[i].by = me.tx.by
    BY <1>4 DEF PayoutSeen
  <2>2. DOMAIN chain.claims = 1..Len(chain.claims)
    BY RowOf DEF ClaimsInv, AllOK, ChainOK
  <2>3. chain.claims[i].by = "example"
    BY <1>1, <1>2, <2>1 DEF SentOK
  <2> QED BY <1>3, <1>4, <2>1, <2>2, <2>3
<1> QED BY <1>1, <1>3, <1>4

---------------------------------------------------------------------------
(* L1 *)

(* A claim built from the family as it is on L1 can be taken there.          *)
LEMMA BuiltTx ==
  ASSUME leaves \in Bundles, ChainOK(chain), NEW view, view.emptied = Now(chain),
         NEW i \in Positions \ Now(chain), NEW D \in SUBSET chain.pool,
         Sum(D) - leaves[i + 1].amount >= 0,
         NEW c, NEW collateral, NEW fee
  PROVE  TxOK(chain, ClaimTx(c, view, i, D, collateral, fee))
<1> DEFINE tx == ClaimTx(c, view, i, D, collateral, fee)
           n == Len(chain.claims)
<1>1. /\ tx.output = Output(view) /\ tx.leaf = i /\ tx.newRoot = FullClaimRoot(view.emptied, i)
      /\ tx.delegates = D /\ tx.change = Sum(D) - leaves[i + 1].amount
      /\ tx.payout = Payout(view, i)
  BY DEF ClaimTx
<1> HIDE DEF tx
<1>2. n \in Nat /\ Cardinality(Now(chain)) = n
  <2>1. n \in Nat /\ n \in 0..n
    BY FirstCounts
  <2> QED BY <2>1, FirstCounts DEF Now
<1>3. FullClaimRoot(view.emptied, i) = RootWithout(Now(chain) \cup {i})
  <2>1. Len(leaves) \in Nat \ {0}
    BY Family
  <2> QED BY <2>1, LeafFolds
<1>4. tx.output = n /\ tx.payout = leaves[i + 1].amount + IF Len(leaves) - n = 1 THEN Rent ELSE 0
  BY <1>1, <1>2 DEF Output, Payout, Unclaimed
<1>5. TxOK(chain, tx)
  BY <1>1, <1>3, <1>4 DEF TxOK
<1> QED BY <1>5 DEF tx

(* A block takes a claim: no other of the mempool spends an output that is   *)
(* left.                                                                     *)
LEMMA ConfirmKeeps ==
  ASSUME ClaimsInv, NEW tx, TxOK(chain, tx), Confirm(tx),
         tx.by = "example" => /\ client["example"].pc \in Sent
                              /\ tx.leaf = client["example"].leaf
  PROVE  Kept
<1> DEFINE n == Len(chain.claims)
           me == client["example"]
<1>1. /\ leaves \in Bundles /\ ChainOK(chain) /\ MoneyOK(chain)
      /\ \A other \in mempool : TxOK(chain, other)
      /\ ViewsOK(chain, emptied, root, feed, client)
      /\ RowsOK(chain, mempool, claimed)
      /\ SentOK(chain, mempool, me) /\ Shape(client)
  BY DEF ClaimsInv, AllOK
<1>2. /\ UNCHANGED <<leaves, emptied, root, client, feed, claimed>>
      /\ mempool' = { other \in mempool : ~SpendsSame(tx, other) }
  BY DEF Confirm
<1>3. mempool' = {}
  BY <1>1, <1>2 DEF TxOK, SpendsSame
<1>4. /\ ChainOK(chain') /\ MoneyOK(chain')
      /\ Extends(chain', chain) /\ Len(chain'.claims) = n + 1
      /\ chain'.claims[n + 1] = [by |-> tx.by, leaf |-> tx.leaf, root |-> tx.newRoot]
  BY <1>1, ConfirmChain, ConfirmMoney
<1>5. n \in Nat /\ n + 1 \in Nat
  BY <1>1, FirstCounts
<1>6. \A view : Known(chain, view) => Known(chain', view)
  BY <1>4, <1>5, KnownGrows
<1>7. ViewsOK(chain', emptied, root, feed, client)
  BY <1>1, <1>6 DEF ViewsOK
<1>8. RowsOK(chain', {}, claimed)
  <2> SUFFICES ASSUME NEW r \in claimed
               PROVE  \E k \in 0..Len(chain'.claims) :
                        /\ k < Len(leaves) /\ r[1] = RootWithout(First(chain', k))
                        /\ k # Len(chain'.claims)
    BY DEF RowsOK
  <2>1. PICK k \in 0..n : k < Len(leaves) /\ r[1] = RootWithout(First(chain, k))
    BY <1>1 DEF RowsOK
  <2>2. First(chain', k) = First(chain, k)
    BY <1>4, <1>5, FirstKept
  <2>3. k \in 0..Len(chain'.claims) /\ k # Len(chain'.claims)
    BY <1>4, <1>5
  <2> QED BY <2>1, <2>2, <2>3
<1>9. SentOK(chain', {}, me)
  <2>1. \A k \in 1..(n + 1) :
          chain'.claims[k].by = "example" => me.pc \in Sent /\ chain'.claims[k].leaf = me.leaf
    <3> TAKE k \in 1..(n + 1)
    <3>1. CASE k \in 1..n
      <4>1. chain'.claims[k] = chain.claims[k]
        BY <1>4, <3>1 DEF Extends
      <4> QED BY <1>1, <3>1, <4>1 DEF SentOK
    <3>2. CASE k = n + 1
      BY <1>4, <3>2
    <3> QED BY <1>5, <3>1, <3>2
  <2>2. me.pc = "Complete" => \E k \in 1..(n + 1) : chain'.claims[k].by = "example"
    <3> SUFFICES ASSUME me.pc = "Complete"
                 PROVE  \E k \in 1..(n + 1) : chain'.claims[k].by = "example"
      OBVIOUS
    <3>1. PICK k \in 1..n : chain.claims[k].by = "example"
      BY <1>1 DEF SentOK
    <3>2. chain'.claims[k] = chain.claims[k] /\ k \in 1..(n + 1)
      BY <1>4, <1>5 DEF Extends
    <3> QED BY <3>1, <3>2
  <2> QED BY <1>1, <1>4, <2>1, <2>2 DEF SentOK
<1> QED BY <1>1, <1>2, <1>3, <1>4, <1>7, <1>8, <1>9 DEF Kept, AllOK

LEMMA MinedKeeps ==
  ASSUME ClaimsInv, Mined
  PROVE  Kept
<1>1. PICK tx \in mempool : Confirm(tx)
  BY DEF Mined
<1>2. TxOK(chain, tx)
  BY DEF ClaimsInv, AllOK
<1>3. tx.by = "example" => client["example"].pc \in Sent /\ tx.leaf = client["example"].leaf
  BY DEF ClaimsInv, AllOK, SentOK
<1> QED BY <1>1, <1>2, <1>3, ConfirmKeeps

LEMMA OthersClaimKeeps ==
  ASSUME ClaimsInv, OthersClaim
  PROVE  Kept
<1> DEFINE view == [root |-> chain.root,
                    emptied |-> { chain.claims[i].leaf : i \in DOMAIN chain.claims }]
<1>1. PICK i \in OwnUnspent(view, "other") :
        /\ Sum(chain.pool) >= leaves[i + 1].amount
        /\ Confirm(ClaimTx("other", view, i, chain.pool, NoUtxo, 0))
  BY DEF OthersClaim
<1>2. leaves \in Bundles /\ ChainOK(chain) /\ MoneyOK(chain)
  BY DEF ClaimsInv, AllOK
<1>3. view.emptied = Now(chain)
  <2>1. DOMAIN chain.claims = 1..Len(chain.claims)
    BY <1>2, RowOf DEF ChainOK
  <2> QED BY <2>1 DEF Now, First
<1>4. i \in Positions \ Now(chain)
  BY <1>1, <1>3 DEF OwnUnspent, Unspent
<1> HIDE DEF view
<1>5. Sum(chain.pool) - leaves[i + 1].amount >= 0
  <2>1. leaves[i + 1].amount \in Nat
    BY <1>2, <1>4, Family
  <2>2. Sum(chain.pool) \in Nat
    BY <1>2, UtxoSum DEF MoneyOK
  <2> QED BY <1>1, <2>1, <2>2
<1> DEFINE tx == ClaimTx("other", view, i, chain.pool, NoUtxo, 0)
<1>6. TxOK(chain, tx)
  <2>1. chain.pool \in SUBSET chain.pool
    OBVIOUS
  <2> QED BY <1>2, <1>3, <1>4, <1>5, <2>1, BuiltTx
<1>7. tx.by # "example"
  BY DEF ClaimTx
<1>8. Confirm(tx)
  BY <1>1
<1> HIDE DEF tx
<1> QED BY <1>6, <1>7, <1>8, ConfirmKeeps

(* What another family's claim leaves of an output.                          *)
RestOf(u) ==
  { v \in {[id |-> <<"rest", 0>>, amount |-> u.amount - 1]} : v.amount > 0 }

LEMMA RestJoins ==
  ASSUME NEW S \in SUBSET Utxos, IsFiniteSet(S), NEW u \in Utxos, \A v \in S : v.id[1] # "rest"
  PROVE  /\ IsFiniteSet(S \cup RestOf(u)) /\ S \cup RestOf(u) \subseteq Utxos
         /\ Sum(S) \in Nat
         /\ Sum(S \cup RestOf(u)) = Sum(S) + u.amount - 1
         /\ \A v \in RestOf(u) : v.id[1] = "rest"
<1> DEFINE new == [id |-> <<"rest", 0>>, amount |-> u.amount - 1]
<1>1. u.amount \in Nat \ {0}
  BY DEF Utxos
<1>2. new.amount = u.amount - 1 /\ new.id[1] = "rest"
  OBVIOUS
<1>3. CASE u.amount = 1
  <2>1. RestOf(u) = {}
    BY <1>3 DEF RestOf
  <2>2. Sum(S) \in Nat /\ S \cup RestOf(u) = S
    BY <2>1, UtxoSum
  <2> QED BY <1>3, <2>1, <2>2
<1>4. CASE u.amount # 1
  <2>1. RestOf(u) = {new}
    BY <1>1, <1>4 DEF RestOf
  <2>2. <<"rest", 0>> \in Origins \X Nat /\ u.amount - 1 \in Nat \ {0}
    BY <1>1, <1>4 DEF Origins
  <2>3. new \in Utxos
    BY <2>2 DEF Utxos
  <2>4. new \notin S
    BY <1>2
  <2> HIDE DEF new
  <2>5. /\ IsFiniteSet(S \cup {new}) /\ S \cup {new} \in SUBSET Utxos
        /\ Sum(S) \in Nat /\ Sum(S \cup {new}) = Sum(S) + new.amount
    BY <2>3, <2>4, UtxoJoins
  <2> QED BY <1>1, <1>2, <2>1, <2>5
<1> QED BY <1>3, <1>4

LEMMA OthersSpendKeeps ==
  ASSUME ClaimsInv, OthersSpend
  PROVE  Kept
<1>1. PICK u \in Pool \cap chain.pool :
        /\ chain.spentByOthers = 0
        /\ chain' = [chain EXCEPT !.pool = (@ \ {u}) \cup RestOf(u), !.spentByOthers = 1]
        /\ mempool' = { tx \in mempool : u \notin tx.delegates }
        /\ UNCHANGED <<leaves, emptied, root, client, feed, claimed>>
  BY DEF OthersSpend, RestOf
<1>2. /\ leaves \in Bundles /\ ChainOK(chain) /\ MoneyOK(chain)
      /\ \A other \in mempool : TxOK(chain, other)
      /\ ViewsOK(chain, emptied, root, feed, client)
      /\ RowsOK(chain, mempool, claimed)
      /\ SentOK(chain, mempool, client["example"]) /\ Shape(client)
  BY DEF ClaimsInv, AllOK
<1>3. /\ chain'.claims = chain.claims /\ chain'.root = chain.root
      /\ chain'.pool = (chain.pool \ {u}) \cup RestOf(u)
      /\ chain'.purse = chain.purse /\ chain'.paid = chain.paid
      /\ chain'.spentByOthers = 1
      /\ chain' = [claims |-> chain'.claims, root |-> chain'.root, pool |-> chain'.pool,
                   purse |-> chain'.purse, paid |-> chain'.paid,
                   spentByOthers |-> chain'.spentByOthers]
  BY <1>1, <1>2 DEF ChainOK
<1>4. /\ Now(chain') = Now(chain) /\ \A k : First(chain', k) = First(chain, k)
  BY <1>3 DEF Now, First
<1>5. ChainOK(chain')
  BY <1>2, <1>3, <1>4 DEF ChainOK
<1> DEFINE S == chain.pool \ {u}
<1>6. /\ IsFiniteSet(chain.pool) /\ chain.pool \in SUBSET Utxos /\ u \in chain.pool
      /\ u \in Utxos /\ {u} \in SUBSET chain.pool
      /\ \A v \in chain.pool : v.id[1] # "rest"
  BY <1>1, <1>2 DEF MoneyOK
<1>7. IsFiniteSet(S) /\ Sum(chain.pool) = Sum(S) + u.amount /\ Sum(S) \in Nat
  <2>1. S \in SUBSET Utxos /\ u \notin S /\ S \cup {u} = chain.pool
    BY <1>6
  <2>2. IsFiniteSet(S)
    BY <1>6, FS_Subset
  <2> HIDE DEF S
  <2> QED BY <1>6, <2>1, <2>2, UtxoJoins
<1>8. /\ IsFiniteSet(chain'.pool) /\ chain'.pool \subseteq Utxos
      /\ Sum(chain'.pool) = Sum(S) + u.amount - 1
      /\ \A v \in chain'.pool \ S : v.id[1] = "rest"
  <2>1. S \in SUBSET Utxos /\ \A v \in S : v.id[1] # "rest"
    BY <1>6
  <2>2. chain'.pool = S \cup RestOf(u)
    BY <1>3
  <2> HIDE DEF S
  <2>3. /\ IsFiniteSet(S \cup RestOf(u)) /\ S \cup RestOf(u) \subseteq Utxos
        /\ Sum(S \cup RestOf(u)) = Sum(S) + u.amount - 1
        /\ \A v \in RestOf(u) : v.id[1] = "rest"
    BY <1>6, <1>7, <2>1, RestJoins
  <2> QED BY <2>2, <2>3
<1>9. MoneyOK(chain')
  <2>1. \A v \in chain'.pool : v.id[1] = "pool" => v.id[2] < Len(chain'.claims)
    BY <1>2, <1>3, <1>8 DEF MoneyOK
  <2>2. Sum(chain'.pool) = Sum(Pool) - Worth(Now(chain')) - chain'.spentByOthers
    <3>1. Sum(chain.pool) = Sum(Pool) - Worth(Now(chain)) - 0
      BY <1>1, <1>2 DEF MoneyOK
    <3>2. Sum(Pool) \in Nat
      BY ClaimsAssumption, UtxoSum
    <3>3. Worth(Now(chain)) \in Nat
      <4>1. Now(chain) \subseteq Positions
        <5>1. Len(chain.claims) \in 0..Len(chain.claims)
          BY <1>2, FirstCounts
        <5> QED BY <1>2, <5>1, FirstCounts DEF Now
      <4> QED BY <1>2, <4>1, WorthSum
    <3>4. u.amount \in Nat
      BY <1>6 DEF Utxos
    <3> HIDE DEF S
    <3> QED BY <1>3, <1>4, <1>7, <1>8, <3>1, <3>2, <3>3, <3>4
  <2>3. /\ IsFiniteSet(chain'.paid)
        /\ \A p \in chain'.paid : p[1] \in Now(chain') /\ p[2] \in Nat
        /\ SumFunctionOnSet([p \in chain'.paid |-> p[2]], chain'.paid)
             = Worth(Now(chain')) + IF Now(chain') = Positions THEN Rent ELSE 0
        /\ \A i \in Now(chain') : \E p \in chain'.paid : p[1] = i /\ p[2] >= leaves[i + 1].amount
    BY <1>2, <1>3, <1>4 DEF MoneyOK
  <2> QED BY <1>3, <1>8, <2>1, <2>2, <2>3 DEF MoneyOK
<1>10. \A tx \in mempool' : TxOK(chain', tx)
  <2> SUFFICES ASSUME NEW tx \in mempool' PROVE TxOK(chain', tx)
    OBVIOUS
  <2>1. TxOK(chain, tx) /\ u \notin tx.delegates
    BY <1>1, <1>2
  <2>2. tx.delegates \subseteq chain'.pool
    BY <1>3, <2>1 DEF TxOK
  <2> QED BY <1>3, <1>4, <2>1, <2>2 DEF TxOK
<1>11. ViewsOK(chain', emptied, root, feed, client)
  <2>1. \A view : Known(chain', view) <=> Known(chain, view)
    BY <1>3, <1>4 DEF Known
  <2> QED BY <1>2, <2>1 DEF ViewsOK
<1>12. RowsOK(chain', mempool', claimed)
  BY <1>2, <1>3, <1>4 DEF RowsOK
<1>13. SentOK(chain', mempool', client["example"])
  BY <1>1, <1>2, <1>3 DEF SentOK
<1> QED BY <1>1, <1>2, <1>5, <1>9, <1>10, <1>11, <1>12, <1>13 DEF Kept, AllOK

(* The index follows the next claim.                                         *)
LEMMA IndexedKeeps ==
  ASSUME ClaimsInv, Indexed
  PROVE  Kept
<1> DEFINE n == Cardinality(emptied)
<1>1. /\ n < Len(chain.claims)
      /\ emptied' = emptied \cup {chain.claims[n + 1].leaf}
      /\ root' = IF emptied' = Positions THEN root ELSE chain.claims[n + 1].root
      /\ UNCHANGED <<leaves, chain, mempool, client, feed, claimed>>
  BY DEF Indexed
<1>2. /\ leaves \in Bundles /\ ChainOK(chain)
      /\ AllOK(chain, mempool, emptied, root, feed, client, claimed)
  BY DEF ClaimsInv, AllOK
<1>3. PICK k \in 0..Len(chain.claims) : emptied = First(chain, k)
  <2> DEFINE view == [root |-> root, emptied |-> emptied]
  <2>1. Known(chain, view)
    BY <1>2 DEF AllOK, ViewsOK
  <2>2. view.emptied = emptied
    OBVIOUS
  <2> HIDE DEF view
  <2> QED BY <2>1, <2>2 DEF Known
<1>4. n = k /\ Len(chain.claims) \in Nat
  BY <1>2, <1>3, FirstCounts
<1> HIDE DEF n
<1>5. k + 1 \in 0..Len(chain.claims) /\ k + 1 \in 1..Len(chain.claims) /\ k \in Nat
  BY <1>1, <1>4
<1>6. emptied' = First(chain, k + 1)
  BY <1>1, <1>3, <1>4, <1>5, FirstGrows
<1>7. emptied' \subseteq Positions /\ Cardinality(emptied') = k + 1
  BY <1>2, <1>5, <1>6, FirstCounts
<1>8. emptied' = Positions <=> k + 1 = Len(leaves)
  BY <1>2, <1>7, AllOrLess
<1>9. Known(chain, [root |-> root', emptied |-> emptied'])
  <2> DEFINE view == [root |-> root', emptied |-> emptied']
  <2>1. view.emptied = First(chain, k + 1) /\ view.root = root'
    BY <1>6
  <2> HIDE DEF view
  <2>2. k + 1 < Len(leaves) => view.root = RootWithout(First(chain, k + 1))
    <3> SUFFICES ASSUME k + 1 < Len(leaves) PROVE root' = RootWithout(First(chain, k + 1))
      BY <2>1
    <3>1. emptied' # Positions
      BY <1>5, <1>8
    <3>2. root' = chain.claims[k + 1].root
      BY <1>1, <1>4, <3>1
    <3> QED BY <1>2, <1>5, <3>2 DEF ChainOK
  <2>3. Known(chain, view)
    BY <1>5, <2>1, <2>2 DEF Known
  <2> QED BY <2>3 DEF view
<1>10. ViewsOK(chain, emptied', root', feed, client)
  BY <1>2, <1>9 DEF AllOK, ViewsOK
<1> QED BY <1>1, <1>2, <1>10 DEF Kept, AllOK

---------------------------------------------------------------------------
(* Submitting *)

Awaits(old, tx) == [old EXCEPT !.pc = "Waiting", !.tx = tx]

LEMMA Awaited ==
  ASSUME NEW old, IsState(old), NEW tx
  PROVE  LET s == Awaits(old, tx)
         IN  IsState(s) /\ s.pc = "Waiting" /\ s.leaf = old.leaf /\ s.tx = tx
<1> DEFINE s == Awaits(old, tx)
<1>1. s = [old EXCEPT !.pc = "Waiting", !.tx = tx]
  BY DEF Awaits
<1> HIDE DEF s
<1>2. IsState(s) /\ s.pc = "Waiting" /\ s.leaf = old.leaf /\ s.tx = tx
  BY <1>1 DEF IsState
<1> QED BY <1>2 DEF s

(* A claim the node accepts was built from the family as it is on L1.        *)
LEMMA AcceptedOK ==
  ASSUME ClaimsInv, NEW c \in Clients, client[c].pc = "Submit", NEW fee,
         LET me == client[c]
         IN  AcceptedByNode(ClaimTx(c, me.view, me.leaf, me.delegates, me.collateral, fee))
  PROVE  LET me == client[c]
         IN  /\ TxOK(chain, ClaimTx(c, me.view, me.leaf, me.delegates, me.collateral, fee))
             /\ Len(chain.claims) < Len(leaves) /\ Len(chain.claims) \in Nat
             /\ me.view.root = RootWithout(Now(chain))
<1> DEFINE me == client[c]
           tx == ClaimTx(c, me.view, me.leaf, me.delegates, me.collateral, fee)
           n == Len(chain.claims)
<1>1. leaves \in Bundles /\ ChainOK(chain)
  BY DEF ClaimsInv, AllOK
<1>2. Known(chain, me.view) /\ me.leaf \in Positions \ me.view.emptied
  BY DEF ClaimsInv, AllOK, ViewsOK, Busy
<1>3. /\ tx.output = Cardinality(me.view.emptied) /\ tx.delegates = me.delegates
      /\ tx.change = Sum(me.delegates) - leaves[me.leaf + 1].amount
  BY DEF ClaimTx, Output
<1> HIDE DEF tx
<1>4. tx.output = n /\ tx.delegates \subseteq chain.pool /\ tx.change >= 0
  BY DEF AcceptedByNode, ValidOnL1, tx
<1> HIDE DEF me
<1>5. PICK k \in 0..n : /\ me.view.emptied = First(chain, k)
                        /\ k < Len(leaves) => me.view.root = RootWithout(First(chain, k))
  BY <1>2 DEF Known
<1>6. k = n /\ n \in Nat /\ First(chain, k) \subseteq Positions
  BY <1>1, <1>3, <1>4, <1>5, FirstCounts
<1>7. me.view.emptied = Now(chain)
  BY <1>5, <1>6 DEF Now
<1>8. n < Len(leaves)
  <2>1. Cardinality(Now(chain)) = n /\ Now(chain) \subseteq Positions /\ n <= Len(leaves)
    BY <1>1, <1>5, <1>6, FirstCounts DEF Now
  <2>2. Now(chain) # Positions
    BY <1>2, <1>7
  <2>3. n # Len(leaves)
    BY <1>1, <2>1, <2>2, AllOrLess
  <2>4. Len(leaves) \in Nat
    BY <1>1, Family
  <2> QED BY <1>6, <2>1, <2>3, <2>4
<1>9. TxOK(chain, tx)
  <2>1. /\ me.leaf \in Positions \ Now(chain) /\ me.delegates \in SUBSET chain.pool
        /\ Sum(me.delegates) - leaves[me.leaf + 1].amount >= 0
    BY <1>2, <1>3, <1>4, <1>7
  <2>2. TxOK(chain, ClaimTx(c, me.view, me.leaf, me.delegates, me.collateral, fee))
    BY <1>1, <1>7, <2>1, BuiltTx
  <2> QED BY <2>2 DEF tx
<1>10. me.view.root = RootWithout(Now(chain))
  BY <1>5, <1>6, <1>8 DEF Now
<1> QED BY <1>6, <1>8, <1>9, <1>10 DEF me, tx

LEMMA SubmitsKeeps ==
  ASSUME ClaimsInv, NEW c \in Clients, Submits(c)
  PROVE  Kept
<1> DEFINE me == client[c]
           claim(fee) == ClaimTx(c, me.view, me.leaf, me.delegates, me.collateral, fee)
           accepted(fee) == FeeFits(me.collateral, fee) /\ AcceptedByNode(claim(fee))
<1>1. PICK fee \in Fees :
        /\ me.pc = "Submit"
        /\ mempool' = IF accepted(fee) THEN mempool \cup {claim(fee)} ELSE mempool
        /\ claimed' = IF accepted(fee) /\ c = "web" THEN claimed \cup {RowKey(me.view, me.leaf)}
                      ELSE claimed
        /\ IF ~accepted(fee) THEN Fails(c)
           ELSE IF c = "web" THEN Moves(c, Idle)
           ELSE Moves(c, Awaits(me, claim(fee)))
        /\ UNCHANGED <<leaves, emptied, root, chain, feed>>
  BY DEF Submits, Awaits
<1>2. me.pc \notin Sent
  BY <1>1 DEF Sent
<1>3. CASE ~accepted(fee)
  <2>1. Fails(c) /\ mempool' = mempool /\ claimed' = claimed
    BY <1>1, <1>3
  <2> QED BY <1>1, <1>2, <2>1, FailsKeeps
<1>4. CASE accepted(fee)
  <2> DEFINE tx == claim(fee)
             n == Len(chain.claims)
  <2>1. /\ mempool' = mempool \cup {tx}
        /\ claimed' = IF c = "web" THEN claimed \cup {RowKey(me.view, me.leaf)} ELSE claimed
        /\ IF c = "web" THEN Moves(c, Idle) ELSE Moves(c, Awaits(me, tx))
    BY <1>1, <1>4
  <2>2. /\ TxOK(chain, tx) /\ n < Len(leaves) /\ n \in Nat
        /\ me.view.root = RootWithout(Now(chain))
    BY <1>1, <1>4, AcceptedOK
  <2>3. tx.by = c /\ tx.leaf = me.leaf
    BY DEF ClaimTx
  <2> HIDE DEF claim, accepted, tx
  <2>4. /\ \A other \in mempool : TxOK(chain, other)
        /\ RowsOK(chain, mempool, claimed)
        /\ SentOK(chain, mempool, client["example"]) /\ Shape(client)
        /\ "example" \in Clients
    BY DEF ClaimsInv, AllOK, Clients
  <2>5. \A other \in mempool' : TxOK(chain, other)
    BY <2>1, <2>2, <2>4
  <2>6. RowsOK(chain, mempool', claimed')
    <3> SUFFICES ASSUME NEW r \in claimed'
                 PROVE  \E k \in 0..n : /\ k < Len(leaves) /\ r[1] = RootWithout(First(chain, k))
                                        /\ mempool' # {}
      BY DEF RowsOK
    <3>1. mempool' # {}
      BY <2>1
    <3>2. CASE r \in claimed
      BY <2>4, <3>1, <3>2 DEF RowsOK
    <3>3. CASE r \notin claimed
      <4>1. r = RowKey(me.view, me.leaf)
        BY <2>1, <3>3
      <4>2. r[1] = RootWithout(First(chain, n))
        BY <2>2, <4>1 DEF RowKey, Now
      <4> QED BY <2>2, <3>1, <4>2
    <3> QED BY <3>2, <3>3
  <2>7. CASE c = "web"
    <3>1. Moves(c, Idle) /\ IsState(Idle) /\ Informed(Idle)
      BY <2>1, <2>7 DEF IsState, Informed, Idle, Busy
    <3>2. /\ leaves' = leaves /\ ChainOK(chain') /\ MoneyOK(chain')
          /\ ViewsOK(chain', emptied', root', feed', client') /\ Shape(client')
      BY <1>1, <3>1, ClientInformed
    <3>3. client'["example"] = client["example"]
      BY <2>4, <2>7, <3>1, ClientMoves
    <3>4. SentOK(chain, mempool', client'["example"])
      BY <2>1, <2>3, <2>4, <2>7, <3>3 DEF SentOK
    <3> QED BY <1>1, <2>5, <2>6, <3>2, <3>4 DEF Kept, AllOK
  <2>8. CASE c # "web"
    <3> DEFINE s == Awaits(me, tx)
    <3>1. c = "example" /\ Moves(c, s)
      BY <2>1, <2>8 DEF Clients
    <3>2. IsState(s) /\ s.pc = "Waiting" /\ s.leaf = me.leaf /\ s.tx = tx
      BY <2>4, Awaited DEF Shape
    <3> HIDE DEF s
    <3>3. Informed(s)
      BY <3>2 DEF Informed, Busy
    <3>4. /\ leaves' = leaves /\ ChainOK(chain') /\ MoneyOK(chain')
          /\ ViewsOK(chain', emptied', root', feed', client') /\ Shape(client')
      BY <1>1, <3>1, <3>2, <3>3, ClientInformed
    <3>5. client'["example"] = s
      BY <2>4, <3>1, <3>2, ClientMoves
    <3>6. SentOK(chain, mempool', s)
      BY <1>2, <2>1, <2>3, <2>4, <3>1, <3>2 DEF SentOK, Sent
    <3> QED BY <1>1, <2>5, <2>6, <3>4, <3>5, <3>6 DEF Kept, AllOK
  <2> QED BY <2>7, <2>8
<1> QED BY <1>3, <1>4

---------------------------------------------------------------------------
(* Theorems *)

LEMMA ClaimsStep == ClaimsInv /\ [ClaimsNext]_claimVars => ClaimsInv'
<1> SUFFICES ASSUME ClaimsInv, [ClaimsNext]_claimVars PROVE Kept
  BY KeptIsInv
<1>1. CASE ExampleFetches
  BY <1>1, ExampleFetchesKeeps
<1>2. CASE ExampleWaits
  BY <1>2, ExampleWaitsKeeps
<1>3. CASE WebClicks
  BY <1>3, WebClicksKeeps
<1>4. CASE WebPolls
  BY <1>4, WebPollsKeeps
<1>5. ASSUME NEW c \in Clients, ReadsPool(c) PROVE Kept
  BY <1>5, ReadsPoolKeeps
<1>6. ASSUME NEW c \in Clients, ReadsPurse(c) PROVE Kept
  BY <1>6, ReadsPurseKeeps
<1>7. ASSUME NEW c \in Clients, Submits(c) PROVE Kept
  BY <1>7, SubmitsKeeps
<1>8. CASE Mined
  BY <1>8, MinedKeeps
<1>9. CASE OthersClaim
  BY <1>9, OthersClaimKeeps
<1>10. CASE OthersSpend
  BY <1>10, OthersSpendKeeps
<1>11. CASE Indexed
  BY <1>11, IndexedKeeps
<1>12. CASE UNCHANGED claimVars
  BY <1>12 DEF claimVars, Kept, ClaimsInv
<1> QED BY <1>1, <1>2, <1>3, <1>4, <1>5, <1>6, <1>7, <1>8, <1>9, <1>10, <1>11, <1>12 DEF ClaimsNext

(* Views are of the chain as it was, waiting claims of the chain as it is,   *)
(* whichever claims and spends were confirmed between a client's reads.      *)
THEOREM ClaimsInvariant == ClaimsSpec => []ClaimsInv
<1>1. ClaimsInit => ClaimsInv
  BY Starts
<1> QED BY <1>1, ClaimsStep, PTL DEF ClaimsSpec

LEMMA ClaimedNow ==
  ASSUME ChainOK(chain)
  PROVE  Claimed = Now(chain)
<1>1. DOMAIN chain.claims = 1..Len(chain.claims)
  BY RowOf DEF ChainOK
<1> QED BY <1>1 DEF Claimed, Now, First

(* What the view serves for a leaf that is left (exit_views) folds to the    *)
(* root of the output, in a family of any size and after any claims.         *)
THEOREM LeavesStayClaimable == ClaimsSpec => []EveryLeafClaimable
<1>1. ClaimsInv => EveryLeafClaimable
  <2> SUFFICES ASSUME ClaimsInv, NEW i \in Positions \ emptied
               PROVE  Folded(i, HashLeaf(leaves[i + 1]), Siblings(emptied, i)) = root
    BY DEF EveryLeafClaimable
  <2>1. leaves \in Bundles /\ ChainOK(chain)
    BY DEF ClaimsInv, AllOK
  <2> DEFINE view == [root |-> root, emptied |-> emptied]
  <2>2. Known(chain, view)
    BY DEF ClaimsInv, AllOK, ViewsOK
  <2>3. view.emptied = emptied /\ view.root = root
    OBVIOUS
  <2> HIDE DEF view
  <2>4. PICK k \in 0..Len(chain.claims) :
          emptied = First(chain, k) /\ (k < Len(leaves) => root = RootWithout(emptied))
    BY <2>2, <2>3 DEF Known
  <2>5. emptied \subseteq Positions /\ Cardinality(emptied) = k /\ k <= Len(leaves)
    BY <2>1, <2>4, FirstCounts
  <2>6. k # Len(leaves)
    BY <2>1, <2>5, AllOrLess
  <2>7. Len(leaves) \in Nat \ {0}
    BY <2>1, Family
  <2>8. root = RootWithout(emptied)
    BY <2>4, <2>5, <2>6, <2>7
  <2> QED BY <2>7, <2>8, LeafFolds
<1> QED BY <1>1, ClaimsInvariant, PTL

(* The pool pays for each claimed leaf once, whoever claimed it, and the     *)
(* rent goes out with the last (encoder-wasm build_permission_spend).        *)
THEOREM EachLeafPaidOnce == ClaimsSpec => []PaysEachLeafOnce
<1>1. ClaimsInv => PaysEachLeafOnce
  <2> SUFFICES ASSUME ClaimsInv PROVE PaysEachLeafOnce
    OBVIOUS
  <2>1. leaves \in Bundles /\ ChainOK(chain) /\ MoneyOK(chain)
    BY DEF ClaimsInv, AllOK
  <2>2. Claimed = Now(chain)
    BY <2>1, ClaimedNow
  <2>3. Cardinality(Claimed) = Len(chain.claims)
    <3>1. Len(chain.claims) \in 0..Len(chain.claims)
      BY <2>1, FirstCounts
    <3> QED BY <2>1, <2>2, <3>1, FirstCounts DEF Now
  <2>4. SumFunctionOnSet([i \in Claimed |-> leaves[i + 1].amount], Claimed) = Worth(Now(chain))
    BY <2>2 DEF Worth
  <2>5. Sum(chain.pool) = Sum(Pool) - Worth(Now(chain)) - chain.spentByOthers
    BY <2>1 DEF MoneyOK
  <2>6. SumFunctionOnSet([p \in chain.paid |-> p[2]], chain.paid)
          = Worth(Now(chain)) + IF Claimed = Positions THEN Rent ELSE 0
    BY <2>1, <2>2 DEF MoneyOK
  <2> QED BY <2>3, <2>4, <2>5, <2>6 DEF PaysEachLeafOnce
<1> QED BY <1>1, ClaimsInvariant, PTL

(* The example that reports a complete claim has been paid for the leaf it   *)
(* fetched, whatever its purse held before (claim example, wait for payout). *)
THEOREM CompleteIsPaid == ClaimsSpec => []CompleteMeansPaid
<1>1. ClaimsInv => CompleteMeansPaid
  <2> SUFFICES ASSUME ClaimsInv, client["example"].pc = "Complete"
               PROVE  LET i == client["example"].leaf
                      IN  i \in Claimed /\ \E p \in chain.paid : p[1] = i /\ p[2] >= leaves[i + 1].amount
    BY DEF CompleteMeansPaid
  <2>1. ChainOK(chain) /\ MoneyOK(chain) /\ SentOK(chain, mempool, client["example"])
    BY DEF ClaimsInv, AllOK
  <2>2. PICK k \in 1..Len(chain.claims) : chain.claims[k].by = "example"
    BY <2>1 DEF SentOK
  <2>3. chain.claims[k].leaf = client["example"].leaf
    BY <2>1, <2>2 DEF SentOK
  <2>4. client["example"].leaf \in Now(chain)
    BY <2>3 DEF Now, First
  <2>5. Claimed = Now(chain)
    BY <2>1, ClaimedNow
  <2> QED BY <2>1, <2>4, <2>5 DEF MoneyOK
<1> QED BY <1>1, ClaimsInvariant, PTL

(* The deposits cover a settled family, also after a sompi went elsewhere.   *)
PoolCovers ==
  \A b \in Bundles :
    LET all == 0..(Len(b) - 1)
    IN  SumFunctionOnSet([i \in all |-> b[i + 1].amount], all) < Sum(Pool)

(* A row of a web client that has caught up can be claimed: its button is    *)
(* enabled unless its own claim lost its delegates, and its arguments are    *)
(* valid (web/src/claim.ts, ClaimExits.tsx).                                 *)
THEOREM RowsCanBeClaimed == ASSUME PoolCovers PROVE ClaimsSpec => []QuietRowsClaim
<1>1. ClaimsInv => QuietRowsClaim
  <2> SUFFICES ASSUME ClaimsInv, Quiet, NEW i \in OwnUnspent(feed, "web")
               PROVE  /\ RowEnabled(i) \/ chain.spentByOthers > 0
                      /\ \E u \in chain.purse["web"] :
                           ValidOnL1(ClaimTx("web", feed, i, chain.pool, u, 0))
    BY DEF QuietRowsClaim
  <2> DEFINE n == Len(chain.claims)
  <2>1. leaves \in Bundles /\ ChainOK(chain) /\ MoneyOK(chain) /\ RowsOK(chain, mempool, claimed)
        /\ Known(chain, feed)
    BY DEF ClaimsInv, AllOK, ViewsOK
  <2>2. mempool = {} /\ feed.emptied = Now(chain) /\ client["web"].pc = "Idle"
    BY <2>1, ClaimedNow DEF Quiet, Served
  <2>3. i \in Positions \ Now(chain)
    BY <2>2 DEF OwnUnspent, Unspent
  <2>4. /\ n \in Nat /\ Now(chain) \subseteq Positions /\ Cardinality(Now(chain)) = n
        /\ Len(leaves) \in Nat \ {0}
    <3>1. n \in Nat /\ n \in 0..n
      BY <2>1, FirstCounts
    <3> QED BY <2>1, <3>1, FirstCounts, Family DEF Now
  <2>5. feed.root = RootWithout(Now(chain))
    <3>1. PICK k \in 0..n : /\ feed.emptied = First(chain, k)
                            /\ k < Len(leaves) => feed.root = RootWithout(First(chain, k))
      BY <2>1 DEF Known
    <3>2. Cardinality(First(chain, k)) = k /\ k <= Len(leaves)
      BY <2>1, FirstCounts
    <3>3. k # Len(leaves)
      BY <2>1, <2>2, <2>3, <2>4, <3>1, <3>2, AllOrLess
    <3> QED BY <2>2, <2>4, <3>1, <3>2, <3>3
  <2>6. RowEnabled(i) \/ chain.spentByOthers > 0
    <3> SUFFICES ASSUME RowKey(feed, i) \in claimed PROVE chain.spentByOthers > 0
      BY <2>2 DEF RowEnabled
    <3>1. RowKey(feed, i)[1] = RootWithout(Now(chain))
      BY <2>5 DEF RowKey
    <3>2. PICK k \in 0..n : /\ k < Len(leaves) /\ RootWithout(Now(chain)) = RootWithout(First(chain, k))
                            /\ k = n => mempool # {} \/ chain.spentByOthers # 0
      BY <2>1, <3>1 DEF RowsOK
    <3>3. First(chain, k) \subseteq Positions /\ Cardinality(First(chain, k)) = k
      BY <2>1, FirstCounts
    <3>4. \A j \in Positions : j \in Now(chain) <=> j \in First(chain, k)
      BY <2>4, <3>2, RootsTell
    <3>5. Now(chain) = First(chain, k)
      BY <2>4, <3>3, <3>4
    <3>6. k = n
      BY <2>4, <3>3, <3>5
    <3>7. chain.spentByOthers \in {0, 1}
      BY <2>1 DEF MoneyOK
    <3> QED BY <2>2, <3>2, <3>6, <3>7
  <2>7. Sum(chain.pool) - leaves[i + 1].amount >= 0
    <3> DEFINE amount == leaves[i + 1].amount
    <3>1. Worth(Positions) < Sum(Pool)
      BY <2>1 DEF PoolCovers, Worth, Positions
    <3>2. /\ Worth(Now(chain) \cup {i}) = Worth(Now(chain)) + amount
          /\ Worth(Now(chain) \cup {i}) <= Worth(Positions)
      <4>1. Now(chain) \in SUBSET Positions /\ Now(chain) \cup {i} \in SUBSET Positions
        BY <2>3, <2>4
      <4> QED BY <2>1, <2>3, <4>1, WorthGrows, WorthIsPart
    <3>3. /\ Worth(Now(chain)) \in Nat /\ Worth(Positions) \in Nat /\ amount \in Nat
          /\ Sum(Pool) \in Nat
      BY <2>1, <2>3, <2>4, WorthSum, Family, ClaimsAssumption, UtxoSum
    <3>4. /\ Sum(chain.pool) = Sum(Pool) - Worth(Now(chain)) - chain.spentByOthers
          /\ chain.spentByOthers \in {0, 1}
      BY <2>1 DEF MoneyOK
    <3> HIDE DEF amount
    <3>5. Sum(chain.pool) - amount >= 0
      BY <3>1, <3>2, <3>3, <3>4
    <3> QED BY <3>5 DEF amount
  <2>8. PICK u : u \in chain.purse["web"]
    BY <2>1 DEF ChainOK
  <2> DEFINE tx == ClaimTx("web", feed, i, chain.pool, u, 0)
  <2>9. /\ tx.output = Cardinality(feed.emptied) /\ tx.leaf = i
        /\ tx.siblings = Siblings(feed.emptied, i) /\ tx.delegates = chain.pool
        /\ tx.change = Sum(chain.pool) - leaves[i + 1].amount
        /\ tx.collateral = u /\ tx.by = "web"
    BY DEF ClaimTx, Output
  <2>10. Folded(i, HashLeaf(leaves[i + 1]), Siblings(feed.emptied, i)) = chain.root
    <3>1. chain.root = RootWithout(Now(chain))
      BY <2>1 DEF ChainOK
    <3> QED BY <2>2, <2>3, <2>4, <3>1, LeafFolds
  <2>11. ValidOnL1(tx)
    <3> HIDE DEF tx
    <3> QED BY <2>2, <2>4, <2>7, <2>8, <2>9, <2>10 DEF ValidOnL1
  <2> QED BY <2>6, <2>8, <2>11
<1> QED BY <1>1, ClaimsInvariant, PTL

=============================================================================
