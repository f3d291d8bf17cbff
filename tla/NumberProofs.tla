---------------------------- MODULE NumberProofs ----------------------------
(***************************************************************************)
(* The two ends of a session connection count the same synchronization     *)
(* points, and no major one waits for a confirmation that will not come.   *)
(*                                                                         *)
(* A point that is on its way is one that only its sender has counted.  So *)
(* the number of a point, and of an answer to a resynchronization, is that *)
(* of the peer less the points from there on; the invariant says for which *)
(* points this holds, and who may send one: whoever has the token for it   *)
(* has no point coming, because points never overtake a gift.              *)
(***************************************************************************)
EXTENDS TokenProofs, FiniteSetTheorems

PointCode == {"MIP", "MAP"}

(* The token every sync point takes.                                       *)
Key == IF "min" \in Tokens THEN "min" ELSE "maj"

(* How many SPDUs of the given codes there are in q from its i-th on.      *)
Since(q, i, cs) == {j \in 1..Len(q) : j >= i /\ q[j].code \in cs}
From(q, i, cs)  == Cardinality(Since(q, i, cs))

(* r is q, and what is new in it is of other codes ...                     *)
Fills(q, r, g, cs) ==
    /\ Embedded(q, r, g)
    /\ \A k \in 1..Len(r) : r[k].code \in cs => \E i \in 1..Len(q) : k = g[i]

(* ... except for m, which comes last.                                     *)
Adds(q, r, g, m, cs) ==
    /\ Embedded(q, r, g)
    /\ Len(r) \in 1..Len(r) /\ r[Len(r)] = m
    /\ \A i \in 1..Len(q) : g[i] < Len(r)
    /\ \A k \in 1..Len(r) : r[k].code \in cs => k = Len(r) \/ \E i \in 1..Len(q) : k = g[i]

-----------------------------------------------------------------------------
(* Counting.                                                               *)

LEMMA FromTyped ==
    ASSUME NEW q \in Seq(SpduSet), NEW i, NEW cs
    PROVE  /\ IsFiniteSet(Since(q, i, cs)) /\ From(q, i, cs) \in Nat
           /\ From(q, i, cs) = 0 <=> \A j \in 1..Len(q) : j >= i => q[j].code \notin cs
<1>1. IsFiniteSet(1..Len(q)) /\ Since(q, i, cs) \in SUBSET (1..Len(q))
  BY FS_Interval DEF Since
<1>2. IsFiniteSet(Since(q, i, cs))
  BY <1>1, FS_Subset, Zenon
<1>3. From(q, i, cs) \in Nat /\ (From(q, i, cs) = 0 <=> Since(q, i, cs) = {})
  BY <1>2, FS_CardinalityType, FS_EmptySet, Zenon DEF From
<1> QED BY <1>2, <1>3 DEF Since

(* What fills a queue adds nothing to the count, from anywhere in it.      *)
LEMMA FromFills ==
    ASSUME NEW q \in Seq(SpduSet), NEW r \in Seq(SpduSet), NEW g, NEW cs, NEW ds,
           Fills(q, r, g, cs), ds \subseteq cs
    PROVE  /\ \A i \in 1..Len(q) : From(r, g[i], ds) = From(q, i, ds)
           /\ From(r, 1, ds) = From(q, 1, ds)
<1>1. ASSUME NEW a, NEW b \in Int,
             \A j \in 1..Len(q) : q[j].code \in ds => (j >= a <=> g[j] >= b)
      PROVE  From(r, b, ds) = From(q, a, ds)
  <2> DEFINE S == Since(q, a, ds)
             T == Since(r, b, ds)
             f == [j \in S |-> g[j]]
  <2>1. \A j \in S : g[j] \in T
    BY <1>1 DEF Fills, Embedded, Since
  <2>2. \A t \in T : \E j \in S : g[j] = t
    BY <1>1 DEF Fills, Embedded, Since
  <2>3. \A i, j \in S : g[i] = g[j] => i = j
    BY DEF Fills, Embedded, Since
  <2>4. \A j \in S : f[j] = g[j]
    OBVIOUS
  <2>5. f \in [S -> T]
    BY <2>1
  <2> HIDE DEF S, T, f
  <2>6. f \in Bijection(S, T)
    BY <2>2, <2>3, <2>4, <2>5 DEF Bijection, Injection, IsInjective, Surjection
  <2>7. ExistsBijection(S, T) /\ IsFiniteSet(S)
    BY <2>6, FromTyped DEF ExistsBijection, S
  <2> QED BY <2>7, FS_Bijection DEF From, S, T
<1>2. ASSUME NEW i \in 1..Len(q) PROVE From(r, g[i], ds) = From(q, i, ds)
  <2>1. /\ g[i] \in Int /\ g[i] <= Len(r)
        /\ \A j \in 1..Len(q) : j >= i <=> g[j] >= g[i]
    BY DEF Fills, Embedded
  <2> QED BY <1>1, <2>1
<1>3. From(r, 1, ds) = From(q, 1, ds)
  <2>1. \A j \in 1..Len(q) : g[j] \in 1..Len(r)
    BY DEF Fills, Embedded
  <2>2. \A j \in 1..Len(q) : j >= 1 <=> g[j] >= 1
    BY <2>1
  <2> QED BY <1>1, <2>2
<1> QED BY <1>2, <1>3

(* Counted once more from everywhere, and from everywhere as often.        *)
Raised(q, r, g, ds) ==
    /\ \A i \in 1..Len(q) : From(r, g[i], ds) = From(q, i, ds) + 1
    /\ From(r, 1, ds) = From(q, 1, ds) + 1
    /\ From(r, Len(r), ds) = 1
Level(q, r, g, ds) ==
    /\ \A i \in 1..Len(q) : From(r, g[i], ds) = From(q, i, ds)
    /\ From(r, 1, ds) = From(q, 1, ds)

(* The one that joins is counted from everywhere.                          *)
LEMMA FromAdds ==
    ASSUME NEW q \in Seq(SpduSet), NEW r \in Seq(SpduSet), NEW g, NEW m, NEW cs, NEW ds,
           Adds(q, r, g, m, cs), ds \subseteq cs
    PROVE  /\ m.code \in ds => Raised(q, r, g, ds)
           /\ m.code \notin ds => Level(q, r, g, ds)
<1> DEFINE l == Len(r)
<1>1. ASSUME NEW a, NEW b \in Int, b <= l,
             \A j \in 1..Len(q) : q[j].code \in ds => (j >= a <=> g[j] >= b)
      PROVE  /\ m.code \in ds => From(r, b, ds) = From(q, a, ds) + 1
             /\ m.code \notin ds => From(r, b, ds) = From(q, a, ds)
  <2> DEFINE S == Since(q, a, ds)
             T == Since(r, b, ds) \ {l}
             f == [j \in S |-> g[j]]
  <2>1. \A j \in S : g[j] \in T
    BY <1>1 DEF Adds, Embedded, Since
  <2>2. \A t \in T : \E j \in S : g[j] = t
    BY <1>1 DEF Adds, Embedded, Since
  <2>3. \A i, j \in S : g[i] = g[j] => i = j
    BY DEF Adds, Embedded, Since
  <2>4. \A j \in S : f[j] = g[j]
    OBVIOUS
  <2>5. f \in [S -> T]
    BY <2>1
  <2>9. l \in Since(r, b, ds) <=> m.code \in ds
    BY <1>1 DEF Adds, Since
  <2> HIDE DEF S, T, f, l
  <2>6. f \in Bijection(S, T)
    BY <2>2, <2>3, <2>4, <2>5 DEF Bijection, Injection, IsInjective, Surjection
  <2>7. ExistsBijection(S, T) /\ IsFiniteSet(S) /\ IsFiniteSet(Since(r, b, ds))
    BY <2>6, FromTyped DEF ExistsBijection, S
  <2>8. Cardinality(T) = Cardinality(S)
    BY <2>7, FS_Bijection
  <2>10. Cardinality(T) = IF l \in Since(r, b, ds) THEN From(r, b, ds) - 1
                          ELSE From(r, b, ds)
    BY <2>7, FS_RemoveElement DEF From, T
  <2>11. From(r, b, ds) \in Nat /\ From(q, a, ds) \in Nat /\ Cardinality(S) = From(q, a, ds)
    BY FromTyped DEF From, S
  <2>12. ASSUME m.code \in ds PROVE From(r, b, ds) = From(q, a, ds) + 1
    <3>1. From(q, a, ds) = From(r, b, ds) - 1
      BY <2>8, <2>9, <2>10, <2>11, <2>12, Zenon
    <3> QED BY <2>11, <3>1
  <2>13. ASSUME m.code \notin ds PROVE From(r, b, ds) = From(q, a, ds)
    BY <2>8, <2>9, <2>10, <2>11, <2>13, Zenon
  <2> QED BY <2>12, <2>13
<1>2. ASSUME NEW i \in 1..Len(q)
      PROVE  /\ m.code \in ds => From(r, g[i], ds) = From(q, i, ds) + 1
             /\ m.code \notin ds => From(r, g[i], ds) = From(q, i, ds)
  <2>1. /\ g[i] \in Int /\ g[i] <= l
        /\ \A j \in 1..Len(q) : j >= i <=> g[j] >= g[i]
    BY DEF Adds, Embedded
  <2> QED BY <1>1, <2>1
<1>3. /\ m.code \in ds => From(r, 1, ds) = From(q, 1, ds) + 1
      /\ m.code \notin ds => From(r, 1, ds) = From(q, 1, ds)
  <2>1. 1 <= l /\ \A j \in 1..Len(q) : j >= 1 <=> g[j] >= 1
    BY DEF Adds, Embedded
  <2> QED BY <1>1, <2>1
<1>4. m.code \in ds => From(r, l, ds) = 1
  <2>1. l \in Int /\ l <= l /\ \A j \in 1..Len(q) : ~(j >= Len(q) + 1) /\ ~(g[j] >= l)
    BY DEF Adds, Embedded
  <2>2. m.code \in ds => From(r, l, ds) = From(q, Len(q) + 1, ds) + 1
    BY <1>1, <2>1
  <2>3. From(q, Len(q) + 1, ds) = 0
    BY <2>1, FromTyped
  <2> QED BY <2>2, <2>3
<1> QED BY <1>2, <1>3, <1>4 DEF Raised, Level

(* Reading takes the first one off.                                        *)
LEMMA FromTail ==
    ASSUME NEW q \in Seq(SpduSet), q # <<>>, NEW ds
    PROVE  /\ \A i \in 1..Len(Tail(q)) : From(Tail(q), i, ds) = From(q, i + 1, ds)
           /\ From(q, 1, ds) = From(Tail(q), 1, ds) + One(q[1].code \in ds)
<1> DEFINE t == Tail(q)
<1>1. /\ \A i \in 1..Len(t) : i + 1 \in 1..Len(q) /\ t[i] = q[i + 1]
      /\ \A j \in 1..Len(q) : j > 1 => j - 1 \in 1..Len(t) /\ t[j - 1] = q[j]
  BY BehindTail
<1>2. t \in Seq(SpduSet) /\ 1 \in 1..Len(q)
  OBVIOUS
<1> HIDE DEF t
<1>3. ASSUME NEW i \in Nat, i > 0 PROVE From(t, i, ds) = From(q, i + 1, ds)
  <2> DEFINE S == Since(t, i, ds)
             T == Since(q, i + 1, ds)
             f == [j \in S |-> j + 1]
  <2>1. \A j \in S : j + 1 \in T
    BY <1>1 DEF Since
  <2>2. ASSUME NEW k \in T PROVE \E j \in S : j + 1 = k
    <3>1. k \in 1..Len(q) /\ k >= i + 1 /\ q[k].code \in ds
      BY DEF Since
    <3>2. k - 1 \in 1..Len(t) /\ t[k - 1] = q[k] /\ k - 1 >= i /\ (k - 1) + 1 = k
      BY <1>1, <1>3, <3>1
    <3>3. k - 1 \in S
      BY <3>1, <3>2 DEF Since
    <3> QED BY <3>2, <3>3
  <2>3. \A a, b \in S : a + 1 = b + 1 => a = b
    BY DEF Since
  <2>4. \A j \in S : f[j] = j + 1
    OBVIOUS
  <2>5. f \in [S -> T]
    BY <2>1
  <2> HIDE DEF S, T, f
  <2>6. f \in Bijection(S, T)
    BY <2>2, <2>3, <2>4, <2>5 DEF Bijection, Injection, IsInjective, Surjection
  <2>7. ExistsBijection(S, T) /\ IsFiniteSet(S)
    BY <1>2, <2>6, FromTyped DEF ExistsBijection, S
  <2> QED BY <2>7, FS_Bijection DEF From, S, T
<1>4. From(q, 1, ds) = From(q, 2, ds) + One(q[1].code \in ds)
  <2>1. Since(q, 2, ds) = Since(q, 1, ds) \ {1}
    BY DEF Since
  <2>2. 1 \in Since(q, 1, ds) <=> q[1].code \in ds
    BY <1>2 DEF Since
  <2>3. IsFiniteSet(Since(q, 1, ds)) /\ From(q, 1, ds) \in Nat
    BY FromTyped
  <2>4. From(q, 2, ds) = IF 1 \in Since(q, 1, ds) THEN From(q, 1, ds) - 1 ELSE From(q, 1, ds)
    BY <2>1, <2>3, FS_RemoveElement DEF From
  <2> QED BY <2>2, <2>3, <2>4 DEF One
<1>5. From(t, 1, ds) = From(q, 2, ds)
  BY <1>3
<1>6. \A i \in 1..Len(t) : From(t, i, ds) = From(q, i + 1, ds)
  BY <1>2, <1>3
<1> QED BY <1>4, <1>5, <1>6 DEF t

-----------------------------------------------------------------------------
(* What fills a queue, and what is added to it.                            *)

(* Nothing is.                                                             *)
LEMMA FillsSame == \A q, cs : \E g : Fills(q, q, g, cs)
<1> TAKE q, cs
<1> DEFINE g == [i \in 1..Len(q) |-> i]
<1>1. Fills(q, q, g, cs)
  BY DEF Fills, Embedded
<1> QED BY <1>1, Zenon

(* An SPDU of another code, put anywhere, fills it.                        *)
LEMMA FillsInsert ==
    ASSUME NEW q \in Seq(SpduSet), NEW n \in 0..Len(q), NEW x \in SpduSet,
           NEW cs, x.code \notin cs
    PROVE  \E g : Fills(q, InsertAfter(q, n, x), g, cs)
<1> DEFINE r == InsertAfter(q, n, x)
           g == [i \in 1..Len(q) |-> IF i <= n THEN i ELSE i + 1]
<1>1. /\ Len(r) = Len(q) + 1
      /\ \A i \in 1..n : r[i] = q[i]
      /\ r[n + 1] = x
      /\ \A i \in 1..Len(q) + 1 : i > n + 1 => r[i] = q[i - 1]
  BY Inserted
<1>n. Len(q) \in Nat /\ n \in Nat /\ n <= Len(q)
  OBVIOUS
<1> HIDE DEF r
<1>2. \A i \in 1..Len(q) : /\ g[i] \in 1..Len(r)
                           /\ \A j \in 1..Len(q) : j > i => g[j] > g[i]
  BY <1>1, <1>n
<1>3. ASSUME NEW i \in 1..Len(q) PROVE r[g[i]] = q[i]
  <2>1. CASE i <= n
    BY <1>1, <1>n, <2>1
  <2>2. CASE i > n
    <3>1. i + 1 \in 1..Len(q) + 1 /\ i + 1 > n + 1 /\ (i + 1) - 1 = i /\ g[i] = i + 1
      BY <1>n, <2>2
    <3> QED BY <1>1, <3>1
  <2> QED BY <1>n, <2>1, <2>2
<1>4. ASSUME NEW k \in 1..Len(r), k # n + 1 PROVE \E i \in 1..Len(q) : k = g[i]
  <2>1. CASE k <= n
    <3>1. k \in 1..Len(q) /\ g[k] = k
      BY <1>n, <2>1
    <3> QED BY <3>1
  <2>2. CASE k > n + 1
    <3>1. k - 1 \in 1..Len(q) /\ g[k - 1] = k
      BY <1>1, <1>n, <2>2
    <3> QED BY <3>1
  <2> QED BY <1>1, <1>4, <1>n, <2>1, <2>2
<1> HIDE DEF g
<1>5. Fills(q, r, g, cs)
  BY <1>1, <1>2, <1>3, <1>4 DEF Fills, Embedded
<1> QED BY <1>5, Zenon DEF r

(* What is filled behind the same SPDUs.                                   *)
LEMMA FillsBehind ==
    ASSUME NEW p \in Seq(SpduSet), NEW q \in Seq(SpduSet), NEW r \in Seq(SpduSet),
           NEW g, NEW cs, Fills(q, r, g, cs)
    PROVE  \E f : Fills(p \o q, p \o r, f, cs)
<1> DEFINE n == Len(p)
           a == p \o q
           b == p \o r
           f == [i \in 1..Len(a) |-> IF i <= n THEN i ELSE g[i - n] + n]
<1>1. /\ n \in Nat /\ Len(q) \in Nat /\ Len(r) \in Nat
      /\ Len(a) = n + Len(q) /\ Len(b) = n + Len(r)
  OBVIOUS
<1>2. \A i \in 1..Len(a) : IF i <= n THEN a[i] = p[i] ELSE i - n \in 1..Len(q) /\ a[i] = q[i - n]
  OBVIOUS
<1>3. \A i \in 1..n : i \in 1..Len(b) /\ b[i] = p[i]
  OBVIOUS
<1>4. \A i \in 1..Len(r) : i + n \in 1..Len(b) /\ b[i + n] = r[i]
  OBVIOUS
<1> HIDE DEF n, a, b
<1>g. \A i \in 1..Len(q) : /\ g[i] \in 1..Len(r) /\ r[g[i]] = q[i]
                           /\ \A j \in 1..Len(q) : j > i => g[j] > g[i]
  BY DEF Fills, Embedded
<1>5. ASSUME NEW i \in 1..Len(a)
      PROVE  f[i] \in 1..Len(b) /\ b[f[i]] = a[i] /\ (i > n => f[i] > n)
  <2>1. CASE i <= n
    BY <1>1, <1>2, <1>3, <2>1
  <2>2. CASE i > n
    <3>1. i - n \in 1..Len(q) /\ a[i] = q[i - n]
      BY <1>1, <1>2, <2>2
    <3>2. g[i - n] \in 1..Len(r) /\ r[g[i - n]] = q[i - n]
      BY <1>g, <3>1
    <3>3. f[i] = g[i - n] + n
      BY <1>1, <2>2
    <3> QED BY <1>1, <1>4, <2>2, <3>1, <3>2, <3>3
  <2> QED BY <1>1, <2>1, <2>2
<1>6. ASSUME NEW i \in 1..Len(a), NEW j \in 1..Len(a), j > i
      PROVE  f[j] > f[i]
  <2>1. CASE i > n
    <3>1. i - n \in 1..Len(q) /\ j - n \in 1..Len(q) /\ j - n > i - n
      BY <1>1, <1>2, <1>6, <2>1
    <3>2. g[j - n] > g[i - n] /\ g[i - n] \in 1..Len(r) /\ g[j - n] \in 1..Len(r)
      BY <1>g, <3>1
    <3>3. f[i] = g[i - n] + n /\ f[j] = g[j - n] + n
      BY <1>1, <1>6, <2>1
    <3> QED BY <1>1, <3>2, <3>3
  <2>2. CASE i <= n
    BY <1>1, <1>5, <1>6, <2>2
  <2> QED BY <1>1, <2>1, <2>2
<1>7. ASSUME NEW k \in 1..Len(b), b[k].code \in cs PROVE \E i \in 1..Len(a) : k = f[i]
  <2>1. CASE k <= n
    <3>1. k \in 1..Len(a) /\ f[k] = k
      BY <1>1, <2>1
    <3> QED BY <3>1
  <2>2. CASE k > n
    <3>1. k - n \in 1..Len(r) /\ (k - n) + n = k
      BY <1>1, <2>2
    <3>2. r[k - n].code \in cs
      BY <1>4, <1>7, <3>1
    <3>3. PICK i \in 1..Len(q) : k - n = g[i]
      BY <3>1, <3>2 DEF Fills
    <3>4. i + n \in 1..Len(a) /\ f[i + n] = g[i] + n
      BY <1>1
    <3> QED BY <1>1, <3>1, <3>3, <3>4
  <2> QED BY <1>1, <2>1, <2>2
<1>8. Fills(a, b, f, cs)
  <2> HIDE DEF f
  <2> QED BY <1>5, <1>6, <1>7 DEF Fills, Embedded
<1> QED BY <1>8, Zenon DEF a, b

(* What comes last is added.                                               *)
LEMMA AddsAppend ==
    ASSUME NEW q \in Seq(SpduSet), NEW a \in Seq(SpduSet), NEW g, NEW cs, Fills(q, a, g, cs),
           NEW m \in SpduSet
    PROVE  Adds(q, Append(a, m), g, m, cs)
<1> DEFINE r == Append(a, m)
<1>1. /\ Len(r) = Len(a) + 1 /\ Len(a) \in Nat
      /\ r[Len(r)] = m /\ \A i \in 1..Len(a) : r[i] = a[i]
  OBVIOUS
<1> HIDE DEF r
<1>2. \A i \in 1..Len(q) : /\ g[i] \in 1..Len(a) /\ a[g[i]] = q[i]
                           /\ \A j \in 1..Len(q) : j > i => g[j] > g[i]
  BY DEF Fills, Embedded
<1>3. Embedded(q, r, g) /\ \A i \in 1..Len(q) : g[i] < Len(r)
  BY <1>1, <1>2 DEF Embedded
<1>4. \A k \in 1..Len(r) : r[k].code \in cs => k = Len(r) \/ \E i \in 1..Len(q) : k = g[i]
  BY <1>1 DEF Fills
<1> QED BY <1>1, <1>3, <1>4 DEF Adds, r

(* Codes that do not matter.                                               *)
LEMMA FillsLess ==
    ASSUME NEW q, NEW r, NEW g, NEW cs, NEW ds, ds \subseteq cs
    PROVE  /\ Fills(q, r, g, cs) => Fills(q, r, g, ds)
           /\ \A m : Adds(q, r, g, m, cs) => Adds(q, r, g, m, ds)
           /\ \A m : Adds(q, r, g, m, cs) /\ m.code \notin ds => Fills(q, r, g, ds)
BY DEF Fills, Adds

-----------------------------------------------------------------------------
(* What a side sends, seen from the queues.                                *)

(* What starts or ends an activity, and what goes with one.                *)
ActCode == {"AS", "AR", "AI", "AD", "AIA", "GTC"}
NumCode == PointCode \cup {"MAA", "RS", "RA", "GT"} \cup ActCode

Filled(x)   == \E g : Fills(Ahead(x), Ahead(x)', g, NumCode)
Added(x, m) == \E g : Adds(Ahead(x), Ahead(x)', g, m, NumCode)

(* The transport fills a queue and adds what is not expedited.             *)
LEMMA QueuedFills ==
    ASSUME NEW q \in Seq(SpduSet), NEW m \in SpduSet, m.code \notin NumCode,
           NEW r \in Queued(q, m)
    PROVE  r \in Seq(SpduSet) /\ \E g : Fills(q, r, g, NumCode)
<1>1. r \in Seq(SpduSet)
  BY QueuedTyped
<1>2. CASE m.xpd
  <2>1. PICK i \in 0..Len(q) : r = InsertAfter(q, i, m)
    BY <1>2 DEF Queued, ExpeditedSlots
  <2> QED BY <1>1, <2>1, FillsInsert
<1>3. CASE ~m.xpd
  <2>1. r = Append(q, m)
    BY <1>3 DEF Queued
  <2>2. PICK g : Fills(q, q, g, NumCode)
    BY FillsSame
  <2>3. Adds(q, r, g, m, NumCode)
    BY <2>1, <2>2, AddsAppend
  <2>4. Fills(q, r, g, NumCode)
    BY <2>3, FillsLess
  <2> QED BY <1>1, <2>4
<1> QED BY <1>2, <1>3

(* What is written is behind its preparation.                              *)
LEMMA WrittenAdds ==
    ASSUME NEW q \in Seq(SpduSet), NEW m \in SpduSet, NEW r \in Written(q, m)
    PROVE  \E a \in Seq(SpduSet) : \E g : Fills(q, a, g, NumCode) /\ r = Append(a, m)
<1>1. CASE Expd /\ Preparation(m.code) # "none"
  <2> DEFINE x == Prepare(Preparation(m.code))
  <2>1. PICK a \in Queued(q, x) : r = Append(a, m)
    BY <1>1 DEF Written
  <2>2. x \in SpduSet
    <3>1. Preparation(m.code) \in PrType
      BY <1>1 DEF Preparation, PrType
    <3> QED BY <3>1, MessagesTyped
  <2>3. x.code \notin NumCode
    BY DEF Prepare, Spdu, NumCode, PointCode, ActCode
  <2> HIDE DEF x
  <2>4. a \in Seq(SpduSet) /\ \E g : Fills(q, a, g, NumCode)
    BY <2>2, <2>3, QueuedFills
  <2> QED BY <2>1, <2>4
<1>2. CASE ~(Expd /\ Preparation(m.code) # "none")
  <2>1. r = Append(q, m)
    BY <1>2 DEF Written
  <2> QED BY <2>1, FillsSame
<1> QED BY <1>1, <1>2

(* Nothing is sent, one SPDU that does not matter is, or one that does.    *)
LEMMA SendsOn ==
    ASSUME TypeOK, BothLive, NEW s \in Side,
           sb'[s].spdu = sb[s].spdu, sb'[Peer(s)].spdu = sb[Peer(s)].spdu
    PROVE  /\ net' = net => Ahead(s)' = Ahead(s) /\ Filled(Peer(s))
           /\ \A m \in SpduSet : m.code \notin NumCode /\ (spkt2sd(s, m) \/ SWriteRequestAux(s, m))
                => Ahead(s)' = Ahead(s) /\ Filled(Peer(s))
           /\ \A m \in SpduSet : ~m.xpd /\ (spkt2sd(s, m) \/ SWriteRequestAux(s, m))
                => Ahead(s)' = Ahead(s) /\ Added(Peer(s), m)
<1> DEFINE p == Peer(s)
           h == sb[p].spdu
           q == net[p]
<1>1. p \in Side /\ p # s /\ q \in Seq(SpduSet) /\ h \in Seq(SpduSet) /\ ~Closed(sb[p])
  BY AheadTyped, LiveOpen DEF BothLive, Peer, Side
<1>2. Ahead(p) = h \o q /\ Ahead(p)' = h \o net'[p]
  BY DEF Ahead
<1> HIDE DEF p, h, q
<1>3. net' = net => Ahead(s)' = Ahead(s) /\ Filled(p)
  <2> SUFFICES ASSUME net' = net PROVE Ahead(s)' = Ahead(s) /\ Filled(p)
    OBVIOUS
  <2>1. Ahead(s)' = Ahead(s) /\ Ahead(p)' = Ahead(p)
    BY <1>2 DEF Ahead, q
  <2> QED BY <2>1, FillsSame DEF Filled
<1>4. ASSUME NEW r, net' = [net EXCEPT ![p] = Arriving(p, r)]
      PROVE  Ahead(s)' = Ahead(s) /\ Ahead(p)' = h \o r
  BY <1>1, <1>2, <1>4 DEF Arriving, Ahead, TypeOK
<1>5. ASSUME NEW m \in SpduSet, NEW a \in Seq(SpduSet), NEW g, Fills(q, a, g, NumCode),
             net' = [net EXCEPT ![p] = Arriving(p, Append(a, m))]
      PROVE  Ahead(s)' = Ahead(s) /\ Added(p, m)
  <2>1. PICK f : Fills(h \o q, h \o a, f, NumCode)
    BY <1>1, <1>5, FillsBehind
  <2>2. h \o a \in Seq(SpduSet) /\ h \o q \in Seq(SpduSet)
        /\ h \o Append(a, m) = Append(h \o a, m)
    BY <1>1, <1>5
  <2>3. Adds(h \o q, Append(h \o a, m), f, m, NumCode)
    BY <2>1, <2>2, AddsAppend
  <2>4. Ahead(s)' = Ahead(s) /\ Ahead(p)' = h \o Append(a, m)
    BY <1>4, <1>5
  <2> QED BY <1>2, <2>2, <2>3, <2>4 DEF Added
<1>6. ASSUME NEW m \in SpduSet, SWriteRequestAux(s, m) \/ (spkt2sd(s, m) /\ ~m.xpd)
      PROVE  Ahead(s)' = Ahead(s) /\ Added(p, m)
  <2>1. PICK r : /\ r \in Written(q, m) \/ r = Append(q, m)
                 /\ net' = [net EXCEPT ![p] = Arriving(p, r)]
    BY <1>6, Zenon DEF spkt2sd, SWriteRequestAux, Queued, p, q
  <2>2. PICK a \in Seq(SpduSet) : \E g : Fills(q, a, g, NumCode) /\ r = Append(a, m)
    BY <1>1, <2>1, WrittenAdds, FillsSame
  <2>3. PICK g : Fills(q, a, g, NumCode) /\ r = Append(a, m)
    BY <2>2
  <2> QED BY <1>5, <2>1, <2>3
<1>7. ASSUME NEW m \in SpduSet, m.code \notin NumCode, spkt2sd(s, m)
      PROVE  Ahead(s)' = Ahead(s) /\ Filled(p)
  <2>1. PICK r \in Queued(q, m) : net' = [net EXCEPT ![p] = Arriving(p, r)]
    BY <1>7, Zenon DEF spkt2sd, p, q
  <2>2. r \in Seq(SpduSet) /\ \E g : Fills(q, r, g, NumCode)
    BY <1>1, <1>7, <2>1, QueuedFills
  <2>3. \E f : Fills(h \o q, h \o r, f, NumCode)
    BY <1>1, <2>2, FillsBehind
  <2> QED BY <1>2, <1>4, <2>1, <2>3 DEF Filled
<1>8. ASSUME NEW m \in SpduSet, m.code \notin NumCode, Added(p, m)
      PROVE  Filled(p)
  BY <1>8, FillsLess, Zenon DEF Added, Filled
<1> QED BY <1>3, <1>6, <1>7, <1>8 DEF p

-----------------------------------------------------------------------------
(* The steps of a connection without activities, seen from the numbers.    *)

Marks == {"RS", "RA", "AI", "AIA", "MAP", "MAA"}

(* The number of s, its tokens and all its marks but some are as before.   *)
SameBut(s, fs) ==
    /\ sb'[s].V_M = sb[s].V_M /\ sb'[s].owned = sb[s].owned
    /\ SameFlags(s, Marks \ fs)

(* s sends a sync point, which it numbers and counts.                      *)
Marking(s, m) ==
    /\ m.code \in PointCode /\ m.ssn = sb[s].V_M
    /\ sb'[s].V_M = sb[s].V_M + 1 /\ sb'[s].owned = sb[s].owned
    /\ Key \in Tokens /\ Key \in sb[s].owned
    /\ ~Suspended(s) /\ ~Asked(s) /\ ~Flagged(s, "MAP") /\ ~Flagged(s, "MAA")
    /\ SameFlags(s, Marks \ {"MAP"}) /\ (Flagged(s, "MAP")' <=> m.code = "MAP")

(* s confirms a major one, ...                                             *)
Confirming(s, m) ==
    /\ m.code = "MAA" /\ m.ssn = sb[s].V_M - 1
    /\ Flagged(s, "MAA") /\ ~Flagged(s, "MAA")' /\ SameBut(s, {"MAA"})

(* ... gives tokens away, ...                                              *)
Giving(s, m) ==
    /\ m.code = "GT" /\ m.tokens \subseteq sb[s].owned
    /\ sb'[s].owned = sb[s].owned \ m.tokens
    /\ sb'[s].V_M = sb[s].V_M /\ SameFlags(s, Marks)

(* ... asks for a resynchronization, ...                                   *)
Asking(s, m) ==
    /\ m.code = "RS" /\ Needs("RESYNC")
    /\ ~Suspended(s) /\ Flagged(s, "RS")' /\ ~Flagged(s, "RA")'
    /\ SameBut(s, {"RS", "RA"})

(* ... or agrees to one, and starts from its number.                       *)
Answering(s, m) ==
    /\ m.code = "RA" /\ Flagged(s, "RA") /\ ~Suspended(s) /\ ~Flagged(s, "RA")'
    /\ sb'[s].V_M = m.ssn /\ SameFlags(s, Marks \ {"RA"})

Utters(s, m) ==
    /\ Ahead(s)' = Ahead(s) /\ Added(Peer(s), m)
    /\ \/ Marking(s, m) \/ Confirming(s, m) \/ Giving(s, m)
       \/ Asking(s, m) \/ Answering(s, m)

(* Nothing that counts happens.                                            *)
Silent(s) == Ahead(s)' = Ahead(s) /\ Filled(Peer(s)) /\ SameBut(s, {})

(* Every request is one of these.                                          *)
LEMMA RequestUtters ==
    ASSUME TypeOK, BothLive, BothLive', ~Needs("ACTIVITY"), NEW s \in Side, UserRequest(s)
    PROVE  Silent(s) \/ \E m \in SpduSet : Utters(s, m)
<1> DEFINE b == sb[s]
           p == Peer(s)
           sends(m) == spkt2sd(s, m) \/ SWriteRequestAux(s, m)
<1>b. b \in Ssapblk /\ sb \in [Side -> Ssapblk]
  BY DEF TypeOK
<1>f. b.flags \in SUBSET Flag /\ b.V_A \in Int /\ b.V_M \in Int /\ b.V_R \in Int
        /\ b.owned \in SUBSET Tokens
  BY <1>b, BlockTyped
<1>p. sb'[p].spdu = sb[p].spdu
  BY OwnBlock
<1>s. ASSUME NEW m \in SpduSet, m.code \notin NumCode, sends(m), SameBut(s, {}),
             sb'[s].spdu = b.spdu
      PROVE  Silent(s)
  BY <1>p, <1>s, SendsOn DEF Silent
<1>c. ASSUME NEW c \in Code \ {"RS", "PR", "AB"}, c \notin NumCode, sends(Spdu(c)),
             SameBut(s, {}), sb'[s].spdu = b.spdu
      PROVE  Silent(s)
  <2>1. Spdu(c) \in SpduSet /\ Spdu(c).code = c
    BY SaidSpdus DEF Said, Spdu
  <2> QED BY <1>c, <1>s, <2>1
<1>u. ASSUME NEW m \in Said, sends(m), sb'[s].spdu = b.spdu,
             \/ Marking(s, m) \/ Confirming(s, m) \/ Giving(s, m)
             \/ Asking(s, m) \/ Answering(s, m)
      PROVE  m \in SpduSet /\ Utters(s, m)
  BY <1>p, <1>u, SendsOn DEF Said, Utters
<1> USE DEF NumCode, PointCode, ActCode
<1>1. CASE SDataRequest(s) \/ STypedRequest(s)
  <2>1. SameBut(s, {}) /\ sb'[s].spdu = b.spdu
    BY <1>1 DEF SDataRequest, STypedRequest, SameBut, SameFlags
  <2> QED BY <1>1, <1>c, <2>1 DEF SDataRequest, STypedRequest, Code
<1>2. CASE SExpdRequest(s)
  <2> DEFINE m == [Spdu("EX") EXCEPT !.xpd = TRUE]
  <2>1. m \in SpduSet /\ m.code = "EX"
    BY MessagesTyped DEF Spdu
  <2>2. spkt2sd(s, m) /\ SameBut(s, {}) /\ sb'[s].spdu = b.spdu
    BY <1>2 DEF SExpdRequest, SameBut, SameFlags
  <2> HIDE DEF m
  <2> QED BY <1>s, <2>1, <2>2
<1>3. CASE SGTokenRequest(s)
  <2> DEFINE fs(ts) == IF "dat" \in ts THEN b.flags \ {"EDACK"} ELSE b.flags
             m(ts) == [Spdu("GT") EXCEPT !.tokens = ts]
  <2>1. PICK ts \in SUBSET b.owned :
          /\ spkt2sd(s, m(ts))
          /\ sb' = [sb EXCEPT ![s].owned = @ \ ts, ![s].flags = fs(ts)]
    BY <1>3, Zenon DEF SGTokenRequest
  <2>2. m(ts) \in Said /\ m(ts).code = "GT" /\ m(ts).tokens = ts
    BY <1>f, <2>1, SaidSpdus DEF Spdu
  <2>3. \A f \in Marks : f \in fs(ts) <=> f \in b.flags
    BY DEF Marks
  <2> HIDE DEF m, fs
  <2>4. /\ sb'[s].owned = b.owned \ ts /\ sb'[s].V_M = b.V_M
        /\ sb'[s].flags = fs(ts) /\ sb'[s].spdu = b.spdu
    BY <1>b, <2>1 DEF Ssapblk
  <2>5. Giving(s, m(ts))
    BY <2>1, <2>2, <2>3, <2>4 DEF Giving, SameFlags
  <2> QED BY <1>u, <2>1, <2>2, <2>4, <2>5
<1>4. CASE SPTokenRequest(s)
  <2>1. PICK ts \in SUBSET Tokens : spkt2sd(s, [Spdu("PT") EXCEPT !.tokens = ts])
    BY <1>4 DEF SPTokenRequest
  <2> DEFINE m == [Spdu("PT") EXCEPT !.tokens = ts]
  <2>2. m \in SpduSet /\ m.code = "PT" /\ spkt2sd(s, m)
    BY <2>1, SaidSpdus DEF Said, Spdu
  <2>3. SameBut(s, {}) /\ sb'[s].spdu = b.spdu
    BY <1>4 DEF SPTokenRequest, SameBut, SameFlags
  <2> HIDE DEF m
  <2> QED BY <1>s, <2>2, <2>3
<1>5. CASE SUReportRequest(s)
  <2>1. SameBut(s, {}) /\ sb'[s].spdu = b.spdu
    BY <1>5, <1>b DEF SUReportRequest, SameBut, SameFlags, Marks, Ssapblk
  <2> QED BY <1>5, <1>c, <2>1 DEF SUReportRequest, Code
<1>6. CASE SGControlRequest(s) \/ SCapdRequest(s) \/ SActStartRequest(s)
           \/ SActResumeRequest(s) \/ SActIntrRequest(s)
  BY <1>6 DEF SGControlRequest, SCapdRequest, SActStartRequest, SActResumeRequest,
              SActIntrRequest, SDoActivityAux
<1>7. CASE SMinSyncRequest(s)
  <2> DEFINE m == [Spdu("MIP") EXCEPT !.ssn = b.V_M]
  <2>1. SWriteRequestAux(s, m) /\ ssapPsig(b) /\ "MAA" \notin b.flags
        /\ "min" \in b.owned
    BY <1>7 DEF SMinSyncRequest, Owns
  <2>2. m \in Said /\ m.code = "MIP" /\ m.ssn = b.V_M
    BY <1>f, SaidSpdus DEF Spdu
  <2>3. /\ sb'[s].owned = b.owned /\ sb'[s].V_M = b.V_M + 1
        /\ sb'[s].flags = b.flags \ {"Vsc"} /\ sb'[s].spdu = b.spdu
    BY <1>7, <1>b DEF SMinSyncRequest, Ssapblk
  <2>4. "min" \in Tokens /\ Key = "min"
    BY <1>f, <2>1 DEF Key
  <2> HIDE DEF m
  <2>5. Marking(s, m)
    BY <2>1, <2>2, <2>3, <2>4
       DEF Marking, SameFlags, Marks, Suspended, Asked, Flagged, ssapPsig, Has
  <2> QED BY <1>u, <2>1, <2>2, <2>3, <2>5
<1>8. CASE SMinSyncResponse(s)
  <2>1. PICK ssn \in b.V_A .. MaxSsn :
          /\ SWriteRequestAux(s, [Spdu("MIA") EXCEPT !.ssn = ssn])
          /\ sb' = [sb EXCEPT ![s].V_A = ssn + 1]
    BY <1>8, Zenon DEF SMinSyncResponse
  <2> DEFINE m == [Spdu("MIA") EXCEPT !.ssn = ssn]
  <2>2. ssn \in Int
    BY <1>f, MaxSsnAssumption
  <2>3. m \in SpduSet /\ m.code = "MIA"
    BY <2>2, SaidSpdus DEF Said, Spdu
  <2>4. SameBut(s, {}) /\ sb'[s].spdu = b.spdu
    BY <1>b, <2>1 DEF SameBut, SameFlags, Ssapblk
  <2>5. SWriteRequestAux(s, m)
    BY <2>1
  <2> HIDE DEF m
  <2> QED BY <1>s, <2>3, <2>4, <2>5
<1>9. CASE \E end \in BOOLEAN : SMajSyncRequestAux(s, end)
  <2>1. PICK end \in BOOLEAN : SMajSyncRequestAux(s, end)
    BY <1>9
  <2> DEFINE x == IF end THEN "end" ELSE "noend"
             m == [Spdu("MAP") EXCEPT !.ssn = b.V_M, !.type = x]
             fs == ((IF end THEN (b.flags \ {"Vnextact"}) \cup {"AE"}
                      ELSE IF Needs("ACTIVITY") THEN b.flags \cup {"Vnextact"} ELSE b.flags)
                     \cup {"MAP"}) \ {"Vsc"}
             va == ConfirmedTo(b)
  <2>2. /\ SWriteRequestAux(s, m) /\ ssapPsig(b) /\ "MAA" \notin b.flags
        /\ SDoActivityAux(b, FALSE, FALSE)
        /\ sb' = [sb EXCEPT ![s].V_A = va, ![s].V_M = @ + 1, ![s].flags = fs]
    BY <2>1, Zenon DEF SMajSyncRequestAux
  <2>3. m \in Said /\ m.code = "MAP" /\ m.ssn = b.V_M
    <3>1. x \in {"end", "noend"}
      OBVIOUS
    <3> HIDE DEF x
    <3> QED BY <1>f, <3>1, SaidSpdus DEF Spdu
  <2>4. /\ \A f \in Marks \ {"MAP"} : f \in fs <=> f \in b.flags
        /\ "MAP" \in fs
    BY DEF Marks
  <2> HIDE DEF m, x, fs, va
  <2>5. /\ sb'[s].owned = b.owned /\ sb'[s].V_M = b.V_M + 1
        /\ sb'[s].flags = fs /\ sb'[s].spdu = b.spdu
    BY <1>b, <2>2 DEF Ssapblk
  <2>6. Key \in b.owned /\ Key \in Tokens
    BY <1>f, <2>2 DEF Key, SDoActivityAux, Owns, OwnsIfAny
  <2>7. ~Suspended(s) /\ ~Asked(s) /\ ~Flagged(s, "MAP") /\ ~Flagged(s, "MAA")
    BY <2>2 DEF Suspended, Asked, Flagged, ssapPsig, Has
  <2>8. Marking(s, m)
    BY <2>3, <2>4, <2>5, <2>6, <2>7 DEF Marking, SameFlags, Flagged
  <2> QED BY <1>u, <2>2, <2>3, <2>5, <2>8
<1>10. CASE SReSyncRequest(s)
  <2> DEFINE fs == (b.flags \cup {"RS"}) \ {"RA", "EDACK"}
             m(type, ssn, settings) ==
                [Spdu("RS") EXCEPT !.type = type, !.ssn = ssn, !.settings = settings]
  <2>1. PICK type \in ReSync, settings \in Proposals :
          \E ssn \in ResyncPoints(sb[s], type) :
            /\ SWriteRequestAux(s, m(type, ssn, settings))
            /\ sb' = [sb EXCEPT ![s].flags = fs, ![s].rs = type, ![s].rsn = ssn,
                                ![s].rsettings = settings]
    BY <1>10, Zenon DEF SReSyncRequest
  <2>2. PICK ssn \in ResyncPoints(sb[s], type) :
            /\ SWriteRequestAux(s, m(type, ssn, settings))
            /\ sb' = [sb EXCEPT ![s].flags = fs, ![s].rs = type, ![s].rsn = ssn,
                                ![s].rsettings = settings]
    BY <2>1, Zenon
  <2>3. ssn \in Int /\ settings \in Settings
    BY <1>f, MaxSsnAssumption, ProposalsAssumption DEF ResyncPoints, ReSync
  <2>4. m(type, ssn, settings) \in Said /\ m(type, ssn, settings).code = "RS"
    BY <2>3, SaidSpdus DEF Spdu
  <2>5. "RS" \in fs /\ "RA" \notin fs
        /\ \A f \in Marks \ {"RS", "RA"} : f \in fs <=> f \in b.flags
    BY DEF Marks
  <2>6. ~Suspended(s) /\ Needs("RESYNC")
    BY <1>10 DEF SReSyncRequest, ssapRsig, Has, Suspended
  <2> HIDE DEF m, fs
  <2>7. /\ sb'[s].owned = b.owned /\ sb'[s].V_M = b.V_M
        /\ sb'[s].flags = fs /\ sb'[s].spdu = b.spdu
    BY <1>b, <2>2 DEF Ssapblk
  <2>8. Asking(s, m(type, ssn, settings))
    BY <2>4, <2>5, <2>6, <2>7 DEF Asking, SameBut, SameFlags, Flagged
  <2> QED BY <1>u, <2>2, <2>4, <2>7, <2>8
<1>11. CASE SUAbortRequest(s)
  BY <1>11, FreedNotLive DEF SUAbortRequest
<1>12. CASE SRelRequest(s)
  <2>1. SameBut(s, {}) /\ sb'[s].spdu = b.spdu
    BY <1>12, <1>b DEF SRelRequest, SameBut, SameFlags, Ssapblk
  <2> QED BY <1>12, <1>c, <2>1 DEF SRelRequest, Code
<1> QED
  BY <1>1, <1>2, <1>3, <1>4, <1>5, <1>6, <1>7, <1>8, <1>9, <1>10, <1>11, <1>12
     DEF UserRequest, SMajSyncRequest, SActEndRequest

(* So is every response, ...                                               *)
LEMMA ResponseUtters ==
    ASSUME TypeOK, BothLive, BothLive', ~Needs("ACTIVITY"), NEW s \in Side,
           UserResponse(s) \/ Timer(s)
    PROVE  Silent(s) \/ \E m \in SpduSet : Utters(s, m)
<1> DEFINE b == sb[s]
           p == Peer(s)
           sends(m) == spkt2sd(s, m) \/ SWriteRequestAux(s, m)
<1>b. b \in Ssapblk /\ sb \in [Side -> Ssapblk]
  BY DEF TypeOK
<1>f. b.flags \in SUBSET Flag /\ b.V_A \in Int /\ b.V_M \in Int /\ b.rsn \in Int
  BY <1>b, BlockTyped
<1>p. sb'[p].spdu = sb[p].spdu
  BY OwnBlock
<1>c. ASSUME NEW c \in Code \ {"RS", "PR", "AB"}, c \notin NumCode, sends(Spdu(c)),
             SameBut(s, {}), sb'[s].spdu = b.spdu
      PROVE  Silent(s)
  <2>1. Spdu(c) \in SpduSet /\ Spdu(c).code = c
    BY SaidSpdus DEF Said, Spdu
  <2> QED BY <1>c, <1>p, <2>1, SendsOn DEF Silent
<1>u. ASSUME NEW m \in Said, sends(m), sb'[s].spdu = b.spdu,
             Confirming(s, m) \/ Answering(s, m)
      PROVE  m \in SpduSet /\ Utters(s, m)
  BY <1>p, <1>u, SendsOn DEF Said, Utters
<1> USE DEF NumCode, PointCode, ActCode
<1>1. CASE SCapdResponse(s)
  <2>1. SameBut(s, {}) /\ sb'[s].spdu = b.spdu
    BY <1>1, <1>b DEF SCapdResponse, SameBut, SameFlags, Marks, Ssapblk
  <2> QED BY <1>1, <1>c, <2>1 DEF SCapdResponse, Code
<1>2. CASE SMajSyncResponse(s)
  <2> DEFINE m == [Spdu("MAA") EXCEPT !.ssn = b.V_M - 1]
  <2>1. SWriteRequestAux(s, m) /\ Flagged(s, "MAA")
    BY <1>2 DEF SMajSyncResponse, Flagged
  <2>2. /\ sb'[s].flags = b.flags \ {"MAA", "AE"} /\ sb'[s].owned = b.owned
        /\ sb'[s].V_M = b.V_M /\ sb'[s].spdu = b.spdu
    BY <1>2, <1>b DEF SMajSyncResponse, ActivityAfterMajor, Ssapblk
  <2>3. m \in Said /\ m.code = "MAA" /\ m.ssn = b.V_M - 1
    <3>1. b.V_M - 1 \in Int
      BY <1>f
    <3> QED BY <3>1, SaidSpdus DEF Spdu
  <2> HIDE DEF m
  <2>4. Confirming(s, m)
    BY <2>1, <2>2, <2>3 DEF Confirming, SameBut, SameFlags, Flagged, Marks
  <2> QED BY <1>u, <2>1, <2>2, <2>3, <2>4
<1>3. CASE SReSyncResponse(s)
  <2> DEFINE x(settings, ssn) ==
                [Resynchronized(s, b, ssn, settings) EXCEPT !.flags = @ \ {"RA"}]
             y(settings, ssn) == [Spdu("RA") EXCEPT !.ssn = ssn, !.settings = settings]
  <2>1. PICK settings \in FinalSettings, ssn \in AcceptedPoints(b) :
          SWriteRequestAux(s, y(settings, ssn)) /\ sb' = [sb EXCEPT ![s] = x(settings, ssn)]
    BY <1>3, Zenon DEF SReSyncResponse
  <2>2. ssn \in Int /\ settings \in Settings
    BY <1>f, MaxSsnAssumption DEF AcceptedPoints, FinalSettings, Settings
  <2>3. /\ x(settings, ssn).spdu = b.spdu /\ x(settings, ssn).V_M = ssn
        /\ x(settings, ssn).flags = b.flags \ {"RA"}
    BY <1>b DEF Resynchronized, Ssapblk
  <2>4. /\ y(settings, ssn) \in Said /\ y(settings, ssn).code = "RA"
        /\ y(settings, ssn).ssn = ssn
    BY <2>2, SaidSpdus DEF Spdu
  <2>5. Flagged(s, "RA") /\ ~Suspended(s)
    BY <1>3 DEF SReSyncResponse, ssapRsig, Has, Suspended, Flagged
  <2> HIDE DEF x, y
  <2>6. /\ sb'[s].spdu = b.spdu /\ sb'[s].V_M = ssn
        /\ sb'[s].flags = b.flags \ {"RA"}
    BY <1>b, <2>1, <2>3
  <2>7. Answering(s, y(settings, ssn))
    BY <2>4, <2>5, <2>6 DEF Answering, SameFlags, Flagged
  <2> QED BY <1>u, <2>1, <2>4, <2>6, <2>7
<1>4. CASE SRelResponse(s)
  <2>1. sb' # [sb EXCEPT ![s] = Freed("draining")]
    BY <1>b DEF Freed, newsblk, BothLive, Live
  <2>2. spkt2sd(s, Spdu("NF")) /\ sb' = [sb EXCEPT ![s].flags = @ \ {"FINN"}]
    BY <1>4, <2>1 DEF SRelResponse
  <2>3. SameBut(s, {}) /\ sb'[s].spdu = b.spdu
    BY <1>b, <2>2 DEF SameBut, SameFlags, Marks, Ssapblk
  <2> QED BY <1>c, <2>2, <2>3 DEF Code
<1>5. CASE SRelRetryRequest(s) \/ SRelTimeout(s)
  <2>1. \/ sb' = [sb EXCEPT ![s].mode = "waiting"]
        \/ sb' = [sb EXCEPT ![s].mode = "open", ![s].flags = @ \cup {"RELEASE"}]
    BY <1>5, Zenon DEF SRelRetryRequest, SRelTimeout
  <2>2. SameBut(s, {}) /\ sb'[s].spdu = b.spdu
    <3>1. CASE sb' = [sb EXCEPT ![s].mode = "waiting"]
      BY <1>b, <3>1 DEF SameBut, SameFlags, Marks, Ssapblk
    <3>2. CASE sb' = [sb EXCEPT ![s].mode = "open", ![s].flags = @ \cup {"RELEASE"}]
      BY <1>b, <3>2 DEF SameBut, SameFlags, Marks, Ssapblk
    <3> QED BY <2>1, <3>1, <3>2
  <2>3. net' = net
    BY <1>5 DEF SRelRetryRequest, SRelTimeout
  <2> QED BY <1>p, <2>2, <2>3, SendsOn DEF Silent
<1>6. ~SActIntrResponse(s)
  BY DEF SActIntrResponse
<1>7. ~DrainTimeout(s)
  BY FreedNotLive DEF DrainTimeout
<1> QED BY <1>1, <1>2, <1>3, <1>4, <1>5, <1>6, <1>7 DEF UserResponse, Timer

-----------------------------------------------------------------------------
(* Reading.                                                                *)

(* s takes m off its queue.                                                *)
TakesOff(s, m) ==
    /\ Ahead(s) # <<>> /\ Ahead(s)[1] = m /\ Ahead(s)' = Tail(Ahead(s))
    /\ Filled(Peer(s))

(* It ignores or discards what it took, ...                                *)
Preparing(s) == sb[s].pr \in {"RS", "RA", "AB"}
Skipping(s, m) ==
    /\ SameBut(s, {})
    /\ m.code \in PointCode => Preparing(s) \/ m.ssn # sb[s].V_M
    /\ m.code = "MAA" => Preparing(s) \/ Flagged(s, "ED") \/ sb[s].V_M # m.ssn + 1

(* ... counts a point of the peer, ...                                     *)
Counting(s, m) ==
    /\ m.code \in PointCode /\ sb'[s].V_M = sb[s].V_M + 1 /\ sb'[s].owned = sb[s].owned
    /\ SameFlags(s, Marks \ {"MAA"})
    /\ m.code = "MIP" => SameFlags(s, {"MAA"})
    /\ m.code = "MAP" => m.ssn = sb[s].V_M /\ (Flagged(s, "MAA")' \/ Flagged(s, "ED"))

(* ... is confirmed a major one, ...                                       *)
Concluding(s, m) ==
    /\ m.code = "MAA" /\ sb[s].V_M = m.ssn + 1
    /\ ~Flagged(s, "MAP")' /\ SameBut(s, {"MAP"})

(* ... is asked for a resynchronization, ...                               *)
Accepting(s, m) ==
    /\ m.code = "RS" /\ ~Beats(s, m)
    /\ Flagged(s, "RA")' /\ ~Flagged(s, "RS")' /\ SameBut(s, {"RS", "RA"})

(* ... starts from the number of the answer, ...                           *)
Adopting(s, m) ==
    /\ m.code = "RA" /\ sb'[s].V_M = m.ssn
    /\ ~Flagged(s, "RS")' /\ SameFlags(s, Marks \ {"RS"})
    /\ m.settings \in FinalSettings => sb'[s].owned = {t \in Tokens : m.settings[t] = s}

(* ... or is given tokens.                                                 *)
Receiving(s, m) ==
    /\ m.code = "GT" /\ sb'[s].owned = sb[s].owned \cup m.tokens
    /\ sb'[s].V_M = sb[s].V_M /\ SameFlags(s, Marks)

Listens(s, m) ==
    /\ TakesOff(s, m)
    /\ \/ Skipping(s, m) \/ Counting(s, m) \/ Concluding(s, m)
       \/ Accepting(s, m) \/ Adopting(s, m) \/ Receiving(s, m)

(* What sb2spkt takes is the first of what is ahead, or the saved XSDU.    *)
LEMMA TookOff ==
    ASSUME TypeOK, PrepInv, BothLive, NEW s \in Side, Readable(s),
           sb'[s].spdu = sb2spkt(sb[s]).spdu, net'[s] = Rest(s),
           sb'[Peer(s)] = sb[Peer(s)], net'[Peer(s)] = net[Peer(s)]
    PROVE  /\ Filled(Peer(s))
           /\ TakesOff(s, Incoming(s)) \/ (Incoming(s).code = "EX" /\ Ahead(s)' = Ahead(s))
<1> DEFINE h == sb[s].spdu
           n == net[s]
           m == Incoming(s)
<1>1. h \in Seq(SpduSet) /\ n \in Seq(SpduSet) /\ m \in SpduSet /\ PutBack(h)
  BY AheadTyped, IncomingTyped DEF PrepInv, Prepared
<1>2. Ahead(s) = h \o n /\ Ahead(s)' = sb2spkt(sb[s]).spdu \o Rest(s)
  BY DEF Ahead
<1>3. Filled(Peer(s))
  <2>1. Ahead(Peer(s))' = Ahead(Peer(s))
    BY DEF Ahead
  <2> QED BY <2>1, FillsSame DEF Filled
<1>4. \A q \in Seq(SpduSet) : <<>> \o q = q
  OBVIOUS
<1>5. CASE m.code = "EX" /\ Rest(s) = n /\ sb2spkt(sb[s]).spdu = h
  BY <1>2, <1>3, <1>5
<1>6. CASE h # <<>> /\ m = h[1] /\ Rest(s) = n /\ sb2spkt(sb[s]).spdu = <<>>
  <2>1. h = <<m>>
    BY <1>1, <1>6 DEF PutBack
  <2>2. <<m>> \o n # <<>> /\ Tail(<<m>> \o n) = n /\ (<<m>> \o n)[1] = m
    <3>1. \A x \in SpduSet, q \in Seq(SpduSet) :
            <<x>> \o q # <<>> /\ Tail(<<x>> \o q) = q /\ (<<x>> \o q)[1] = x
      OBVIOUS
    <3> HIDE DEF m, n
    <3> QED BY <1>1, <3>1, Zenon
  <2> QED BY <1>1, <1>2, <1>3, <1>4, <1>6, <2>1, <2>2 DEF TakesOff
<1>7. CASE /\ h = <<>> /\ n # <<>> /\ m = Head(n) /\ Rest(s) = Tail(n)
           /\ sb2spkt(sb[s]).spdu = <<>>
  <2>1. Tail(n) \in Seq(SpduSet) /\ Head(n) = n[1]
    BY <1>1, <1>7
  <2>2. Ahead(s) = n /\ n[1] = m
    BY <1>1, <1>2, <1>4, <1>7, <2>1, Zenon
  <2>3. Ahead(s)' = Tail(n)
    BY <1>2, <1>4, <1>7, <2>1, Zenon
  <2> HIDE DEF m, n
  <2> QED BY <1>3, <1>7, <2>2, <2>3, Zenon DEF m, TakesOff
<1> QED BY <1>1, <1>5, <1>6, <1>7, Source

(* Every SPDU that SReadRequestAux reads is one of these.                  *)
LEMMA RecvListens ==
    ASSUME TypeOK, PrepInv, BothLive, BothLive', NEW s \in Side, NoneOf(s, ActCode), Readable(s),
           \/ Drop(s) \/ RecvData(s) \/ RecvGT(s) \/ RecvEX(s) \/ RecvCD(s)
           \/ RecvGTC(s) \/ RecvGTA(s) \/ RecvMAP(s) \/ RecvMAA(s) \/ RecvMIP(s)
           \/ RecvMIA(s) \/ RecvRS(s) \/ RecvRA(s) \/ RecvPR(s) \/ RecvED(s)
           \/ RecvAS(s) \/ RecvAI(s) \/ RecvAIA(s) \/ RecvFN(s)
    PROVE  Silent(s) \/ \E m \in SpduSet : Listens(s, m)
<1> DEFINE m == Incoming(s)
           b == Taken(s)
           p == Peer(s)
           kept(x) == x.V_M = b.V_M /\ x.owned = b.owned /\ x.spdu = b.spdu
                      /\ \A f \in Marks : f \in x.flags <=> f \in b.flags
           goal == Silent(s) \/ \E y \in SpduSet : Listens(s, y)
<1>b. b \in Ssapblk /\ m \in SpduSet
  BY IncomingTyped
<1>t. /\ b.owned = sb[s].owned /\ b.flags = sb[s].flags /\ b.spdu = sb2spkt(sb[s]).spdu
      /\ b.V_M = sb[s].V_M
  <2>1. b.owned = sb[s].owned /\ b.flags = sb[s].flags /\ b.spdu = sb2spkt(sb[s]).spdu
    BY TakenView
  <2> DEFINE c == sb2spkt(sb[s])
  <2>2. c.V_M = sb[s].V_M
    BY DEF sb2spkt, TypeOK, Ssapblk
  <2>3. c \in Ssapblk
    BY IncomingTyped
  <2> HIDE DEF c
  <2>4. \A x : [c EXCEPT !.pr = x].V_M = c.V_M
    BY <2>3 DEF Ssapblk
  <2> QED BY <2>1, <2>2, <2>4, Zenon DEF Taken, c
<1>p. p \in Side /\ p # s
  BY DEF Peer, Side
<1>v. ASSUME NEW x, Done(s, x), x.spdu = b.spdu
      PROVE  /\ sb'[s] = x /\ Filled(p)
             /\ TakesOff(s, m) \/ (m.code = "EX" /\ Ahead(s)' = Ahead(s))
  <2>1. /\ sb'[s] = x /\ sb'[p] = sb[p]
        /\ net'[s] = Rest(s) /\ net'[p] = net[p]
    BY <1>p, <1>v DEF Done, TypeOK
  <2> QED BY <1>t, <1>v, <2>1, TookOff
<1>a. m.code \notin ActCode
  <2>1. m.code # "EX" => Ahead(s) # <<>> /\ m = Ahead(s)[1]
    BY HeadRead
  <2>2. Ahead(s) # <<>> => 1 \in Place(s)
    <3>1. Ahead(s) \in Seq(SpduSet)
      BY AheadTyped
    <3> QED BY <3>1 DEF Place
  <2> QED BY <2>1, <2>2 DEF NoneOf, ActCode
<1> HIDE DEF m, b, p
<1>i. ASSUME NEW x, Done(s, x), kept(x),
             m.code \in PointCode => Preparing(s) \/ m.ssn # sb[s].V_M,
             m.code = "MAA" => Preparing(s) \/ Flagged(s, "ED") \/ sb[s].V_M # m.ssn + 1
      PROVE  goal
  <2>1. sb'[s] = x /\ Filled(p) /\ (TakesOff(s, m) \/ Ahead(s)' = Ahead(s))
    BY <1>i, <1>v
  <2>2. SameBut(s, {})
    BY <1>i, <1>t, <2>1 DEF SameBut, SameFlags
  <2> QED BY <1>b, <1>i, <2>1, <2>2 DEF Silent, Listens, Skipping, p
<1>l. ASSUME NEW x, Done(s, x), x.spdu = b.spdu, m.code # "EX",
             sb'[s] = x => \/ Skipping(s, m) \/ Counting(s, m) \/ Concluding(s, m)
                           \/ Accepting(s, m) \/ Adopting(s, m) \/ Receiving(s, m)
      PROVE  goal
  BY <1>b, <1>l, <1>v DEF Listens
<1>o. m.code \notin PointCode /\ m.code # "MAA" => \A x : Done(s, x) /\ kept(x) => goal
  BY <1>i
<1>k. kept(b)
  OBVIOUS
<1> SUFFICES goal
  OBVIOUS
<1> HIDE DEF goal
<1>1. CASE Drop(s)
  <2>1. Done(s, b) /\ Dropped(s, sb[s], m)
    BY <1>1 DEF Drop, b, m
  <2>2. m.code \in PointCode => Preparing(s)
    BY <2>1 DEF Dropped, PreparationDrops, CollisionDrops, ExceptionDrops, PointCode, Preparing
  <2>3. m.code = "MAA" => Preparing(s) \/ Flagged(s, "ED")
    BY <2>1 DEF Dropped, PreparationDrops, CollisionDrops, ExceptionDrops, Preparing, Flagged
  <2> QED BY <1>i, <1>k, <2>1, <2>2, <2>3
<1>2. CASE RecvData(s)
  <2>1. Done(s, b) /\ m.code \in {"DT", "TD", "PT"}
    BY <1>2 DEF RecvData, Arrives, b, m
  <2> QED BY <1>k, <1>o, <2>1 DEF PointCode
<1>3. CASE RecvGT(s)
  <2> DEFINE fs == IF "dat" \in m.tokens THEN b.flags \ {"ED"} ELSE b.flags
             x == [b EXCEPT !.owned = @ \cup m.tokens, !.flags = fs]
  <2>1. (Done(s, b) \/ Done(s, x)) /\ m.code = "GT"
    BY <1>3, Zenon DEF RecvGT, Arrives, b, m
  <2>2. \A f \in Marks : f \in fs <=> f \in b.flags
    BY DEF Marks
  <2> HIDE DEF fs
  <2>3. x.owned = b.owned \cup m.tokens /\ x.spdu = b.spdu /\ x.V_M = b.V_M /\ x.flags = fs
    BY <1>b DEF Ssapblk
  <2> HIDE DEF x
  <2>4. CASE Done(s, x)
    <3>1. sb'[s] = x => Receiving(s, m)
      BY <1>t, <2>1, <2>2, <2>3 DEF Receiving, SameFlags
    <3> QED BY <1>l, <2>1, <2>3, <2>4, <3>1
  <2> QED BY <1>k, <1>o, <2>1, <2>4 DEF PointCode
<1>4. CASE RecvEX(s)
  <2> DEFINE x == [b EXCEPT !.xspdu = TRUE]
  <2>1. (Done(s, b) \/ Done(s, x)) /\ m.code = "EX"
    BY <1>4, AbortNotLive DEF RecvEX, Arrives, b, m
  <2>2. kept(x)
    BY <1>b DEF Ssapblk
  <2> HIDE DEF x
  <2> QED BY <1>k, <1>o, <2>1, <2>2 DEF PointCode
<1>5. ASSUME NEW fs, Done(s, [b EXCEPT !.flags = fs]), m.code \notin PointCode \cup {"MAA"},
             \A f \in Marks : f \in fs <=> f \in b.flags
      PROVE  goal
  <2> DEFINE x == [b EXCEPT !.flags = fs]
  <2>1. kept(x)
    BY <1>5, <1>b DEF Ssapblk
  <2>2. Done(s, x)
    BY <1>5
  <2> HIDE DEF x
  <2> QED BY <1>5, <1>o, <2>1, <2>2
<1>6. CASE RecvCD(s)
  <2> DEFINE fs == IF m.code = "CD" THEN b.flags \cup {"CDA"} ELSE b.flags \ {"CD"}
  <2>1. Done(s, [b EXCEPT !.flags = fs]) /\ m.code \in {"CD", "CDA"}
    BY <1>6, Zenon DEF RecvCD, Arrives, b, m
  <2>2. \A f \in Marks : f \in fs <=> f \in b.flags
    BY DEF Marks
  <2> HIDE DEF fs
  <2> QED BY <1>5, <2>1, <2>2 DEF PointCode
<1>7. CASE RecvGTC(s) \/ RecvAS(s) \/ RecvAI(s) \/ RecvAIA(s)
  <2>1. m.code \in ActCode
    BY <1>7 DEF RecvGTC, RecvAS, RecvAI, RecvAIA, Arrives, ActCode, m
  <2> QED BY <1>a, <2>1
<1>8. CASE RecvGTA(s)
  <2>1. Done(s, [b EXCEPT !.flags = b.flags \ {"GTC"}]) /\ m.code = "GTA"
    BY <1>8, Zenon DEF RecvGTA, Arrives, b, m
  <2> QED BY <1>5, <2>1 DEF PointCode, Marks
<1>9. CASE RecvMAP(s)
  <2> DEFINE y == SyncPointOfPeer(b)
             fs == (y.flags \ {"Vnextact"}) \cup {"MAA", "AE"}
             gs == y.flags \cup {"MAA"} \cup
                                      (IF Needs("ACTIVITY") THEN {"Vnextact"} ELSE {})
             x1 == [y EXCEPT !.flags = fs]
             x2 == [y EXCEPT !.flags = gs]
  <2>1. /\ m.code = "MAP"
        /\ IF sb[s].V_M # m.ssn THEN Done(s, b)
           ELSE Done(s, x1) \/ (Done(s, y) /\ "ED" \in y.flags) \/ Done(s, x2)
    BY <1>9, Zenon DEF RecvMAP, Arrives, b, m
  <2>2. /\ y \in Ssapblk /\ y.owned = b.owned /\ y.spdu = b.spdu /\ y.flags = b.flags
        /\ y.V_M = b.V_M + 1
    BY <1>b, SyncPointTyped DEF SyncPointOfPeer, Ssapblk
  <2> HIDE DEF y
  <2>3. \A z : LET x == [y EXCEPT !.flags = z] IN
            /\ x.owned = y.owned /\ x.spdu = y.spdu /\ x.V_M = y.V_M /\ x.flags = z
    BY <2>2 DEF Ssapblk
  <2>4. \A z \in {fs, gs} : "MAA" \in z /\ \A f \in Marks \ {"MAA"} : f \in z <=> f \in b.flags
    BY <2>2 DEF Marks
  <2>5. /\ x1.owned = b.owned /\ x1.spdu = b.spdu /\ x1.V_M = b.V_M + 1 /\ x1.flags = fs
        /\ x2.owned = b.owned /\ x2.spdu = b.spdu /\ x2.V_M = b.V_M + 1 /\ x2.flags = gs
    BY <2>2, <2>3
  <2> HIDE DEF fs, gs, x1, x2
  <2>6. ASSUME NEW x, Done(s, x), sb[s].V_M = m.ssn, x.owned = b.owned, x.spdu = b.spdu,
               x.V_M = b.V_M + 1, "MAA" \in x.flags \/ "ED" \in b.flags,
               \A f \in Marks \ {"MAA"} : f \in x.flags <=> f \in b.flags
        PROVE  goal
    <3>1. sb'[s] = x => Counting(s, m)
      BY <1>t, <2>1, <2>6 DEF Counting, SameFlags, Flagged, PointCode
    <3> QED BY <1>l, <2>1, <2>6, <3>1
  <2>7. CASE sb[s].V_M # m.ssn
    BY <1>i, <1>k, <2>1, <2>7
  <2>8. CASE sb[s].V_M = m.ssn /\ Done(s, y) /\ "ED" \in y.flags
    BY <2>2, <2>6, <2>8
  <2>9. CASE sb[s].V_M = m.ssn /\ Done(s, x1)
    BY <2>4, <2>5, <2>6, <2>9
  <2>10. CASE sb[s].V_M = m.ssn /\ Done(s, x2)
    BY <2>4, <2>5, <2>6, <2>10
  <2> QED BY <2>1, <2>7, <2>8, <2>9, <2>10
<1>10. CASE RecvMAA(s)
  <2> DEFINE fs == ActivityAfterMajor(b.flags) \ {"MAP", "AE"}
             x == [b EXCEPT !.V_A = b.V_M, !.V_R = b.V_M, !.flags = fs]
  <2>1. /\ m.code = "MAA"
        /\ IF b.V_M # m.ssn + 1 THEN Done(s, b) ELSE Done(s, x)
    BY <1>10, Zenon DEF RecvMAA, Arrives, b, m
  <2>2. "MAP" \notin fs /\ \A f \in Marks \ {"MAP"} : f \in fs <=> f \in b.flags
    BY DEF ActivityAfterMajor, Marks
  <2> HIDE DEF fs
  <2>3. x.owned = b.owned /\ x.spdu = b.spdu /\ x.V_M = b.V_M /\ x.flags = fs
    BY <1>b DEF Ssapblk
  <2> HIDE DEF x
  <2>4. CASE b.V_M = m.ssn + 1
    <3>1. sb'[s] = x => Concluding(s, m)
      BY <1>t, <2>1, <2>2, <2>3, <2>4 DEF Concluding, SameBut, SameFlags, Flagged
    <3> QED BY <1>l, <2>1, <2>3, <2>4, <3>1
  <2>5. CASE b.V_M # m.ssn + 1
    BY <1>i, <1>k, <1>t, <2>1, <2>5 DEF PointCode
  <2> QED BY <2>4, <2>5
<1>11. CASE RecvMIP(s)
  <2> DEFINE y == SyncPointOfPeer(b)
             x == [y EXCEPT !.flags = @ \cup {"Vsc"}]
  <2>1. Done(s, x) /\ m.code = "MIP"
    BY <1>11 DEF RecvMIP, Arrives, b, m
  <2>2. /\ y \in Ssapblk /\ y.owned = b.owned /\ y.spdu = b.spdu /\ y.flags = b.flags
        /\ y.V_M = b.V_M + 1
    BY <1>b, SyncPointTyped DEF SyncPointOfPeer, Ssapblk
  <2> HIDE DEF y
  <2>3. x.owned = y.owned /\ x.spdu = y.spdu /\ x.V_M = y.V_M /\ x.flags = y.flags \cup {"Vsc"}
    BY <2>2 DEF Ssapblk
  <2> HIDE DEF x
  <2>4. sb'[s] = x => Counting(s, m)
    BY <1>t, <2>1, <2>2, <2>3 DEF Counting, SameFlags, PointCode, Marks
  <2> QED BY <1>l, <2>1, <2>2, <2>3, <2>4
<1>12. CASE RecvMIA(s)
  <2> DEFINE x == [b EXCEPT !.V_A = m.ssn]
  <2>1. (Done(s, b) \/ Done(s, x)) /\ m.code = "MIA"
    BY <1>12 DEF RecvMIA, Arrives, b, m
  <2>2. kept(x)
    BY <1>b DEF Ssapblk
  <2> HIDE DEF x
  <2> QED BY <1>k, <1>o, <2>1, <2>2 DEF PointCode
<1>13. CASE RecvRS(s)
  <2> DEFINE fs == (b.flags \ {"RS"}) \cup {"RA"}
             x == [b EXCEPT !.flags = fs, !.rs = m.type, !.rsn = m.ssn,
                            !.rsettings = m.settings]
  <2>1. (Done(s, b) \/ Done(s, x)) /\ m.code = "RS" /\ ~CollisionDrops(s, sb[s], m)
    BY <1>13 DEF RecvRS, Arrives, Dropped, b, m
  <2>2. "RS" \notin fs /\ "RA" \in fs /\ \A f \in Marks \ {"RS", "RA"} : f \in fs <=> f \in b.flags
    OBVIOUS
  <2> HIDE DEF fs
  <2>3. x.owned = b.owned /\ x.spdu = b.spdu /\ x.V_M = b.V_M /\ x.flags = fs
    BY <1>b DEF Ssapblk
  <2> HIDE DEF x
  <2>4. ~Beats(s, m)
    BY <1>b, <2>1 DEF CollisionDrops, Beats, Has, Suspended, Op, OpSsn
  <2>5. CASE Done(s, x)
    <3>1. sb'[s] = x => Accepting(s, m)
      BY <1>t, <2>1, <2>2, <2>3, <2>4 DEF Accepting, SameBut, SameFlags, Flagged
    <3> QED BY <1>l, <2>1, <2>3, <2>5, <3>1
  <2> QED BY <1>k, <1>o, <2>1, <2>5 DEF PointCode
<1>14. CASE RecvRA(s)
  <2> DEFINE y == Resynchronized(s, b, m.ssn, m.settings)
             x == [y EXCEPT !.flags = @ \ {"RS"}, !.rsettings = m.settings]
  <2>1. Done(s, x) /\ m.code = "RA"
    BY <1>14, Zenon DEF RecvRA, Arrives, b, m
  <2>2. y \in Ssapblk
    BY <1>b, ResynchronizedTyped DEF SpduSet, SpduShape
  <2>3. /\ y.owned = TokensOf(s, m.settings, b.owned) /\ y.flags = b.flags
        /\ y.spdu = b.spdu /\ y.V_M = m.ssn
    BY <1>b DEF Resynchronized, Ssapblk
  <2> HIDE DEF y
  <2>4. x.owned = y.owned /\ x.spdu = y.spdu /\ x.V_M = y.V_M /\ x.flags = y.flags \ {"RS"}
    BY <2>2 DEF Ssapblk
  <2> HIDE DEF x
  <2>5. m.settings \in FinalSettings => x.owned = {t \in Tokens : m.settings[t] = s}
    <3> SUFFICES ASSUME m.settings \in FinalSettings
                 PROVE  x.owned = {t \in Tokens : m.settings[t] = s}
      OBVIOUS
    <3>1. \A t \in Tokens : m.settings[t] # "call"
      BY DEF FinalSettings, Side
    <3>2. b.owned \subseteq Tokens
      BY <1>b, BlockTyped
    <3> QED BY <2>3, <2>4, <3>1, <3>2 DEF TokensOf
  <2>6. sb'[s] = x => Adopting(s, m)
    BY <1>t, <2>1, <2>3, <2>4, <2>5 DEF Adopting, SameFlags, Flagged
  <2> QED BY <1>l, <2>1, <2>3, <2>4, <2>6
<1>15. CASE RecvPR(s)
  <2> DEFINE fs == IF m.type = "RS" THEN b.flags \ {"ED"} ELSE b.flags
             x == [b EXCEPT !.pr = m.type, !.flags = fs]
  <2>1. Done(s, x) /\ m.code = "PR"
    BY <1>15, Zenon DEF RecvPR, Arrives, b, m
  <2>2. \A f \in Marks : f \in fs <=> f \in b.flags
    BY DEF Marks
  <2> HIDE DEF fs
  <2>3. kept(x)
    BY <1>b, <2>2 DEF Ssapblk
  <2> HIDE DEF x
  <2> QED BY <1>o, <2>1, <2>3 DEF PointCode
<1>16. CASE RecvED(s)
  <2> DEFINE fs == IF Owns(sb[s], "dat") THEN b.flags \cup {"EDACK"} ELSE b.flags
  <2>1. Done(s, [b EXCEPT !.flags = fs]) /\ m.code = "ED"
    BY <1>16, Zenon DEF RecvED, Arrives, b, m
  <2>2. \A f \in Marks : f \in fs <=> f \in b.flags
    BY DEF Marks
  <2> HIDE DEF fs
  <2> QED BY <1>5, <2>1, <2>2 DEF PointCode
<1>17. CASE RecvFN(s)
  <2>1. Done(s, [b EXCEPT !.flags = b.flags \cup {"FINN"}]) /\ m.code = "FN"
    BY <1>17, Zenon DEF RecvFN, Arrives, b, m
  <2> QED BY <1>5, <2>1 DEF PointCode, Marks
<1> QED
  BY <1>1, <1>2, <1>3, <1>4, <1>6, <1>7, <1>8, <1>9, <1>10, <1>11, <1>12, <1>13, <1>14,
     <1>15, <1>16, <1>17

(* So is what a side that waits for the answer to its release reads, ...   *)
LEMMA RelListens ==
    ASSUME TypeOK, PrepInv, BothLive, BothLive', NEW s \in Side, RelFN(s) \/ RelNF(s) \/ RelRS(s)
    PROVE  Silent(s) \/ \E m \in SpduSet : Listens(s, m)
<1> DEFINE m == Incoming(s)
           c == sb2spkt(sb[s])
           p == Peer(s)
           d == Spdu("DN")
           x1 == [c EXCEPT !.mode = "open"]
           x2 == [c EXCEPT !.mode = "open", !.spdu = <<m>>]
<1>r. Readable(s)
  BY DEF RelFN, RelNF, RelRS, Waits
<1>c. c \in Ssapblk /\ m \in SpduSet
  BY <1>r, IncomingTyped
<1>t. c.owned = sb[s].owned /\ c.flags = sb[s].flags /\ c.V_M = sb[s].V_M
  <2>1. c.V_M = sb[s].V_M
    BY DEF sb2spkt, TypeOK, Ssapblk
  <2> QED BY <1>r, <2>1, TakenView
<1>p. p \in Side /\ p # s /\ ~Closed(sb[p]) /\ sb'[p] = sb[p] /\ net[p] \in Seq(SpduSet)
  <2>1. sb'[p] = sb[p]
    BY OwnBlock DEF Read
  <2> QED BY <2>1, LiveOpen DEF BothLive, Peer, Side, TypeOK
<1>1. /\ m.code \in {"FN", "NF", "RS"}
      /\ \/ /\ RelFN(s) /\ sb' = [sb EXCEPT ![s] = c]
            /\ net' = [net EXCEPT ![s] = Rest(s), ![p] = Arriving(p, Append(@, d))]
         \/ Done(s, x1)
         \/ Done(s, x2)
  BY DEF RelFN, RelNF, RelRS, Waits
<1>2. \/ Ahead(s)' = Ahead(s)
      \/ Ahead(s) # <<>> /\ Ahead(s)' = Tail(Ahead(s)) /\ m = Ahead(s)[1]
  BY RelHears, HeadOrNone DEF PrepInv, Prepared
<1> HIDE DEF m, c, p, d
<1>3. /\ x1.owned = c.owned /\ x1.flags = c.flags /\ x1.V_M = c.V_M
      /\ x2.owned = c.owned /\ x2.flags = c.flags /\ x2.V_M = c.V_M
  BY <1>c DEF Ssapblk
<1> HIDE DEF x1, x2
<1>4. SameBut(s, {})
  <2>1. sb'[s] \in {c, x1, x2}
    BY <1>1 DEF Done, TypeOK
  <2> QED BY <1>3, <1>t, <2>1 DEF SameBut, SameFlags
<1>5. Filled(p)
  <2>1. CASE Done(s, x1) \/ Done(s, x2)
    <3>1. net'[p] = net[p]
      BY <1>p, <2>1 DEF Done, TypeOK
    <3>2. Ahead(p)' = Ahead(p)
      BY <1>p, <3>1 DEF Ahead
    <3> QED BY <3>2, FillsSame DEF Filled
  <2>2. CASE net' = [net EXCEPT ![s] = Rest(s), ![p] = Arriving(p, Append(@, d))]
    <3>1. d \in SpduSet /\ d.code = "DN"
      BY PlainSpdu DEF Code, Spdu, d
    <3>2. net'[p] = Append(net[p], d)
      BY <1>p, <2>2 DEF TypeOK, Arriving
    <3>3. PICK g : Fills(Ahead(p), Ahead(p), g, NumCode)
      BY FillsSame
    <3>4. Ahead(p) \in Seq(SpduSet) /\ Ahead(p)' = Append(Ahead(p), d)
      <4>1. sb[p].spdu \in Seq(SpduSet)
        BY <1>p, AheadTyped
      <4>2. \A a, b \in Seq(SpduSet) : a \o Append(b, d) = Append(a \o b, d)
        BY <3>1
      <4> QED BY <1>p, <3>2, <4>1, <4>2, AheadTyped DEF Ahead
    <3>5. Adds(Ahead(p), Append(Ahead(p), d), g, d, NumCode)
      BY <3>1, <3>3, <3>4, AddsAppend
    <3>6. d.code \notin NumCode
      BY <3>1 DEF NumCode, PointCode, ActCode
    <3> QED BY <3>4, <3>5, <3>6, FillsLess DEF Filled
  <2> QED BY <1>1, <2>1, <2>2
<1> QED
  BY <1>1, <1>2, <1>4, <1>5, <1>c DEF Silent, Listens, TakesOff, Skipping, PointCode, p

(* ... and whatever is read while both ends are in use.                    *)
LEMMA ReadListens ==
    ASSUME TypeOK, PrepInv, BothLive, BothLive', NEW s \in Side, NoneOf(s, ActCode), Read(s)
    PROVE  Silent(s) \/ \E m \in SpduSet : Listens(s, m)
<1>1. ~Drain(s)
  BY DEF Drain, BothLive, Live
<1>2. ~RecvAB(s) /\ ~RelDN(s) /\ ~RelAB(s)
  BY FreedNotLive DEF RecvAB, RelDN, RelAB
<1>3. ~RecvUnexpected(s) /\ ~RelUnexpected(s)
  BY AbortNotLive DEF RecvUnexpected, RelUnexpected
<1>4. ~RecvTDISC(s)
  BY DEF RecvTDISC, Freed, newsblk, TypeOK, BothLive, Live
<1>5. CASE RelFN(s) \/ RelNF(s) \/ RelRS(s)
  BY <1>5, RelListens
<1>6. CASE \/ Drop(s) \/ RecvData(s) \/ RecvGT(s) \/ RecvEX(s) \/ RecvCD(s)
           \/ RecvGTC(s) \/ RecvGTA(s) \/ RecvMAP(s) \/ RecvMAA(s) \/ RecvMIP(s)
           \/ RecvMIA(s) \/ RecvRS(s) \/ RecvRA(s) \/ RecvPR(s) \/ RecvED(s)
           \/ RecvAS(s) \/ RecvAI(s) \/ RecvAIA(s) \/ RecvFN(s)
  <2>1. Readable(s)
    BY <1>6 DEF Drop, RecvData, RecvGT, RecvEX, RecvCD, RecvGTC, RecvGTA, RecvMAP, RecvMAA,
         RecvMIP, RecvMIA, RecvRS, RecvRA, RecvPR, RecvED, RecvAS, RecvAI, RecvAIA, RecvFN,
         Arrives, Reads
  <2> QED BY <1>6, <2>1, RecvListens
<1> QED BY <1>1, <1>2, <1>3, <1>4, <1>5, <1>6 DEF Read

-----------------------------------------------------------------------------
(* What the SPDUs on their way to a side say about the count v of the side *)
(* P that sent them.                                                       *)

Without(q, cs) == \A j \in 1..Len(q) : q[j].code \notin cs
Given(q)       == \E j \in 1..Len(q) : Carries(q[j], Key)

(* The points behind the i-th are numbered in order, up to v, and none of  *)
(* them is behind the token for them.                                      *)
Sound(q, i, v) == \A j \in 1..Len(q) : j > i =>
    /\ q[j].code \in PointCode => q[j].ssn + From(q, j, PointCode) = v
    /\ Carries(q[j], Key) => \A k \in 1..Len(q) : k > j => q[k].code \notin PointCode

(* P started from the number of its answer, and has sent points since then *)
(* only if the answer left it the token for them.                          *)
Restarts(q, v, P) == \A i \in 1..Len(q) : q[i].code = "RA" =>
    /\ Sound(q, i, v)
    /\ q[i].ssn + From(q, i, PointCode) = v
    /\ \A j \in 1..Len(q) : j > i /\ q[j].code \in PointCode => q[i].settings[Key] = P

(* No point is behind an ask, unless P answered one in between.            *)
Hushed(q) == \A i, j \in 1..Len(q) :
    q[i].code = "RS" /\ j > i /\ q[j].code \in PointCode =>
       \E k \in 1..Len(q) : i < k /\ k < j /\ q[k].code = "RA"
Answered(q) == \A i \in 1..Len(q) : q[i].code = "RS" =>
    \E k \in 1..Len(q) : i < k /\ q[k].code = "RA"

(* The points in a queue that something is put into.                       *)
LEMMA PointsFilled ==
    ASSUME NEW q \in Seq(SpduSet), NEW r \in Seq(SpduSet), NEW g, Fills(q, r, g, NumCode)
    PROVE  \A i \in 1..Len(q) : From(r, g[i], PointCode) = From(q, i, PointCode)
<1>1. PointCode \subseteq NumCode
  BY DEF NumCode
<1>2. \A cs, ds : Fills(q, r, g, cs) /\ ds \subseteq cs =>
         \A i \in 1..Len(q) : From(r, g[i], ds) = From(q, i, ds)
  BY FromFills
<1> QED BY <1>1, <1>2, Zenon

LEMMA PointsAdded ==
    ASSUME NEW q \in Seq(SpduSet), NEW r \in Seq(SpduSet), NEW g, NEW m,
           Adds(q, r, g, m, NumCode)
    PROVE  /\ m.code \in PointCode => Raised(q, r, g, PointCode)
           /\ m.code \notin PointCode => Level(q, r, g, PointCode)
<1>1. PointCode \subseteq NumCode
  BY DEF NumCode
<1> QED BY <1>1, FromAdds

(* What fills the queue between changes none of this, ...                  *)
LEMMA SoundFills ==
    ASSUME NEW q \in Seq(SpduSet), NEW r \in Seq(SpduSet), NEW g, Fills(q, r, g, NumCode),
           NEW a, NEW b, NEW v, \A j \in 1..Len(q) : j > a <=> g[j] > b, Sound(q, a, v)
    PROVE  Sound(r, b, v)
<1>1. /\ \A i \in 1..Len(q) : /\ g[i] \in 1..Len(r) /\ r[g[i]] = q[i]
                              /\ \A j \in 1..Len(q) : j > i => g[j] > g[i]
      /\ \A k \in 1..Len(r) : r[k].code \in NumCode => \E i \in 1..Len(q) : k = g[i]
  BY DEF Fills, Embedded
<1>f. \A i \in 1..Len(q) : From(r, g[i], PointCode) = From(q, i, PointCode)
  BY PointsFilled, Zenon
<1>2. \A i, j \in 1..Len(q) : g[j] > g[i] => j > i
  BY <1>1
<1> SUFFICES ASSUME NEW n \in 1..Len(r), n > b
             PROVE  /\ r[n].code \in PointCode => r[n].ssn + From(r, n, PointCode) = v
                    /\ Carries(r[n], Key) =>
                          \A k \in 1..Len(r) : k > n => r[k].code \notin PointCode
  BY DEF Sound
<1>3. CASE r[n].code \in PointCode
  <2>1. PICK i \in 1..Len(q) : n = g[i]
    BY <1>1, <1>3 DEF NumCode
  <2>2. q[i].code \in PointCode /\ i > a /\ r[n].ssn = q[i].ssn
    BY <1>1, <1>3, <2>1, Zenon
  <2>3. From(r, n, PointCode) = From(q, i, PointCode)
    BY <1>f, <2>1
  <2>4. r[n].ssn + From(r, n, PointCode) = v
    BY <2>2, <2>3 DEF Sound
  <2> QED BY <1>3, <2>4 DEF Carries, PointCode
<1>4. CASE Carries(r[n], Key)
  <2>1. PICK i \in 1..Len(q) : n = g[i]
    BY <1>1, <1>4 DEF NumCode, Carries, ActCode
  <2>2. Carries(q[i], Key) /\ i > a
    BY <1>1, <1>4, <2>1
  <2>3. ASSUME NEW k \in 1..Len(r), k > n, r[k].code \in PointCode PROVE FALSE
    <3>1. PICK j \in 1..Len(q) : k = g[j]
      BY <1>1, <2>3 DEF NumCode
    <3>2. j > i /\ q[j].code \in PointCode
      BY <1>1, <1>2, <2>1, <2>3, <3>1
    <3> QED BY <2>2, <3>2 DEF Sound
  <2>4. r[n].code \notin PointCode
    BY <1>4 DEF Carries, PointCode
  <2> QED BY <2>3, <2>4
<1> QED BY <1>3, <1>4

LEMMA FillsKeeps ==
    ASSUME NEW q \in Seq(SpduSet), NEW r \in Seq(SpduSet), NEW g, Fills(q, r, g, NumCode)
    PROVE  /\ \A v : Sound(q, 0, v) => Sound(r, 0, v)
           /\ \A v, P : Restarts(q, v, P) => Restarts(r, v, P)
           /\ Hushed(q) => Hushed(r)
           /\ Answered(q) => Answered(r)
           /\ Given(r) => Given(q)
           /\ \A cs \in SUBSET NumCode : Without(q, cs) <=> Without(r, cs)
           /\ From(r, 1, PointCode) = From(q, 1, PointCode)
<1>1. /\ \A i \in 1..Len(q) : /\ g[i] \in 1..Len(r) /\ r[g[i]] = q[i]
                              /\ \A j \in 1..Len(q) : j > i => g[j] > g[i]
      /\ \A k \in 1..Len(r) : r[k].code \in NumCode => \E i \in 1..Len(q) : k = g[i]
  BY DEF Fills, Embedded
<1>f. \A i \in 1..Len(q) : From(r, g[i], PointCode) = From(q, i, PointCode)
  BY PointsFilled, Zenon
<1>2. \A i, j \in 1..Len(q) : j > i <=> g[j] > g[i]
  BY <1>1
<1>3. ASSUME NEW v, Sound(q, 0, v) PROVE Sound(r, 0, v)
  <2>1. \A j \in 1..Len(q) : j > 0 <=> g[j] > 0
    BY <1>1
  <2> QED BY <1>3, <2>1, SoundFills
<1>4. ASSUME NEW v, NEW P, Restarts(q, v, P), NEW n \in 1..Len(r), r[n].code = "RA"
      PROVE  /\ Sound(r, n, v)
             /\ r[n].ssn + From(r, n, PointCode) = v
             /\ \A k \in 1..Len(r) : k > n /\ r[k].code \in PointCode => r[n].settings[Key] = P
  <2>1. PICK i \in 1..Len(q) : n = g[i]
    BY <1>1, <1>4 DEF NumCode
  <2>2. q[i] = r[n] /\ \A j \in 1..Len(q) : j > i <=> g[j] > n
    BY <1>1, <1>2, <2>1
  <2>3. /\ Sound(q, i, v) /\ q[i].ssn + From(q, i, PointCode) = v
        /\ \A j \in 1..Len(q) : j > i /\ q[j].code \in PointCode => q[i].settings[Key] = P
    BY <1>4, <2>2 DEF Restarts
  <2>4. From(r, n, PointCode) = From(q, i, PointCode)
    BY <1>f, <2>1
  <2>5. Sound(r, n, v)
    BY <2>2, <2>3, SoundFills
  <2>6. ASSUME NEW k \in 1..Len(r), k > n, r[k].code \in PointCode
        PROVE  r[n].settings[Key] = P
    <3>1. PICK j \in 1..Len(q) : k = g[j]
      BY <1>1, <2>6 DEF NumCode
    <3> QED BY <1>1, <2>2, <2>3, <2>6, <3>1, Zenon
  <2> QED BY <2>2, <2>3, <2>4, <2>5, <2>6
<1>5. Hushed(q) => Hushed(r)
  <2> SUFFICES ASSUME Hushed(q), NEW i \in 1..Len(r), NEW j \in 1..Len(r),
                      r[i].code = "RS", j > i, r[j].code \in PointCode
               PROVE  \E k \in 1..Len(r) : i < k /\ k < j /\ r[k].code = "RA"
    BY DEF Hushed
  <2>1. PICK a \in 1..Len(q), b \in 1..Len(q) : i = g[a] /\ j = g[b]
    BY <1>1 DEF NumCode
  <2>2. q[a].code = "RS" /\ b > a /\ q[b].code \in PointCode
    BY <1>1, <1>2, <2>1
  <2>3. PICK k \in 1..Len(q) : a < k /\ k < b /\ q[k].code = "RA"
    BY <2>2 DEF Hushed
  <2>4. g[k] \in 1..Len(r) /\ i < g[k] /\ g[k] < j /\ r[g[k]].code = "RA"
    BY <1>1, <2>1, <2>3
  <2> QED BY <2>4
<1>6. Answered(q) => Answered(r)
  <2> SUFFICES ASSUME Answered(q), NEW i \in 1..Len(r), r[i].code = "RS"
               PROVE  \E k \in 1..Len(r) : i < k /\ r[k].code = "RA"
    BY DEF Answered
  <2>1. PICK a \in 1..Len(q) : i = g[a]
    BY <1>1 DEF NumCode
  <2>2. PICK k \in 1..Len(q) : a < k /\ q[k].code = "RA"
    BY <1>1, <2>1 DEF Answered
  <2>3. g[k] \in 1..Len(r) /\ i < g[k] /\ r[g[k]].code = "RA"
    BY <1>1, <2>1, <2>2
  <2> QED BY <2>3
<1>7. Given(r) => Given(q)
  BY <1>1 DEF Given, Carries, NumCode, ActCode
<1>8. \A cs \in SUBSET NumCode : Without(q, cs) <=> Without(r, cs)
  BY <1>1 DEF Without
<1>9. From(r, 1, PointCode) = From(q, 1, PointCode)
  BY FromFills DEF NumCode
<1> QED BY <1>3, <1>4, <1>5, <1>6, <1>7, <1>8, <1>9 DEF Restarts

(* ... one more point is one more to count, ...                            *)
LEMMA SoundAdds ==
    ASSUME NEW q \in Seq(SpduSet), NEW r \in Seq(SpduSet), NEW g, NEW m \in SpduSet,
           Adds(q, r, g, m, NumCode),
           NEW a, NEW b, NEW v \in Int, \A j \in 1..Len(q) : j > a <=> g[j] > b, Sound(q, a, v)
    PROVE  /\ m.code \notin PointCode => Sound(r, b, v)
           /\ /\ m.code \in PointCode /\ m.ssn = v
              /\ \A j \in 1..Len(q) : j > a => ~Carries(q[j], Key)
              => Sound(r, b, v + 1)
<1> DEFINE l == Len(r)
           w == IF m.code \in PointCode THEN v + 1 ELSE v
<1>1. /\ \A i \in 1..Len(q) : /\ g[i] \in 1..Len(r) /\ r[g[i]] = q[i]
                              /\ \A j \in 1..Len(q) : j > i => g[j] > g[i]
      /\ \A k \in 1..Len(r) : r[k].code \in NumCode => k = l \/ \E i \in 1..Len(q) : k = g[i]
      /\ r[l] = m /\ l \in 1..Len(r)
  BY DEF Adds, Embedded
<1>2. \A i, j \in 1..Len(q) : g[j] > g[i] => j > i
  BY <1>1
<1>f. /\ m.code \in PointCode => Raised(q, r, g, PointCode)
      /\ m.code \notin PointCode => Level(q, r, g, PointCode)
  BY PointsAdded, Zenon
<1>t. \A i \in 1..Len(q) : q[i].ssn \in Int /\ From(q, i, PointCode) \in Nat
  <2>1. \A i \in 1..Len(q) : q[i] \in SpduSet
    OBVIOUS
  <2> QED BY <2>1, FromTyped DEF SpduSet, SpduShape
<1> SUFFICES ASSUME \/ m.code \notin PointCode
                    \/ /\ m.ssn = v
                       /\ \A j \in 1..Len(q) : j > a => ~Carries(q[j], Key),
                    NEW n \in 1..Len(r), n > b
             PROVE  /\ r[n].code \in PointCode => r[n].ssn + From(r, n, PointCode) = w
                    /\ Carries(r[n], Key) =>
                          \A k \in 1..Len(r) : k > n => r[k].code \notin PointCode
  BY DEF Sound
<1>3. CASE r[n].code \in PointCode
  <2>1. CASE n = l
    BY <1>1, <1>3, <1>f, <2>1 DEF Raised, Carries, PointCode
  <2>2. CASE n # l
    <3>1. PICK i \in 1..Len(q) : n = g[i]
      BY <1>1, <1>3, <2>2 DEF NumCode
    <3>2. q[i].code \in PointCode /\ i > a /\ r[n].ssn = q[i].ssn
      BY <1>1, <1>3, <3>1, Zenon
    <3>3. q[i].ssn + From(q, i, PointCode) = v
      BY <3>2 DEF Sound
    <3>4. ~Carries(r[n], Key)
      BY <1>3 DEF Carries, PointCode
    <3>5. CASE m.code \in PointCode
      <4>1. From(r, n, PointCode) = From(q, i, PointCode) + 1
        BY <1>f, <3>1, <3>5 DEF Raised
      <4> QED BY <1>t, <3>2, <3>3, <3>4, <3>5, <4>1
    <3>6. CASE m.code \notin PointCode
      <4>1. From(r, n, PointCode) = From(q, i, PointCode)
        BY <1>f, <3>1, <3>6 DEF Level
      <4> QED BY <3>2, <3>3, <3>4, <3>6, <4>1
    <3> QED BY <3>5, <3>6
  <2> QED BY <2>1, <2>2
<1>4. CASE Carries(r[n], Key)
  <2>4. r[n].code \notin PointCode
    BY <1>4 DEF Carries, PointCode
  <2>1. CASE n = l
    BY <1>1, <2>1, <2>4
  <2>2. CASE n # l
    <3>1. PICK i \in 1..Len(q) : n = g[i]
      BY <1>1, <1>4, <2>2 DEF NumCode, Carries, ActCode
    <3>2. Carries(q[i], Key) /\ i > a
      BY <1>1, <1>4, <3>1, Zenon
    <3>3. m.code \notin PointCode
      BY <3>2
    <3>4. ASSUME NEW k \in 1..Len(r), k > n, r[k].code \in PointCode PROVE FALSE
      <4>1. PICK j \in 1..Len(q) : k = g[j]
        BY <1>1, <3>3, <3>4 DEF NumCode
      <4>2. j > i /\ q[j].code \in PointCode
        BY <1>1, <1>2, <3>1, <3>4, <4>1
      <4> QED BY <3>2, <4>2 DEF Sound
    <3> QED BY <2>4, <3>4
  <2> QED BY <2>1, <2>2
<1> QED BY <1>3, <1>4

LEMMA AddsKeeps ==
    ASSUME NEW q \in Seq(SpduSet), NEW r \in Seq(SpduSet), NEW g, NEW m \in SpduSet,
           Adds(q, r, g, m, NumCode)
    PROVE  /\ \A cs \in SUBSET NumCode : Without(q, cs) /\ m.code \notin cs => Without(r, cs)
           /\ \A cs \in SUBSET NumCode : Without(r, cs) => Without(q, cs)
           /\ ~Carries(m, Key) /\ Given(r) => Given(q)
           /\ m.code \notin PointCode /\ Hushed(q) => Hushed(r)
           /\ m.code # "RS" /\ Answered(q) => Answered(r)
           /\ m.code = "RA" => Answered(r)
           /\ Hushed(q) /\ Answered(q) => Hushed(r)
<1> DEFINE l == Len(r)
<1>1. /\ \A i \in 1..Len(q) : /\ g[i] \in 1..Len(r) /\ r[g[i]] = q[i] /\ g[i] < l
                              /\ \A j \in 1..Len(q) : j > i => g[j] > g[i]
      /\ \A k \in 1..Len(r) : r[k].code \in NumCode => k = l \/ \E i \in 1..Len(q) : k = g[i]
      /\ r[l] = m /\ l \in 1..Len(r)
  BY DEF Adds, Embedded
<1>2. \A i, j \in 1..Len(q) : j > i <=> g[j] > g[i]
  BY <1>1
<1>3. \A cs \in SUBSET NumCode : /\ Without(q, cs) /\ m.code \notin cs => Without(r, cs)
                                 /\ Without(r, cs) => Without(q, cs)
  BY <1>1 DEF Without
<1>4. ~Carries(m, Key) /\ Given(r) => Given(q)
  BY <1>1 DEF Given, Carries, NumCode, ActCode
<1>5. ASSUME Hushed(q), m.code \notin PointCode \/ Answered(q) PROVE Hushed(r)
  <2> SUFFICES ASSUME NEW i \in 1..Len(r), NEW j \in 1..Len(r),
                      r[i].code = "RS", j > i, r[j].code \in PointCode
               PROVE  \E k \in 1..Len(r) : i < k /\ k < j /\ r[k].code = "RA"
    BY DEF Hushed
  <2>1. PICK a \in 1..Len(q) : i = g[a]
    BY <1>1 DEF NumCode
  <2>2. q[a].code = "RS"
    BY <1>1, <2>1
  <2>3. CASE j = l
    <3>1. PICK k \in 1..Len(q) : a < k /\ q[k].code = "RA"
      BY <1>1, <1>5, <2>2, <2>3 DEF Answered
    <3>2. g[k] \in 1..Len(r) /\ i < g[k] /\ g[k] < j /\ r[g[k]].code = "RA"
      BY <1>1, <2>1, <2>3, <3>1
    <3> QED BY <3>2
  <2>4. CASE j # l
    <3>1. PICK b \in 1..Len(q) : j = g[b]
      BY <1>1, <2>4 DEF NumCode
    <3>2. b > a /\ q[b].code \in PointCode
      BY <1>1, <1>2, <2>1, <3>1
    <3>3. PICK k \in 1..Len(q) : a < k /\ k < b /\ q[k].code = "RA"
      BY <1>5, <2>2, <3>2 DEF Hushed
    <3>4. g[k] \in 1..Len(r) /\ i < g[k] /\ g[k] < j /\ r[g[k]].code = "RA"
      BY <1>1, <2>1, <3>1, <3>3
    <3> QED BY <3>4
  <2> QED BY <2>3, <2>4
<1>6. ASSUME m.code # "RS", Answered(q) \/ m.code = "RA" PROVE Answered(r)
  <2> SUFFICES ASSUME NEW i \in 1..Len(r), r[i].code = "RS"
               PROVE  \E k \in 1..Len(r) : i < k /\ r[k].code = "RA"
    BY DEF Answered
  <2>1. PICK a \in 1..Len(q) : i = g[a]
    BY <1>1, <1>6 DEF NumCode
  <2>2. q[a].code = "RS" /\ i < l
    BY <1>1, <2>1
  <2>3. CASE Answered(q)
    <3>1. PICK k \in 1..Len(q) : a < k /\ q[k].code = "RA"
      BY <2>2, <2>3 DEF Answered
    <3>2. g[k] \in 1..Len(r) /\ i < g[k] /\ r[g[k]].code = "RA"
      BY <1>1, <2>1, <3>1
    <3> QED BY <3>2
  <2> QED BY <1>1, <1>6, <2>2, <2>3
<1> QED BY <1>3, <1>4, <1>5, <1>6

LEMMA RestartsAdds ==
    ASSUME NEW q \in Seq(SpduSet), NEW r \in Seq(SpduSet), NEW g, NEW m \in SpduSet,
           Adds(q, r, g, m, NumCode), NEW v \in Int, NEW P
    PROVE  /\ m.code \notin PointCode \cup {"RA"} /\ Restarts(q, v, P) => Restarts(r, v, P)
           /\ m.code = "RA" /\ Without(q, {"RA"}) => Restarts(r, m.ssn, P)
           /\ /\ m.code \in PointCode /\ m.ssn = v /\ Restarts(q, v, P)
              /\ \A i \in 1..Len(q) : q[i].code = "RA" =>
                    /\ q[i].settings[Key] = P
                    /\ \A j \in 1..Len(q) : j > i => ~Carries(q[j], Key)
              => Restarts(r, v + 1, P)
<1> DEFINE l == Len(r)
<1>1. /\ \A i \in 1..Len(q) : /\ g[i] \in 1..Len(r) /\ r[g[i]] = q[i] /\ g[i] < l
                              /\ \A j \in 1..Len(q) : j > i => g[j] > g[i]
      /\ \A k \in 1..Len(r) : r[k].code \in NumCode => k = l \/ \E i \in 1..Len(q) : k = g[i]
      /\ r[l] = m /\ l \in 1..Len(r)
  BY DEF Adds, Embedded
<1>2. \A i, j \in 1..Len(q) : j > i <=> g[j] > g[i]
  BY <1>1
<1>f. /\ m.code \in PointCode => Raised(q, r, g, PointCode)
      /\ m.code \notin PointCode => Level(q, r, g, PointCode)
  BY PointsAdded, Zenon
<1>t. \A i \in 1..Len(q) : q[i].ssn \in Int /\ From(q, i, PointCode) \in Nat
  <2>1. \A i \in 1..Len(q) : q[i] \in SpduSet
    OBVIOUS
  <2> QED BY <2>1, FromTyped DEF SpduSet, SpduShape
<1>3. ASSUME NEW n \in 1..Len(r), r[n].code = "RA", n # l
      PROVE  \E i \in 1..Len(q) : n = g[i] /\ q[i] = r[n] /\ q[i].code = "RA"
  BY <1>1, <1>3 DEF NumCode
<1>4. ASSUME m.code \notin PointCode \cup {"RA"}, Restarts(q, v, P) PROVE Restarts(r, v, P)
  <2> SUFFICES ASSUME NEW n \in 1..Len(r), r[n].code = "RA"
               PROVE  /\ Sound(r, n, v) /\ r[n].ssn + From(r, n, PointCode) = v
                      /\ \A k \in 1..Len(r) : k > n /\ r[k].code \in PointCode =>
                            r[n].settings[Key] = P
    BY DEF Restarts
  <2>1. PICK i \in 1..Len(q) : n = g[i] /\ q[i] = r[n] /\ q[i].code = "RA"
    BY <1>1, <1>3, <1>4
  <2>2. /\ Sound(q, i, v) /\ q[i].ssn + From(q, i, PointCode) = v
        /\ \A j \in 1..Len(q) : j > i /\ q[j].code \in PointCode => q[i].settings[Key] = P
    BY <1>4, <2>1 DEF Restarts
  <2>3. Sound(r, n, v)
    BY <1>2, <1>4, <2>1, <2>2, SoundAdds
  <2>4. From(r, n, PointCode) = From(q, i, PointCode)
    BY <1>4, <1>f, <2>1 DEF Level
  <2>5. ASSUME NEW k \in 1..Len(r), k > n, r[k].code \in PointCode PROVE r[n].settings[Key] = P
    <3>1. PICK j \in 1..Len(q) : k = g[j]
      BY <1>1, <1>4, <2>5 DEF NumCode
    <3>2. j > i /\ q[j].code \in PointCode
      BY <1>1, <1>2, <2>1, <2>5, <3>1
    <3> QED BY <2>1, <2>2, <3>2, Zenon
  <2> QED BY <2>1, <2>2, <2>3, <2>4, <2>5
<1>5. ASSUME m.code = "RA", Without(q, {"RA"}) PROVE Restarts(r, m.ssn, P)
  <2> SUFFICES ASSUME NEW n \in 1..Len(r), r[n].code = "RA"
               PROVE  /\ Sound(r, n, m.ssn) /\ r[n].ssn + From(r, n, PointCode) = m.ssn
                      /\ \A k \in 1..Len(r) : k > n /\ r[k].code \in PointCode =>
                            r[n].settings[Key] = P
    BY DEF Restarts
  <2>1. n = l
    BY <1>3, <1>5 DEF Without
  <2>2. \A k \in 1..Len(r) : ~(k > n)
    BY <2>1
  <2>3. From(r, n, PointCode) = 0
    <3>1. \A j \in 1..Len(r) : j >= n => r[j].code \notin PointCode
      BY <1>1, <1>5, <2>1 DEF PointCode
    <3> QED BY <3>1, FromTyped
  <2>4. m.ssn \in Int
    BY DEF SpduSet, SpduShape
  <2> QED BY <1>1, <2>1, <2>2, <2>3, <2>4 DEF Sound
<1>6. ASSUME m.code \in PointCode, m.ssn = v, Restarts(q, v, P),
             \A i \in 1..Len(q) : q[i].code = "RA" =>
                    /\ q[i].settings[Key] = P
                    /\ \A j \in 1..Len(q) : j > i => ~Carries(q[j], Key)
      PROVE  Restarts(r, v + 1, P)
  <2> SUFFICES ASSUME NEW n \in 1..Len(r), r[n].code = "RA"
               PROVE  /\ Sound(r, n, v + 1) /\ r[n].ssn + From(r, n, PointCode) = v + 1
                      /\ r[n].settings[Key] = P
    BY DEF Restarts
  <2>1. PICK i \in 1..Len(q) : n = g[i] /\ q[i] = r[n] /\ q[i].code = "RA"
    BY <1>1, <1>3, <1>6 DEF PointCode
  <2>2. Sound(q, i, v) /\ q[i].ssn + From(q, i, PointCode) = v
    BY <1>6, <2>1 DEF Restarts
  <2>3. Sound(r, n, v + 1)
    BY <1>2, <1>6, <2>1, <2>2, SoundAdds
  <2>4. From(r, n, PointCode) = From(q, i, PointCode) + 1
    BY <1>6, <1>f, <2>1 DEF Raised
  <2>5. r[n].ssn + From(r, n, PointCode) = v + 1
    <3>1. q[i].ssn \in Int /\ From(q, i, PointCode) \in Nat /\ r[n].ssn = q[i].ssn
      BY <1>t, <2>1, Zenon
    <3>2. q[i].ssn + From(q, i, PointCode) = v
      BY <2>2
    <3> HIDE DEF l
    <3> QED BY <2>4, <3>1, <3>2
  <2>6. r[n].settings[Key] = P
    BY <1>6, <2>1
  <2> QED BY <2>3, <2>5, <2>6
<1> QED BY <1>4, <1>5, <1>6

(* ... and reading passes over the first.                                  *)
LEMMA TailKeeps ==
    ASSUME NEW q \in Seq(SpduSet), q # <<>>
    PROVE  /\ \A v : Sound(q, 0, v) => Sound(Tail(q), 0, v)
           /\ \A v, P : Restarts(q, v, P) => Restarts(Tail(q), v, P)
           /\ Hushed(q) => Hushed(Tail(q))
           /\ Answered(q) => Answered(Tail(q))
           /\ Given(Tail(q)) => Given(q)
           /\ \A cs : Without(q, cs) => Without(Tail(q), cs)
           /\ \A cs : Without(Tail(q), cs) /\ q[1].code \notin cs => Without(q, cs)
<1> DEFINE t == Tail(q)
<1>1. /\ t \in Seq(SpduSet)
      /\ \A i \in 1..Len(t) : i + 1 \in 1..Len(q) /\ t[i] = q[i + 1]
      /\ \A j \in 1..Len(q) : j > 1 => j - 1 \in 1..Len(t) /\ t[j - 1] = q[j]
  BY BehindTail
<1>f. \A i \in 1..Len(t) : From(t, i, PointCode) = From(q, i + 1, PointCode)
  <2>1. \A ds : \A i \in 1..Len(t) : From(t, i, ds) = From(q, i + 1, ds)
    BY FromTail
  <2> QED BY <2>1, Zenon
<1> HIDE DEF t
<1>2. ASSUME NEW a, NEW b, \A j \in 1..Len(t) : j > b => j + 1 > a, NEW v, Sound(q, a, v)
      PROVE  Sound(t, b, v)
  <2> SUFFICES ASSUME NEW n \in 1..Len(t), n > b
               PROVE  /\ t[n].code \in PointCode => t[n].ssn + From(t, n, PointCode) = v
                      /\ Carries(t[n], Key) =>
                            \A k \in 1..Len(t) : k > n => t[k].code \notin PointCode
    BY DEF Sound
  <2>1. /\ n + 1 \in 1..Len(q) /\ n + 1 > a /\ t[n] = q[n + 1]
        /\ From(t, n, PointCode) = From(q, n + 1, PointCode)
    BY <1>1, <1>2, <1>f
  <2>2. /\ q[n + 1].code \in PointCode => q[n + 1].ssn + From(q, n + 1, PointCode) = v
        /\ Carries(q[n + 1], Key) =>
              \A k \in 1..Len(q) : k > n + 1 => q[k].code \notin PointCode
    BY <1>2, <2>1 DEF Sound
  <2>3. \A k \in 1..Len(t) : k > n => k + 1 > n + 1 /\ k + 1 \in 1..Len(q) /\ t[k] = q[k + 1]
    BY <1>1
  <2> QED BY <1>1, <2>1, <2>2, <2>3
<1>3. ASSUME NEW v, Sound(q, 0, v) PROVE Sound(t, 0, v)
  <2>1. \A j \in 1..Len(t) : j > 0 => j + 1 > 0
    OBVIOUS
  <2> QED BY <1>2, <1>3, <2>1
<1>4. ASSUME NEW v, NEW P, Restarts(q, v, P) PROVE Restarts(t, v, P)
  <2> SUFFICES ASSUME NEW n \in 1..Len(t), t[n].code = "RA"
               PROVE  /\ Sound(t, n, v) /\ t[n].ssn + From(t, n, PointCode) = v
                      /\ \A k \in 1..Len(t) : k > n /\ t[k].code \in PointCode =>
                            t[n].settings[Key] = P
    BY DEF Restarts
  <2>1. n + 1 \in 1..Len(q) /\ t[n] = q[n + 1] /\ From(t, n, PointCode) = From(q, n + 1, PointCode)
    BY <1>1, <1>f
  <2>2. /\ Sound(q, n + 1, v) /\ q[n + 1].ssn + From(q, n + 1, PointCode) = v
        /\ \A j \in 1..Len(q) : j > n + 1 /\ q[j].code \in PointCode =>
              q[n + 1].settings[Key] = P
    BY <1>4, <2>1 DEF Restarts
  <2>3. \A k \in 1..Len(t) : k > n => k + 1 > n + 1 /\ k + 1 \in 1..Len(q) /\ t[k] = q[k + 1]
    BY <1>1
  <2>4. Sound(t, n, v)
    BY <1>2, <2>2, <2>3
  <2> QED BY <2>1, <2>2, <2>3, <2>4
<1>5. Hushed(q) => Hushed(t)
  <2> SUFFICES ASSUME Hushed(q), NEW i \in 1..Len(t), NEW j \in 1..Len(t),
                      t[i].code = "RS", j > i, t[j].code \in PointCode
               PROVE  \E k \in 1..Len(t) : i < k /\ k < j /\ t[k].code = "RA"
    BY DEF Hushed
  <2>1. PICK k \in 1..Len(q) : i + 1 < k /\ k < j + 1 /\ q[k].code = "RA"
    BY <1>1 DEF Hushed
  <2>2. k - 1 \in 1..Len(t) /\ i < k - 1 /\ k - 1 < j /\ t[k - 1].code = "RA"
    BY <1>1, <2>1
  <2> QED BY <2>2
<1>6. Answered(q) => Answered(t)
  <2> SUFFICES ASSUME Answered(q), NEW i \in 1..Len(t), t[i].code = "RS"
               PROVE  \E k \in 1..Len(t) : i < k /\ t[k].code = "RA"
    BY DEF Answered
  <2>1. PICK k \in 1..Len(q) : i + 1 < k /\ q[k].code = "RA"
    BY <1>1 DEF Answered
  <2>2. k - 1 \in 1..Len(t) /\ i < k - 1 /\ t[k - 1].code = "RA"
    BY <1>1, <2>1
  <2> QED BY <2>2
<1>7. Given(t) => Given(q)
  BY <1>1 DEF Given
<1>8. \A cs : Without(q, cs) => Without(t, cs)
  BY <1>1 DEF Without
<1>9. \A cs : Without(t, cs) /\ q[1].code \notin cs => Without(q, cs)
  <2>1. \A j \in 1..Len(q) : j = 1 \/ j > 1
    OBVIOUS
  <2> QED BY <1>1, <2>1 DEF Without
<1> QED BY <1>3, <1>4, <1>5, <1>6, <1>7, <1>8, <1>9 DEF t

(* What the first one is known by.                                         *)
LEMMA HeadSays ==
    ASSUME NEW q \in Seq(SpduSet), q # <<>>
    PROVE  /\ q[1].code \in PointCode => From(q, 1, PointCode) = From(Tail(q), 1, PointCode) + 1
           /\ q[1].code \notin PointCode => From(q, 1, PointCode) = From(Tail(q), 1, PointCode)
           /\ \A v : Sound(q, 0, v) =>
                 /\ q[1].code \in PointCode => q[1].ssn + From(q, 1, PointCode) = v
                 /\ Carries(q[1], Key) => Without(Tail(q), PointCode)
           /\ \A v, P : Restarts(q, v, P) /\ q[1].code = "RA" =>
                 /\ Sound(Tail(q), 0, v)
                 /\ q[1].ssn + From(Tail(q), 1, PointCode) = v
                 /\ Without(Tail(q), PointCode) \/ q[1].settings[Key] = P
           /\ q[1].code = "RS" /\ Hushed(q) /\ Without(Tail(q), {"RA"}) =>
                 Without(Tail(q), PointCode)
<1> DEFINE t == Tail(q)
<1>1. /\ t \in Seq(SpduSet) /\ 1 \in 1..Len(q)
      /\ \A i \in 1..Len(t) : i + 1 \in 1..Len(q) /\ t[i] = q[i + 1] /\ i + 1 > 1
      /\ \A j \in 1..Len(q) : j > 1 => j - 1 \in 1..Len(t) /\ t[j - 1] = q[j]
  BY BehindTail
<1>f. \A i \in 1..Len(t) : From(t, i, PointCode) = From(q, i + 1, PointCode)
  <2>1. \A ds : \A i \in 1..Len(t) : From(t, i, ds) = From(q, i + 1, ds)
    BY FromTail
  <2> QED BY <2>1, Zenon
<1>2. From(q, 1, PointCode) = From(t, 1, PointCode) + One(q[1].code \in PointCode)
  BY FromTail
<1>3. From(t, 1, PointCode) \in Nat
  BY <1>1, FromTyped
<1> HIDE DEF t
<1>4. /\ q[1].code \in PointCode => From(q, 1, PointCode) = From(t, 1, PointCode) + 1
      /\ q[1].code \notin PointCode => From(q, 1, PointCode) = From(t, 1, PointCode)
  BY <1>2, <1>3 DEF One
<1>5. ASSUME NEW v, Sound(q, 0, v)
      PROVE  /\ q[1].code \in PointCode => q[1].ssn + From(q, 1, PointCode) = v
             /\ Carries(q[1], Key) => Without(t, PointCode)
  BY <1>1, <1>5 DEF Sound, Without
<1>6. ASSUME NEW v, NEW P, Restarts(q, v, P), q[1].code = "RA"
      PROVE  /\ Sound(t, 0, v) /\ q[1].ssn + From(t, 1, PointCode) = v
             /\ Without(t, PointCode) \/ q[1].settings[Key] = P
  <2>1. /\ Sound(q, 1, v) /\ q[1].ssn + From(q, 1, PointCode) = v
        /\ \A j \in 1..Len(q) : j > 1 /\ q[j].code \in PointCode => q[1].settings[Key] = P
    BY <1>1, <1>6 DEF Restarts
  <2>2. ASSUME NEW n \in 1..Len(t)
        PROVE  /\ t[n].code \in PointCode => t[n].ssn + From(t, n, PointCode) = v
               /\ Carries(t[n], Key) =>
                     \A k \in 1..Len(t) : k > n => t[k].code \notin PointCode
    <3>1. /\ q[n + 1].code \in PointCode => q[n + 1].ssn + From(q, n + 1, PointCode) = v
          /\ Carries(q[n + 1], Key) =>
                \A k \in 1..Len(q) : k > n + 1 => q[k].code \notin PointCode
      BY <1>1, <2>1 DEF Sound
    <3>2. \A k \in 1..Len(t) : k > n => k + 1 > n + 1 /\ k + 1 \in 1..Len(q) /\ t[k] = q[k + 1]
      BY <1>1
    <3> QED BY <1>1, <1>f, <3>1, <3>2
  <2>3. Without(t, PointCode) \/ q[1].settings[Key] = P
    BY <1>1, <2>1 DEF Without
  <2>4. q[1].ssn + From(t, 1, PointCode) = v
    BY <1>4, <1>6, <2>1 DEF PointCode
  <2> QED BY <2>2, <2>3, <2>4 DEF Sound
<1>7. ASSUME q[1].code = "RS", Hushed(q), Without(t, {"RA"}) PROVE Without(t, PointCode)
  <2> SUFFICES ASSUME NEW j \in 1..Len(t), t[j].code \in PointCode PROVE FALSE
    BY DEF Without
  <2>1. PICK k \in 1..Len(q) : 1 < k /\ k < j + 1 /\ q[k].code = "RA"
    BY <1>1, <1>7 DEF Hushed
  <2> QED BY <1>1, <1>7, <2>1 DEF Without
<1> QED BY <1>4, <1>5, <1>6, <1>7 DEF t

-----------------------------------------------------------------------------
(* The invariant.                                                          *)

Settled == \A x \in Side : ~Suspended(x)

(* Nothing of an activity is on its way or asked for.                      *)
Calm(s) == NoneOf(s, ActCode) /\ ~Flagged(s, "AI") /\ ~Flagged(s, "AIA")

(* When nobody waits for an answer the points on their way to s are those  *)
(* its peer has counted and s has not.  They come from one side at a time: *)
(* the other one has read all of them before it owns the token for them.   *)
Numbered(s) == Settled =>
    /\ Sound(Ahead(s), 0, sb[Peer(s)].V_M)
    /\ NoneOf(s, PointCode) =>
          sb[s].V_M = sb[Peer(s)].V_M + From(Ahead(Peer(s)), 1, PointCode)
    /\ NoneOf(s, PointCode) \/ NoneOf(Peer(s), PointCode)
    /\ Key \in sb[s].owned => NoneOf(s, PointCode)
    /\ Given(Ahead(s)) => NoneOf(Peer(s), PointCode)

(* Who answered has started from the number of its answer, and has nothing *)
(* more to read that it would count.                                       *)
Restarted(s) ==
    /\ Restarts(Ahead(s), sb[Peer(s)].V_M, Peer(s))
    /\ NoneOf(s, {"RA"}) \/ NoneOf(Peer(s), PointCode)

(* Who owes an answer has read all points that were sent before the ask.   *)
Caught(s) == Asked(s) => NoneOf(s, PointCode)

(* Who asked sends no points until it has answered an ask of its peer.     *)
Silenced(s) ==
    /\ Hushed(Ahead(s))
    /\ Suspended(Peer(s)) \/ Asked(Peer(s)) \/ Answered(Ahead(s))

NumKept(s) == Calm(s) /\ Numbered(s) /\ Restarted(s) /\ Caught(s) /\ Silenced(s)
NumInv == BothLive => \A s \in Side : NumKept(s)

-----------------------------------------------------------------------------
(* What a step does to a queue.                                            *)

LEMMA AheadNext == ASSUME TypeOK', NEW x \in Side PROVE Ahead(x)' \in Seq(SpduSet)
<1>1. sb'[x] \in Ssapblk /\ net'[x] \in Seq(SpduSet)
  BY DEF TypeOK
<1>2. sb'[x].spdu \in Seq(SpduSet)
  BY <1>1 DEF Ssapblk
<1> QED BY <1>1, <1>2 DEF Ahead

(* Nothing that counts changes in the queue ...                            *)
Eased(q, r) ==
    /\ \A v : Sound(q, 0, v) => Sound(r, 0, v)
    /\ \A v, P : Restarts(q, v, P) => Restarts(r, v, P)
    /\ Hushed(q) => Hushed(r)
    /\ Answered(q) => Answered(r)
    /\ Given(r) => Given(q)
    /\ \A cs \in SUBSET NumCode : Without(q, cs) <=> Without(r, cs)
    /\ From(r, 1, PointCode) = From(q, 1, PointCode)

(* ... or m joins it.                                                      *)
Joined(q, r, m) ==
    /\ m.code \notin PointCode =>
          /\ \A v \in Int : Sound(q, 0, v) => Sound(r, 0, v)
          /\ Hushed(q) => Hushed(r)
          /\ From(r, 1, PointCode) = From(q, 1, PointCode)
    /\ m.code \notin PointCode \cup {"RA"} =>
          \A v \in Int : \A P : Restarts(q, v, P) => Restarts(r, v, P)
    /\ m.code = "RA" =>
          /\ Without(q, {"RA"}) => \A P : Restarts(r, m.ssn, P)
          /\ Answered(r)
    /\ m.code # "RS" /\ Answered(q) => Answered(r)
    /\ Hushed(q) /\ Answered(q) => Hushed(r)
    /\ ~Carries(m, Key) /\ Given(r) => Given(q)
    /\ \A cs \in SUBSET NumCode : m.code \notin cs => (Without(q, cs) <=> Without(r, cs))
    /\ m.code \in PointCode =>
          /\ From(r, 1, PointCode) = From(q, 1, PointCode) + 1
          /\ Sound(q, 0, m.ssn) /\ ~Given(q) => Sound(r, 0, m.ssn + 1)
          /\ \A P : /\ Restarts(q, m.ssn, P)
                    /\ \A i \in 1..Len(q) : q[i].code = "RA" =>
                          /\ q[i].settings[Key] = P
                          /\ \A j \in 1..Len(q) : j > i => ~Carries(q[j], Key)
                    => Restarts(r, m.ssn + 1, P)

LEMMA FilledKeeps ==
    ASSUME TypeOK, TypeOK', NEW x \in Side, Filled(x)
    PROVE  Eased(Ahead(x), Ahead(x)')
<1>1. PICK g : Fills(Ahead(x), Ahead(x)', g, NumCode)
  BY DEF Filled
<1>2. Ahead(x) \in Seq(SpduSet) /\ Ahead(x)' \in Seq(SpduSet)
  BY AheadTyped, AheadNext
<1>3. ASSUME NEW q \in Seq(SpduSet), NEW r \in Seq(SpduSet), NEW f, Fills(q, r, f, NumCode)
      PROVE  Eased(q, r)
  BY <1>3, FillsKeeps DEF Eased
<1> QED BY <1>1, <1>2, <1>3

LEMMA AddedKeeps ==
    ASSUME TypeOK, TypeOK', NEW x \in Side, NEW m \in SpduSet, Added(x, m)
    PROVE  Joined(Ahead(x), Ahead(x)', m)
<1>1. PICK g : Adds(Ahead(x), Ahead(x)', g, m, NumCode)
  BY DEF Added
<1>2. Ahead(x) \in Seq(SpduSet) /\ Ahead(x)' \in Seq(SpduSet)
  BY AheadTyped, AheadNext
<1>3. ASSUME NEW q \in Seq(SpduSet), NEW r \in Seq(SpduSet), NEW f, Adds(q, r, f, m, NumCode)
      PROVE  Joined(q, r, m)
  <2>1. m.ssn \in Int
    BY DEF SpduSet, SpduShape
  <2>2. \A j \in 1..Len(q) : j > 0 <=> f[j] > 0
    BY <1>3 DEF Adds, Embedded
  <2>3. /\ \A v \in Int : m.code \notin PointCode /\ Sound(q, 0, v) => Sound(r, 0, v)
        /\ m.code \in PointCode /\ Sound(q, 0, m.ssn) /\ ~Given(q) => Sound(r, 0, m.ssn + 1)
    BY <1>3, <2>1, <2>2, SoundAdds DEF Given
  <2>4. /\ m.code \in PointCode => From(r, 1, PointCode) = From(q, 1, PointCode) + 1
        /\ m.code \notin PointCode => From(r, 1, PointCode) = From(q, 1, PointCode)
    BY <1>3, PointsAdded DEF Raised, Level
  <2>5. \A v \in Int : \A P :
          m.code \notin PointCode \cup {"RA"} /\ Restarts(q, v, P) => Restarts(r, v, P)
    BY <1>3, RestartsAdds
  <2>6. m.code = "RA" /\ Without(q, {"RA"}) => \A P : Restarts(r, m.ssn, P)
    BY <1>3, <2>1, RestartsAdds
  <2>7. ASSUME m.code \in PointCode, NEW P, Restarts(q, m.ssn, P),
               \A i \in 1..Len(q) : q[i].code = "RA" =>
                          /\ q[i].settings[Key] = P
                          /\ \A j \in 1..Len(q) : j > i => ~Carries(q[j], Key)
        PROVE  Restarts(r, m.ssn + 1, P)
    BY <1>3, <2>1, <2>7, RestartsAdds
  <2>8. /\ \A cs \in SUBSET NumCode : m.code \notin cs => (Without(q, cs) <=> Without(r, cs))
        /\ ~Carries(m, Key) /\ Given(r) => Given(q)
        /\ m.code \notin PointCode /\ Hushed(q) => Hushed(r)
        /\ m.code # "RS" /\ Answered(q) => Answered(r)
        /\ m.code = "RA" => Answered(r)
        /\ Hushed(q) /\ Answered(q) => Hushed(r)
    BY <1>3, AddsKeeps
  <2> QED BY <2>3, <2>4, <2>5, <2>6, <2>7, <2>8 DEF Joined
<1> QED BY <1>1, <1>2, <1>3

(* Both ends, and what they count.                                         *)
LEMMA Ends ==
    ASSUME TypeOK, NEW s \in Side
    PROVE  /\ Peer(s) \in Side /\ Peer(s) # s /\ Peer(Peer(s)) = s /\ Side = {s, Peer(s)}
           /\ \A x \in Side : /\ sb[x].V_M \in Int /\ Ahead(x) \in Seq(SpduSet)
                              /\ From(Ahead(x), 1, PointCode) \in Nat
                              /\ From(Ahead(x), 1, PointCode) = 0 <=> NoneOf(x, PointCode)
<1>1. Peer(s) \in Side /\ Peer(s) # s /\ Peer(Peer(s)) = s /\ Side = {s, Peer(s)}
  BY DEF Peer, Side
<1>2. ASSUME NEW x \in Side
      PROVE  /\ sb[x].V_M \in Int /\ Ahead(x) \in Seq(SpduSet)
             /\ From(Ahead(x), 1, PointCode) \in Nat
             /\ From(Ahead(x), 1, PointCode) = 0 <=> NoneOf(x, PointCode)
  <2>1. sb[x] \in Ssapblk
    BY DEF TypeOK
  <2>2. sb[x].V_M \in Int /\ Ahead(x) \in Seq(SpduSet)
    BY <2>1, BlockTyped, AheadTyped
  <2>3. ASSUME NEW q \in Seq(SpduSet)
        PROVE  From(q, 1, PointCode) \in Nat
               /\ (From(q, 1, PointCode) = 0 <=> Without(q, PointCode))
    <3>1. \A j \in 1..Len(q) : j >= 1
      OBVIOUS
    <3> QED BY <3>1, FromTyped DEF Without
  <2>4. NoneOf(x, PointCode) <=> Without(Ahead(x), PointCode)
    BY DEF NoneOf, Without, Place
  <2> QED BY <2>2, <2>3, <2>4
<1> QED BY <1>1, <1>2

LEMMA NoneWithout ==
    /\ \A x, cs : NoneOf(x, cs) <=> Without(Ahead(x), cs)
    /\ \A x, cs : NoneOf(x, cs)' <=> Without(Ahead(x)', cs)
BY DEF NoneOf, Without, Place

-----------------------------------------------------------------------------
(* Each step preserves the invariant.                                      *)

Counted == \A x \in Side : NumKept(x)

(* What one side is not concerned by.                                      *)
LEMMA SameMarks ==
    ASSUME NEW x, NEW ds, SameFlags(x, Marks \ ds)
    PROVE  /\ ds \cap {"RS", "AI"} = {} => (Suspended(x)' <=> Suspended(x))
           /\ ds \cap {"RA", "AIA"} = {} => (Asked(x)' <=> Asked(x))
           /\ "AI" \notin ds => (Flagged(x, "AI")' <=> Flagged(x, "AI"))
           /\ "AIA" \notin ds => (Flagged(x, "AIA")' <=> Flagged(x, "AIA"))
           /\ "RS" \notin ds => (Flagged(x, "RS")' <=> Flagged(x, "RS"))
           /\ "RA" \notin ds => (Flagged(x, "RA")' <=> Flagged(x, "RA"))
BY DEF SameFlags, Marks, Suspended, Asked, Flagged

LEMMA SameBlockMarks ==
    ASSUME NEW x, sb'[x] = sb[x]
    PROVE  /\ sb'[x].V_M = sb[x].V_M /\ sb'[x].owned = sb[x].owned
           /\ Suspended(x)' <=> Suspended(x)
           /\ Asked(x)' <=> Asked(x)
           /\ Flagged(x, "AI")' <=> Flagged(x, "AI")
           /\ Flagged(x, "AIA")' <=> Flagged(x, "AIA")
           /\ Flagged(x, "RS")' <=> Flagged(x, "RS")
           /\ Flagged(x, "RA")' <=> Flagged(x, "RA")
BY DEF Suspended, Asked, Flagged

(* Where nothing happens to one queue and nothing that counts to the other.*)
LEMMA SilentKeeps ==
    ASSUME TypeOK, TypeOK', Counted, NEW s \in Side, sb'[Peer(s)] = sb[Peer(s)], Silent(s)
    PROVE  Counted'
<1> DEFINE p == Peer(s)
           a == Ahead(s)
           b == Ahead(p)
<1>1. /\ p \in Side /\ p # s /\ Peer(p) = s /\ Side = {s, p}
      /\ Ahead(s)' = a /\ Eased(b, Ahead(p)')
  BY Ends, FilledKeeps DEF Silent
<1>2. \A x \in Side : /\ sb'[x].V_M = sb[x].V_M /\ sb'[x].owned = sb[x].owned
                      /\ Suspended(x)' <=> Suspended(x)
                      /\ Asked(x)' <=> Asked(x)
                      /\ Flagged(x, "AI")' <=> Flagged(x, "AI")
                      /\ Flagged(x, "AIA")' <=> Flagged(x, "AIA")
  <2>1. sb'[s].V_M = sb[s].V_M /\ sb'[s].owned = sb[s].owned /\ SameFlags(s, Marks \ {})
    BY DEF Silent, SameBut
  <2>2. /\ Suspended(s)' <=> Suspended(s)
        /\ Asked(s)' <=> Asked(s)
        /\ Flagged(s, "AI")' <=> Flagged(s, "AI")
        /\ Flagged(s, "AIA")' <=> Flagged(s, "AIA")
    BY <2>1 DEF SameFlags, Marks, Suspended, Asked, Flagged
  <2> QED BY <1>1, <2>1, <2>2, SameBlockMarks
<1>3. Settled' <=> Settled
  BY <1>2 DEF Settled
<1>4. /\ \A cs \in SUBSET NumCode : \A x \in Side : NoneOf(x, cs)' <=> NoneOf(x, cs)
      /\ From(Ahead(s)', 1, PointCode) = From(a, 1, PointCode)
      /\ From(Ahead(p)', 1, PointCode) = From(b, 1, PointCode)
      /\ Given(Ahead(s)') => Given(a)
      /\ Given(Ahead(p)') => Given(b)
      /\ \A x \in Side : \A v : Sound(Ahead(x), 0, v) => Sound(Ahead(x)', 0, v)
      /\ \A x \in Side : \A v, P : Restarts(Ahead(x), v, P) => Restarts(Ahead(x)', v, P)
      /\ \A x \in Side : Hushed(Ahead(x)) => Hushed(Ahead(x)')
      /\ \A x \in Side : Answered(Ahead(x)) => Answered(Ahead(x)')
  BY <1>1, NoneWithout DEF Eased
<1>5. PointCode \in SUBSET NumCode /\ ActCode \in SUBSET NumCode /\ {"RA"} \in SUBSET NumCode
  BY DEF NumCode
<1>6. \A x \in Side : Peer(x) \in Side /\ NumKept(x)
  BY <1>1 DEF Counted
<1>7. \A x \in Side : Calm(x)'
  BY <1>2, <1>4, <1>5, <1>6 DEF Calm, NumKept
<1>8. \A x \in Side : Numbered(x)'
  BY <1>1, <1>2, <1>3, <1>4, <1>5, <1>6 DEF Numbered, NumKept
<1>9. \A x \in Side : Restarted(x)'
  BY <1>2, <1>4, <1>5, <1>6 DEF Restarted, NumKept
<1>10. \A x \in Side : Caught(x)' /\ Silenced(x)'
  BY <1>2, <1>4, <1>5, <1>6 DEF Caught, Silenced, NumKept
<1> QED BY <1>7, <1>8, <1>9, <1>10 DEF Counted, NumKept

(* What is as before when only the peer of s has one more SPDU to read.    *)
LEMMA UtterView ==
    ASSUME TypeOK, TypeOK', NEW s \in Side, sb'[Peer(s)] = sb[Peer(s)],
           NEW m \in SpduSet, Ahead(s)' = Ahead(s), Added(Peer(s), m)
    PROVE  /\ Joined(Ahead(Peer(s)), Ahead(Peer(s))', m)
           /\ \A cs : NoneOf(s, cs)' <=> NoneOf(s, cs)
           /\ \A cs \in SUBSET NumCode :
                 m.code \notin cs => (NoneOf(Peer(s), cs)' <=> NoneOf(Peer(s), cs))
           /\ sb'[Peer(s)].V_M = sb[Peer(s)].V_M /\ sb'[Peer(s)].owned = sb[Peer(s)].owned
           /\ Suspended(Peer(s))' <=> Suspended(Peer(s))
           /\ Asked(Peer(s))' <=> Asked(Peer(s))
           /\ Flagged(Peer(s), "AI")' <=> Flagged(Peer(s), "AI")
           /\ Flagged(Peer(s), "AIA")' <=> Flagged(Peer(s), "AIA")
<1>1. Joined(Ahead(Peer(s)), Ahead(Peer(s))', m)
  BY Ends, AddedKeeps
<1>2. \A cs : NoneOf(s, cs)' <=> NoneOf(s, cs)
  BY NoneWithout
<1>3. \A cs \in SUBSET NumCode :
                 m.code \notin cs => (NoneOf(Peer(s), cs)' <=> NoneOf(Peer(s), cs))
  BY <1>1, NoneWithout DEF Joined
<1> QED BY <1>1, <1>2, <1>3, SameBlockMarks

LEMMA SetsOfCodes ==
    /\ PointCode \in SUBSET NumCode /\ ActCode \in SUBSET NumCode
    /\ {"RA"} \in SUBSET NumCode
BY DEF NumCode

(* Who may send points has none to read, and none of its tokens travels.   *)
LEMMA MarkKeeps ==
    ASSUME TypeOK, TypeOK', Good, Counted, NEW s \in Side, sb'[Peer(s)] = sb[Peer(s)],
           NEW m \in SpduSet, Ahead(s)' = Ahead(s), Added(Peer(s), m), Marking(s, m)
    PROVE  Counted'
<1> DEFINE p == Peer(s)
           a == Ahead(s)
           b == Ahead(p)
           v == sb[s].V_M
<1>1. /\ p \in Side /\ p # s /\ Peer(p) = s /\ Side = {s, p}
      /\ v \in Int /\ sb[p].V_M \in Int
      /\ From(a, 1, PointCode) \in Nat /\ From(b, 1, PointCode) \in Nat
  BY Ends
<1>2. /\ m.code \in PointCode /\ m.ssn = v /\ sb'[s].V_M = v + 1 /\ sb'[s].owned = sb[s].owned
      /\ Key \in Tokens /\ Key \in sb[s].owned
      /\ ~Suspended(s) /\ ~Asked(s)
      /\ m.code \notin {"RS", "RA"} \cup ActCode
  BY DEF Marking, PointCode, ActCode
<1>3. /\ Joined(b, Ahead(p)', m)
      /\ \A cs : NoneOf(s, cs)' <=> NoneOf(s, cs)
      /\ \A cs \in SUBSET NumCode : m.code \notin cs => (NoneOf(p, cs)' <=> NoneOf(p, cs))
      /\ sb'[p].V_M = sb[p].V_M /\ sb'[p].owned = sb[p].owned
      /\ Suspended(p)' <=> Suspended(p)
      /\ Asked(p)' <=> Asked(p)
      /\ Flagged(p, "AI")' <=> Flagged(p, "AI")
      /\ Flagged(p, "AIA")' <=> Flagged(p, "AIA")
  BY UtterView
<1>4. /\ Suspended(s)' <=> Suspended(s)
      /\ Asked(s)' <=> Asked(s)
      /\ Flagged(s, "AI")' <=> Flagged(s, "AI")
      /\ Flagged(s, "AIA")' <=> Flagged(s, "AIA")
  BY DEF Marking, SameFlags, Marks, Suspended, Asked, Flagged
<1>5. Settled' <=> Settled
  BY <1>1, <1>3, <1>4 DEF Settled
<1>6. NumKept(s) /\ NumKept(p) /\ TokenKept(s) /\ TokenKept(p)
  BY <1>1 DEF Counted, Good
<1>7. ~Asked(p) /\ NoneOf(s, {"RA"})
  <2>1. ~Flagged(s, "RS") /\ ~Flagged(s, "AI")
    BY <1>2 DEF Suspended, Flagged
  <2>2. ~Asked(p)
    BY <1>1, <1>6, <2>1 DEF TokenKept, AskedKept, Asked
  <2>3. NoneOf(s, {"RA"})
    BY <1>6, <2>1 DEF TokenKept, AnswerKept, NoneOf, AnswerCode
  <2> QED BY <2>2, <2>3
<1>8. ASSUME Settled PROVE ~Given(a) /\ ~Given(b) /\ Key \notin sb[p].owned
  BY <1>1, <1>2, <1>6, <1>8 DEF Settled, TokenKept, Once, Given, Place
<1>9. ASSUME NEW i \in 1..Len(b), b[i].code = "RA"
      PROVE  /\ b[i].settings[Key] = s
             /\ \A j \in 1..Len(b) : j > i => ~Carries(b[j], Key)
  BY <1>1, <1>2, <1>6, <1>9 DEF TokenKept, NothingUnsettled, Place
<1>10. NumKept(s)'
  <2>1. Calm(s)'
    BY <1>3, <1>4, <1>6 DEF NumKept, Calm
  <2>2. Numbered(s)'
    <3> SUFFICES ASSUME Settled
                 PROVE  /\ Sound(a, 0, sb[p].V_M) /\ NoneOf(s, PointCode)
                        /\ v + 1 = sb[p].V_M + From(Ahead(p)', 1, PointCode)
                        /\ ~Given(a)
      BY <1>1, <1>2, <1>3, <1>5 DEF Numbered
    <3>1. /\ Sound(a, 0, sb[p].V_M) /\ NoneOf(s, PointCode)
          /\ v = sb[p].V_M + From(b, 1, PointCode)
      BY <1>2, <1>6 DEF NumKept, Numbered
    <3>2. From(Ahead(p)', 1, PointCode) = From(b, 1, PointCode) + 1
      BY <1>2, <1>3 DEF Joined
    <3> HIDE DEF a, b, p, v
    <3>3. v + 1 = sb[p].V_M + From(Ahead(p)', 1, PointCode)
      BY <1>1, <3>1, <3>2
    <3> QED BY <1>8, <3>1, <3>3
  <2>3. Restarted(s)'
    BY <1>3, <1>6, <1>7 DEF NumKept, Restarted
  <2>4. Caught(s)' /\ Silenced(s)'
    BY <1>3, <1>4, <1>6 DEF NumKept, Caught, Silenced
  <2> QED BY <2>1, <2>2, <2>3, <2>4 DEF NumKept
<1>11. NumKept(p)'
  <2>1. Calm(p)'
    BY <1>2, <1>3, <1>6, SetsOfCodes DEF NumKept, Calm
  <2>2. Numbered(p)'
    <3> SUFFICES ASSUME Settled
                 PROVE  /\ Sound(Ahead(p)', 0, v + 1) /\ ~NoneOf(p, PointCode)'
                        /\ NoneOf(s, PointCode) /\ Key \notin sb[p].owned
      BY <1>1, <1>2, <1>3, <1>5 DEF Numbered
    <3>1. Sound(b, 0, v) /\ NoneOf(s, PointCode)
      BY <1>1, <1>2, <1>6 DEF NumKept, Numbered
    <3>2. Sound(Ahead(p)', 0, v + 1)
      BY <1>2, <1>3, <1>8, <3>1 DEF Joined
    <3>3. ~NoneOf(p, PointCode)'
      <4>1. From(Ahead(p)', 1, PointCode) = From(b, 1, PointCode) + 1
        BY <1>2, <1>3 DEF Joined
      <4>2. Ahead(p)' \in Seq(SpduSet)
        BY <1>1, AheadNext
      <4>3. ASSUME NEW q \in Seq(SpduSet), Without(q, PointCode)
            PROVE  From(q, 1, PointCode) = 0
        BY <4>3, FromTyped DEF Without
      <4> QED BY <1>1, <4>1, <4>2, <4>3, NoneWithout
    <3> QED BY <1>8, <3>1, <3>2, <3>3
  <2>3. Restarted(p)'
    <3>1. Restarts(b, v, s)
      BY <1>1, <1>6 DEF NumKept, Restarted
    <3>2. Restarts(Ahead(p)', v + 1, s)
      BY <1>2, <1>3, <1>9, <3>1 DEF Joined
    <3>3. NoneOf(p, {"RA"})' \/ NoneOf(s, PointCode)'
      BY <1>1, <1>2, <1>3, <1>6, SetsOfCodes DEF NumKept, Restarted
    <3> QED BY <1>1, <1>2, <3>2, <3>3 DEF Restarted
  <2>4. Caught(p)'
    BY <1>3, <1>7 DEF Caught
  <2>5. Silenced(p)'
    <3>1. Hushed(b) /\ Answered(b)
      BY <1>1, <1>2, <1>6 DEF NumKept, Silenced
    <3>2. Hushed(Ahead(p)') /\ Answered(Ahead(p)')
      BY <1>2, <1>3, <3>1 DEF Joined
    <3> QED BY <3>2 DEF Silenced
  <2> QED BY <2>1, <2>2, <2>3, <2>4, <2>5 DEF NumKept
<1> QED BY <1>1, <1>10, <1>11 DEF Counted

(* A confirmation, or a gift of what s owned.                              *)
LEMMA SayKeeps ==
    ASSUME TypeOK, TypeOK', Counted, NEW s \in Side, sb'[Peer(s)] = sb[Peer(s)],
           NEW m \in SpduSet, Ahead(s)' = Ahead(s), Added(Peer(s), m),
           Confirming(s, m) \/ Giving(s, m)
    PROVE  Counted'
<1> DEFINE p == Peer(s)
           a == Ahead(s)
           b == Ahead(p)
<1>1. /\ p \in Side /\ p # s /\ Peer(p) = s /\ Side = {s, p}
      /\ \A x \in Side : sb[x].V_M \in Int
  BY Ends
<1>2. /\ sb'[s].V_M = sb[s].V_M /\ sb'[s].owned \subseteq sb[s].owned
      /\ m.code \notin PointCode \cup {"RS", "RA"} \cup ActCode
      /\ Carries(m, Key) => Key \in sb[s].owned
      /\ Suspended(s)' <=> Suspended(s)
      /\ Asked(s)' <=> Asked(s)
      /\ Flagged(s, "AI")' <=> Flagged(s, "AI")
      /\ Flagged(s, "AIA")' <=> Flagged(s, "AIA")
  <2>1. CASE Confirming(s, m)
    <3>1. SameFlags(s, Marks \ {"MAA"})
      BY <2>1 DEF Confirming, SameBut
    <3>2. /\ Suspended(s)' <=> Suspended(s)
          /\ Asked(s)' <=> Asked(s)
          /\ Flagged(s, "AI")' <=> Flagged(s, "AI")
          /\ Flagged(s, "AIA")' <=> Flagged(s, "AIA")
      BY <3>1 DEF SameFlags, Marks, Suspended, Asked, Flagged
    <3> QED BY <2>1, <3>2 DEF Confirming, SameBut, Carries, PointCode, ActCode
  <2>2. CASE Giving(s, m)
    <3>1. /\ Suspended(s)' <=> Suspended(s)
          /\ Asked(s)' <=> Asked(s)
          /\ Flagged(s, "AI")' <=> Flagged(s, "AI")
          /\ Flagged(s, "AIA")' <=> Flagged(s, "AIA")
      BY <2>2 DEF Giving, SameFlags, Marks, Suspended, Asked, Flagged
    <3> QED BY <2>2, <3>1 DEF Giving, Carries, PointCode, ActCode
  <2> QED BY <2>1, <2>2
<1>3. /\ Joined(b, Ahead(p)', m)
      /\ \A cs : NoneOf(s, cs)' <=> NoneOf(s, cs)
      /\ \A cs \in SUBSET NumCode : m.code \notin cs => (NoneOf(p, cs)' <=> NoneOf(p, cs))
      /\ sb'[p].V_M = sb[p].V_M /\ sb'[p].owned = sb[p].owned
      /\ Suspended(p)' <=> Suspended(p)
      /\ Asked(p)' <=> Asked(p)
      /\ Flagged(p, "AI")' <=> Flagged(p, "AI")
      /\ Flagged(p, "AIA")' <=> Flagged(p, "AIA")
  BY UtterView
<1>4. Settled' <=> Settled
  BY <1>1, <1>2, <1>3 DEF Settled
<1>5. NumKept(s) /\ NumKept(p)
  BY <1>1 DEF Counted
<1>6. /\ \A cs \in {PointCode, ActCode, {"RA"}} : NoneOf(p, cs)' <=> NoneOf(p, cs)
      /\ From(Ahead(p)', 1, PointCode) = From(b, 1, PointCode)
      /\ \A v \in Int : Sound(b, 0, v) => Sound(Ahead(p)', 0, v)
      /\ \A v \in Int : \A P : Restarts(b, v, P) => Restarts(Ahead(p)', v, P)
      /\ Hushed(b) => Hushed(Ahead(p)')
      /\ Answered(b) => Answered(Ahead(p)')
      /\ Given(Ahead(p)') => Given(b) \/ Key \in sb[s].owned
  BY <1>2, <1>3, SetsOfCodes DEF Joined
<1>7. NumKept(s)'
  <2>1. Calm(s)' /\ Restarted(s)' /\ Caught(s)' /\ Silenced(s)'
    BY <1>1, <1>2, <1>3, <1>5, <1>6 DEF NumKept, Calm, Restarted, Caught, Silenced
  <2>2. Numbered(s)'
    BY <1>1, <1>2, <1>3, <1>4, <1>5, <1>6 DEF NumKept, Numbered
  <2> QED BY <2>1, <2>2 DEF NumKept
<1>8. NumKept(p)'
  <2>1. Calm(p)' /\ Restarted(p)' /\ Caught(p)' /\ Silenced(p)'
    BY <1>1, <1>2, <1>3, <1>5, <1>6 DEF NumKept, Calm, Restarted, Caught, Silenced
  <2>2. Numbered(p)'
    BY <1>1, <1>2, <1>3, <1>4, <1>5, <1>6 DEF NumKept, Numbered
  <2> QED BY <2>1, <2>2 DEF NumKept
<1> QED BY <1>1, <1>7, <1>8 DEF Counted

(* Who asks waits: nothing is claimed of the numbers until it is answered. *)
LEMMA AskKeeps ==
    ASSUME TypeOK, TypeOK', Counted, NEW s \in Side, sb'[Peer(s)] = sb[Peer(s)],
           NEW m \in SpduSet, Ahead(s)' = Ahead(s), Added(Peer(s), m), Asking(s, m)
    PROVE  Counted'
<1> DEFINE p == Peer(s)
           b == Ahead(p)
<1>1. /\ p \in Side /\ p # s /\ Peer(p) = s /\ Side = {s, p}
      /\ \A x \in Side : sb[x].V_M \in Int
  BY Ends
<1>2. /\ sb'[s].V_M = sb[s].V_M /\ m.code = "RS"
      /\ Suspended(s)' /\ ~Flagged(s, "RA")'
      /\ Flagged(s, "AI")' <=> Flagged(s, "AI")
      /\ Flagged(s, "AIA")' <=> Flagged(s, "AIA")
  BY DEF Asking, SameBut, SameFlags, Marks, Suspended, Flagged
<1>3. /\ Joined(b, Ahead(p)', m)
      /\ \A cs : NoneOf(s, cs)' <=> NoneOf(s, cs)
      /\ \A cs \in SUBSET NumCode : m.code \notin cs => (NoneOf(p, cs)' <=> NoneOf(p, cs))
      /\ sb'[p].V_M = sb[p].V_M
      /\ Suspended(p)' <=> Suspended(p)
      /\ Asked(p)' <=> Asked(p)
      /\ Flagged(p, "AI")' <=> Flagged(p, "AI")
      /\ Flagged(p, "AIA")' <=> Flagged(p, "AIA")
  BY UtterView
<1>4. ~Settled'
  BY <1>2 DEF Settled
<1>5. NumKept(s) /\ NumKept(p)
  BY <1>1 DEF Counted
<1>6. /\ \A cs \in {PointCode, ActCode, {"RA"}} : NoneOf(p, cs)' <=> NoneOf(p, cs)
      /\ \A v \in Int : \A P : Restarts(b, v, P) => Restarts(Ahead(p)', v, P)
      /\ Hushed(b) => Hushed(Ahead(p)')
  <2>1. m.code \notin PointCode \cup {"RA"} \cup ActCode
    BY <1>2 DEF PointCode, ActCode
  <2> QED BY <1>3, <2>1, SetsOfCodes DEF Joined
<1>7. NumKept(s)'
  <2>1. Calm(s)' /\ Restarted(s)' /\ Silenced(s)'
    BY <1>1, <1>2, <1>3, <1>5, <1>6 DEF NumKept, Calm, Restarted, Silenced
  <2>2. Caught(s)'
    BY <1>2, <1>5 DEF NumKept, Calm, Caught, Asked
  <2> QED BY <1>4, <2>1, <2>2 DEF NumKept, Numbered
<1>8. NumKept(p)'
  <2>1. Calm(p)' /\ Restarted(p)' /\ Caught(p)' /\ Silenced(p)'
    BY <1>1, <1>2, <1>3, <1>5, <1>6 DEF NumKept, Calm, Restarted, Caught, Silenced
  <2> QED BY <1>4, <2>1 DEF NumKept, Numbered
<1> QED BY <1>1, <1>7, <1>8 DEF Counted

(* Who answers has read all points of the peer, which waits.               *)
LEMMA AnswerKeeps ==
    ASSUME TypeOK, TypeOK', Good, Counted, NEW s \in Side, sb'[Peer(s)] = sb[Peer(s)],
           NEW m \in SpduSet, Ahead(s)' = Ahead(s), Added(Peer(s), m), Answering(s, m)
    PROVE  Counted'
<1> DEFINE p == Peer(s)
           b == Ahead(p)
<1>1. /\ p \in Side /\ p # s /\ Peer(p) = s /\ Side = {s, p}
      /\ \A x \in Side : sb[x].V_M \in Int
  BY Ends
<1>2. /\ sb'[s].V_M = m.ssn /\ m.code = "RA" /\ Asked(s)
      /\ ~Flagged(s, "RA")'
      /\ Flagged(s, "AI")' <=> Flagged(s, "AI")
      /\ Flagged(s, "AIA")' <=> Flagged(s, "AIA")
  BY DEF Answering, SameFlags, Marks, Suspended, Asked, Flagged
<1>3. /\ Joined(b, Ahead(p)', m)
      /\ \A cs : NoneOf(s, cs)' <=> NoneOf(s, cs)
      /\ \A cs \in SUBSET NumCode : m.code \notin cs => (NoneOf(p, cs)' <=> NoneOf(p, cs))
      /\ sb'[p].V_M = sb[p].V_M
      /\ Suspended(p)' <=> Suspended(p)
      /\ Asked(p)' <=> Asked(p)
      /\ Flagged(p, "AI")' <=> Flagged(p, "AI")
      /\ Flagged(p, "AIA")' <=> Flagged(p, "AIA")
  BY UtterView
<1>4. NumKept(s) /\ NumKept(p) /\ TokenKept(s)
  BY <1>1 DEF Counted, Good
<1>5. Suspended(p) /\ NoneOf(p, {"RA"})
  <2>1. Flagged(p, "RS") /\ NoneOf(p, AnswerCode)
    BY <1>2, <1>4 DEF TokenKept, AskedKept, Answering
  <2> QED BY <2>1 DEF NoneOf, AnswerCode, Suspended, Flagged
<1>6. ~Settled'
  BY <1>1, <1>3, <1>5 DEF Settled
<1>7. NoneOf(s, PointCode)
  BY <1>2, <1>4 DEF NumKept, Caught
<1>8. /\ \A cs \in {PointCode, ActCode} : NoneOf(p, cs)' <=> NoneOf(p, cs)
      /\ \A P : Restarts(Ahead(p)', m.ssn, P)
      /\ Hushed(b) => Hushed(Ahead(p)')
      /\ Answered(Ahead(p)')
  <2>1. m.code \notin PointCode \cup ActCode
    BY <1>2 DEF PointCode, ActCode
  <2>2. Without(b, {"RA"})
    BY <1>5, NoneWithout
  <2> QED BY <1>2, <1>3, <2>1, <2>2, SetsOfCodes DEF Joined
<1>9. NumKept(s)'
  <2>1. Calm(s)' /\ Restarted(s)' /\ Silenced(s)'
    BY <1>1, <1>2, <1>3, <1>4, <1>8 DEF NumKept, Calm, Restarted, Silenced
  <2>2. Caught(s)'
    BY <1>2, <1>4 DEF NumKept, Calm, Caught, Asked
  <2> QED BY <1>6, <2>1, <2>2 DEF NumKept, Numbered
<1>10. NumKept(p)'
  <2>1. Calm(p)' /\ Restarted(p)' /\ Caught(p)' /\ Silenced(p)'
    BY <1>1, <1>2, <1>3, <1>4, <1>7, <1>8 DEF NumKept, Calm, Restarted, Caught, Silenced
  <2> QED BY <1>6, <2>1 DEF NumKept, Numbered
<1> QED BY <1>1, <1>9, <1>10 DEF Counted

(* A queue of which the first, m, is taken.                                *)
Shorter(q, r, m) ==
    /\ \A v : Sound(q, 0, v) => Sound(r, 0, v)
    /\ \A v, P : Restarts(q, v, P) => Restarts(r, v, P)
    /\ Hushed(q) => Hushed(r)
    /\ Answered(q) => Answered(r)
    /\ Given(r) => Given(q)
    /\ \A cs : Without(q, cs) => Without(r, cs) /\ m.code \notin cs
    /\ \A cs : Without(r, cs) /\ m.code \notin cs => Without(q, cs)
    /\ m.code \in PointCode => From(q, 1, PointCode) = From(r, 1, PointCode) + 1
    /\ m.code \notin PointCode => From(q, 1, PointCode) = From(r, 1, PointCode)
    /\ \A v : Sound(q, 0, v) =>
          /\ m.code \in PointCode => m.ssn + From(q, 1, PointCode) = v
          /\ Carries(m, Key) => Without(r, PointCode)
    /\ \A v, P : Restarts(q, v, P) /\ m.code = "RA" =>
          /\ Sound(r, 0, v)
          /\ m.ssn + From(r, 1, PointCode) = v
          /\ Without(r, PointCode) \/ m.settings[Key] = P
    /\ m.code = "RS" /\ Hushed(q) /\ Without(r, {"RA"}) => Without(r, PointCode)

LEMMA HeadTaken ==
    ASSUME NEW q \in Seq(SpduSet), q # <<>>
    PROVE  Shorter(q, Tail(q), q[1])
<1>1. \A cs : Without(q, cs) => q[1].code \notin cs
  <2>1. 1 \in 1..Len(q)
    OBVIOUS
  <2> QED BY <2>1 DEF Without
<1> QED BY <1>1, TailKeeps, HeadSays DEF Shorter

(* What is as before when s takes m off its queue.                         *)
LEMMA ListenView ==
    ASSUME TypeOK, TypeOK', NEW s \in Side, sb'[Peer(s)] = sb[Peer(s)],
           NEW m \in SpduSet, TakesOff(s, m)
    PROVE  /\ Shorter(Ahead(s), Ahead(s)', m)
           /\ Eased(Ahead(Peer(s)), Ahead(Peer(s))')
           /\ 1 \in Place(s) /\ Ahead(s)[1] = m
           /\ \A cs : NoneOf(s, cs) => NoneOf(s, cs)' /\ m.code \notin cs
           /\ \A cs : NoneOf(s, cs)' /\ m.code \notin cs => NoneOf(s, cs)
           /\ \A cs \in SUBSET NumCode : NoneOf(Peer(s), cs)' <=> NoneOf(Peer(s), cs)
           /\ sb'[Peer(s)].V_M = sb[Peer(s)].V_M /\ sb'[Peer(s)].owned = sb[Peer(s)].owned
           /\ Suspended(Peer(s))' <=> Suspended(Peer(s))
           /\ Asked(Peer(s))' <=> Asked(Peer(s))
           /\ Flagged(Peer(s), "AI")' <=> Flagged(Peer(s), "AI")
           /\ Flagged(Peer(s), "AIA")' <=> Flagged(Peer(s), "AIA")
<1>1. Ahead(s) \in Seq(SpduSet) /\ Peer(s) \in Side
  BY Ends
<1>2. Shorter(Ahead(s), Ahead(s)', m)
  BY <1>1, HeadTaken DEF TakesOff
<1>3. Eased(Ahead(Peer(s)), Ahead(Peer(s))')
  BY <1>1, FilledKeeps DEF TakesOff
<1>4. 1 \in Place(s) /\ Ahead(s)[1] = m
  BY <1>1 DEF Place, TakesOff
<1>5. /\ \A cs : NoneOf(s, cs) => NoneOf(s, cs)' /\ m.code \notin cs
      /\ \A cs : NoneOf(s, cs)' /\ m.code \notin cs => NoneOf(s, cs)
  BY <1>2, NoneWithout DEF Shorter
<1>6. \A cs \in SUBSET NumCode : NoneOf(Peer(s), cs)' <=> NoneOf(Peer(s), cs)
  BY <1>3, NoneWithout DEF Eased
<1> QED BY <1>2, <1>3, <1>4, <1>5, <1>6, SameBlockMarks

(* What every reader keeps, and what it does by what it leaves alone.      *)
LEMMA ReadRest ==
    ASSUME TypeOK, TypeOK', Counted, NEW s \in Side, sb'[Peer(s)] = sb[Peer(s)],
           NEW m \in SpduSet, TakesOff(s, m),
           Flagged(s, "AI")' <=> Flagged(s, "AI"), Flagged(s, "AIA")' <=> Flagged(s, "AIA")
    PROVE  /\ Calm(s)' /\ Calm(Peer(s))' /\ Restarted(s)' /\ Caught(Peer(s))' /\ Silenced(s)'
           /\ sb'[s].V_M = sb[s].V_M => Restarted(Peer(s))'
           /\ (Suspended(s) \/ Asked(s) => Suspended(s)' \/ Asked(s)') => Silenced(Peer(s))'
           /\ (Asked(s)' => Asked(s)) => Caught(s)'
<1> DEFINE p == Peer(s)
<1>1. /\ p \in Side /\ p # s /\ Peer(p) = s /\ Side = {s, p}
      /\ NumKept(s) /\ NumKept(p)
  BY Ends DEF Counted
<1>2. /\ Shorter(Ahead(s), Ahead(s)', m)
      /\ Eased(Ahead(p), Ahead(p)')
      /\ \A cs : NoneOf(s, cs) => NoneOf(s, cs)'
      /\ \A cs \in {PointCode, ActCode, {"RA"}} : NoneOf(p, cs)' <=> NoneOf(p, cs)
      /\ sb'[p].V_M = sb[p].V_M
      /\ Suspended(p)' <=> Suspended(p)
      /\ Asked(p)' <=> Asked(p)
      /\ Flagged(p, "AI")' <=> Flagged(p, "AI")
      /\ Flagged(p, "AIA")' <=> Flagged(p, "AIA")
  BY ListenView, SetsOfCodes
<1>3. Calm(s)' /\ Calm(p)'
  BY <1>1, <1>2 DEF NumKept, Calm
<1>4. Restarted(s)' /\ (sb'[s].V_M = sb[s].V_M => Restarted(p)')
  BY <1>1, <1>2 DEF NumKept, Restarted, Shorter, Eased
<1>5. Caught(p)' /\ ((Asked(s)' => Asked(s)) => Caught(s)')
  BY <1>1, <1>2 DEF NumKept, Caught
<1>6. /\ Silenced(s)'
      /\ (Suspended(s) \/ Asked(s) => Suspended(s)' \/ Asked(s)') => Silenced(p)'
  BY <1>1, <1>2 DEF NumKept, Silenced, Shorter, Eased
<1> QED BY <1>3, <1>4, <1>5, <1>6

(* Something that is not a point, after which s counts as before.          *)
LEMMA ReadNumbered ==
    ASSUME TypeOK, TypeOK', Counted, NEW s \in Side, sb'[Peer(s)] = sb[Peer(s)],
           NEW m \in SpduSet, TakesOff(s, m), m.code \notin PointCode,
           sb'[s].V_M = sb[s].V_M, Settled' => Settled,
           Key \in sb'[s].owned => Key \in sb[s].owned \/ Carries(m, Key)
    PROVE  Numbered(s)' /\ Numbered(Peer(s))'
<1> DEFINE p == Peer(s)
<1>1. /\ p \in Side /\ p # s /\ Peer(p) = s /\ Side = {s, p}
      /\ NumKept(s) /\ NumKept(p)
  BY Ends DEF Counted
<1>2. /\ Shorter(Ahead(s), Ahead(s)', m)
      /\ Eased(Ahead(p), Ahead(p)')
      /\ NoneOf(s, PointCode)' <=> NoneOf(s, PointCode)
      /\ NoneOf(p, PointCode)' <=> NoneOf(p, PointCode)
      /\ sb'[p].V_M = sb[p].V_M /\ sb'[p].owned = sb[p].owned
  BY ListenView, SetsOfCodes
<1>3. /\ \A v : Sound(Ahead(s), 0, v) => Sound(Ahead(s)', 0, v)
      /\ \A v : Sound(Ahead(p), 0, v) => Sound(Ahead(p)', 0, v)
      /\ From(Ahead(s)', 1, PointCode) = From(Ahead(s), 1, PointCode)
      /\ From(Ahead(p)', 1, PointCode) = From(Ahead(p), 1, PointCode)
      /\ Given(Ahead(s)') => Given(Ahead(s))
      /\ Given(Ahead(p)') => Given(Ahead(p))
  BY <1>2 DEF Shorter, Eased
<1>4. ASSUME Settled, Carries(m, Key) PROVE NoneOf(s, PointCode)'
  BY <1>1, <1>2, <1>4, NoneWithout DEF NumKept, Numbered, Shorter
<1>5. Numbered(s)'
  BY <1>1, <1>2, <1>3, <1>4 DEF NumKept, Numbered
<1>6. Numbered(p)'
  BY <1>1, <1>2, <1>3 DEF NumKept, Numbered
<1> QED BY <1>5, <1>6

(* A point is only discarded while somebody waits for an answer: otherwise *)
(* it has the number that s expects.                                       *)
LEMMA SkipsNoPoint ==
    ASSUME TypeOK, TypeOK', PrepInv, Good, BothLive, Counted, Settled,
           NEW s \in Side, sb'[Peer(s)] = sb[Peer(s)],
           NEW m \in SpduSet, TakesOff(s, m), Skipping(s, m)
    PROVE  ~Preparing(s) /\ m.code \notin PointCode
<1> DEFINE p == Peer(s)
<1>1. /\ p \in Side /\ Peer(p) = s /\ NumKept(s) /\ NumKept(p)
      /\ sb[s].V_M \in Int /\ sb[p].V_M \in Int
      /\ From(Ahead(s), 1, PointCode) \in Nat
  BY Ends DEF Counted
<1>2. ~Preparing(s)
  BY PreparingSuspended DEF Preparing, Settled
<1>3. ASSUME m.code \in PointCode PROVE FALSE
  <2>1. m.ssn # sb[s].V_M
    BY <1>2, <1>3 DEF Skipping
  <2>2. Shorter(Ahead(s), Ahead(s)', m) /\ ~NoneOf(s, PointCode)
    BY <1>3, ListenView
  <2>3. NoneOf(p, PointCode) /\ Sound(Ahead(s), 0, sb[p].V_M)
    BY <1>1, <2>2 DEF NumKept, Numbered
  <2>4. sb[p].V_M = sb[s].V_M + From(Ahead(s), 1, PointCode)
    BY <1>1, <2>3 DEF NumKept, Numbered
  <2>5. m.ssn + From(Ahead(s), 1, PointCode) = sb[p].V_M
    BY <1>3, <2>2, <2>3 DEF Shorter
  <2>6. m.ssn \in Int
    BY DEF SpduSet, SpduShape
  <2> HIDE DEF p
  <2> QED BY <1>1, <2>1, <2>4, <2>5, <2>6
<1> QED BY <1>2, <1>3

LEMMA SkipKeeps ==
    ASSUME TypeOK, TypeOK', PrepInv, Good, BothLive, Counted,
           NEW s \in Side, sb'[Peer(s)] = sb[Peer(s)],
           NEW m \in SpduSet, TakesOff(s, m), Skipping(s, m)
    PROVE  Counted'
<1> DEFINE p == Peer(s)
<1>1. p \in Side /\ Side = {s, p}
  BY Ends
<1>2. /\ sb'[s].V_M = sb[s].V_M /\ sb'[s].owned = sb[s].owned
      /\ Suspended(s)' <=> Suspended(s)
      /\ Asked(s)' <=> Asked(s)
      /\ Flagged(s, "AI")' <=> Flagged(s, "AI")
      /\ Flagged(s, "AIA")' <=> Flagged(s, "AIA")
  BY DEF Skipping, SameBut, SameFlags, Marks, Suspended, Asked, Flagged
<1>3. Settled' <=> Settled
  BY <1>1, <1>2, SameBlockMarks DEF Settled
<1>4. Numbered(s)' /\ Numbered(p)'
  <2>1. CASE m.code \notin PointCode
    BY <1>2, <1>3, <2>1, ReadNumbered
  <2>2. CASE m.code \in PointCode
    <3>1. ~Settled'
      BY <1>3, <2>2, SkipsNoPoint
    <3> QED BY <3>1 DEF Numbered
  <2> QED BY <2>1, <2>2
<1>5. /\ Calm(s)' /\ Calm(p)' /\ Restarted(s)' /\ Restarted(p)' /\ Caught(s)' /\ Caught(p)'
      /\ Silenced(s)' /\ Silenced(p)'
  BY <1>2, ReadRest
<1> QED BY <1>1, <1>4, <1>5 DEF Counted, NumKept

(* A point is counted; none of the reader's own is on its way.             *)
LEMMA CountKeeps ==
    ASSUME TypeOK, TypeOK', Counted, NEW s \in Side, sb'[Peer(s)] = sb[Peer(s)],
           NEW m \in SpduSet, TakesOff(s, m), Counting(s, m)
    PROVE  Counted'
<1> DEFINE p == Peer(s)
<1>1. /\ p \in Side /\ p # s /\ Peer(p) = s /\ Side = {s, p}
      /\ NumKept(s) /\ NumKept(p)
      /\ \A x \in Side : /\ sb[x].V_M \in Int
                         /\ From(Ahead(x), 1, PointCode) \in Nat
                         /\ From(Ahead(x), 1, PointCode) = 0 <=> NoneOf(x, PointCode)
  BY Ends DEF Counted
<1>2. /\ m.code \in PointCode
      /\ sb'[s].V_M = sb[s].V_M + 1 /\ sb'[s].owned = sb[s].owned
      /\ Suspended(s)' <=> Suspended(s)
      /\ Asked(s)' <=> Asked(s)
      /\ Flagged(s, "AI")' <=> Flagged(s, "AI")
      /\ Flagged(s, "AIA")' <=> Flagged(s, "AIA")
  BY DEF Counting, SameFlags, Marks, Suspended, Asked, Flagged
<1>3. Settled' <=> Settled
  BY <1>1, <1>2, SameBlockMarks DEF Settled
<1>4. /\ Shorter(Ahead(s), Ahead(s)', m)
      /\ Eased(Ahead(p), Ahead(p)')
      /\ ~NoneOf(s, PointCode)
      /\ NoneOf(s, {"RA"}) => NoneOf(s, {"RA"})'
      /\ \A cs \in {PointCode, {"RA"}} : NoneOf(p, cs)' <=> NoneOf(p, cs)
      /\ sb'[p].V_M = sb[p].V_M /\ sb'[p].owned = sb[p].owned
  BY <1>2, ListenView, SetsOfCodes
<1>5. /\ From(Ahead(s), 1, PointCode) = From(Ahead(s)', 1, PointCode) + 1
      /\ From(Ahead(p)', 1, PointCode) = From(Ahead(p), 1, PointCode)
      /\ \A v : Sound(Ahead(s), 0, v) => Sound(Ahead(s)', 0, v)
      /\ Given(Ahead(s)') => Given(Ahead(s))
      /\ Given(Ahead(p)') => Given(Ahead(p))
  BY <1>2, <1>4 DEF Shorter, Eased
<1>6. From(Ahead(s)', 1, PointCode) \in Nat /\ (NoneOf(s, PointCode)' => From(Ahead(s)', 1, PointCode) = 0)
  <2>1. ASSUME NEW q \in Seq(SpduSet)
        PROVE  From(q, 1, PointCode) \in Nat
               /\ (Without(q, PointCode) => From(q, 1, PointCode) = 0)
    BY FromTyped DEF Without
  <2> QED BY <2>1, AheadNext, NoneWithout
<1>7. Restarted(p)'
  <2>1. NoneOf(p, {"RA"})'
    BY <1>1, <1>4 DEF NumKept, Restarted
  <2>2. \A v, P : Restarts(Ahead(p)', v, P)
    BY <2>1 DEF NoneOf, Place, Restarts
  <2> QED BY <1>1, <2>1, <2>2 DEF Restarted
<1>8. ASSUME Settled
      PROVE  /\ NoneOf(p, PointCode) /\ Sound(Ahead(s), 0, sb[p].V_M)
             /\ Key \notin sb[s].owned /\ ~Given(Ahead(p))
             /\ sb[p].V_M = sb[s].V_M + From(Ahead(s), 1, PointCode)
  BY <1>1, <1>4, <1>8 DEF NumKept, Numbered
<1>9. Numbered(s)'
  <2> SUFFICES ASSUME Settled
               PROVE  /\ Sound(Ahead(s)', 0, sb[p].V_M) /\ NoneOf(p, PointCode)
                      /\ NoneOf(s, PointCode)' =>
                           sb[s].V_M + 1 = sb[p].V_M + From(Ahead(p)', 1, PointCode)
                      /\ Key \notin sb[s].owned
    BY <1>1, <1>2, <1>3, <1>4 DEF Numbered
  <2>1. From(Ahead(p), 1, PointCode) = 0
    BY <1>1, <1>8
  <2> HIDE DEF p
  <2> QED BY <1>1, <1>5, <1>6, <1>8, <2>1
<1>10. Numbered(p)'
  <2> SUFFICES ASSUME Settled
               PROVE  /\ Sound(Ahead(p)', 0, sb[s].V_M + 1) /\ NoneOf(p, PointCode)'
                      /\ sb[p].V_M = sb[s].V_M + 1 + From(Ahead(s)', 1, PointCode)
                      /\ ~Given(Ahead(p)')
    BY <1>1, <1>2, <1>3, <1>4 DEF Numbered
  <2>1. NoneOf(p, PointCode)' /\ ~Given(Ahead(p)')
    BY <1>4, <1>5, <1>8
  <2>2. \A v : Sound(Ahead(p)', 0, v)
    BY <2>1 DEF NoneOf, Place, Sound
  <2>3. sb[p].V_M = sb[s].V_M + 1 + From(Ahead(s)', 1, PointCode)
    <3> HIDE DEF p
    <3> QED BY <1>1, <1>5, <1>6, <1>8
  <2> QED BY <2>1, <2>2, <2>3
<1>11. /\ Calm(s)' /\ Calm(p)' /\ Restarted(s)' /\ Caught(s)' /\ Caught(p)'
       /\ Silenced(s)' /\ Silenced(p)'
  BY <1>2, ReadRest
<1> QED BY <1>1, <1>7, <1>9, <1>10, <1>11 DEF Counted, NumKept

(* A major point is confirmed, or tokens are received.                     *)
LEMMA ConcludeKeeps ==
    ASSUME TypeOK, TypeOK', Counted, NEW s \in Side, sb'[Peer(s)] = sb[Peer(s)],
           NEW m \in SpduSet, TakesOff(s, m), Concluding(s, m) \/ Receiving(s, m)
    PROVE  Counted'
<1> DEFINE p == Peer(s)
<1>1. /\ p \in Side /\ p # s /\ Peer(p) = s /\ Side = {s, p}
  BY Ends
<1>2. /\ sb'[s].V_M = sb[s].V_M /\ m.code \notin PointCode
      /\ Key \in sb'[s].owned => Key \in sb[s].owned \/ Carries(m, Key)
      /\ Suspended(s)' <=> Suspended(s)
      /\ Asked(s)' <=> Asked(s)
      /\ Flagged(s, "AI")' <=> Flagged(s, "AI")
      /\ Flagged(s, "AIA")' <=> Flagged(s, "AIA")
  <2>1. CASE Concluding(s, m)
    BY <2>1 DEF Concluding, SameBut, SameFlags, Marks, Suspended, Asked, Flagged, PointCode
  <2>2. CASE Receiving(s, m)
    BY <2>2 DEF Receiving, SameFlags, Marks, Suspended, Asked, Flagged, PointCode, Carries
  <2> QED BY <2>1, <2>2
<1>3. Settled' <=> Settled
  BY <1>1, <1>2, SameBlockMarks DEF Settled
<1>4. Numbered(s)' /\ Numbered(p)'
  BY <1>2, <1>3, ReadNumbered
<1>5. /\ Calm(s)' /\ Calm(p)' /\ Restarted(s)' /\ Restarted(p)' /\ Caught(s)' /\ Caught(p)'
      /\ Silenced(s)' /\ Silenced(p)'
  BY <1>2, ReadRest
<1> QED BY <1>1, <1>4, <1>5 DEF Counted, NumKept

(* Whoever is asked has read all points sent before, and the peer waits.   *)
LEMMA AcceptKeeps ==
    ASSUME TypeOK, TypeOK', Good, Counted, NEW s \in Side, sb'[Peer(s)] = sb[Peer(s)],
           NEW m \in SpduSet, TakesOff(s, m), Accepting(s, m)
    PROVE  Counted'
<1> DEFINE p == Peer(s)
<1>1. /\ p \in Side /\ p # s /\ Peer(p) = s /\ Side = {s, p}
      /\ NumKept(s) /\ TokenKept(s)
  BY Ends DEF Counted, Good
<1>2. /\ sb'[s].V_M = sb[s].V_M /\ m.code = "RS" /\ Asked(s)'
      /\ Flagged(s, "AI")' <=> Flagged(s, "AI")
      /\ Flagged(s, "AIA")' <=> Flagged(s, "AIA")
  BY DEF Accepting, SameBut, SameFlags, Marks, Asked, Flagged
<1>3. /\ Shorter(Ahead(s), Ahead(s)', m) /\ 1 \in Place(s) /\ Ahead(s)[1] = m
      /\ Suspended(p)' <=> Suspended(p)
  BY ListenView
<1>4. StandsBy(p, m) /\ NoneAfter(s, 1, Stirring)
  BY <1>1, <1>2, <1>3 DEF Accepting, TokenKept, AskKept, AskCode
<1>5. ~Settled'
  BY <1>1, <1>2, <1>3, <1>4 DEF StandsBy, Settled, Suspended, Flagged
<1>6. Caught(s)'
  <2>1. /\ Ahead(s) \in Seq(SpduSet) /\ Ahead(s) # <<>> /\ Ahead(s)' = Tail(Ahead(s))
    BY Ends DEF TakesOff
  <2>2. \A i \in 1..Len(Ahead(s)') : /\ i + 1 \in Place(s) /\ i + 1 > 1
                                     /\ Ahead(s)'[i] = Ahead(s)[i + 1]
    BY <2>1, BehindTail DEF Place
  <2>3. Without(Ahead(s)', {"RA"})
    BY <1>4, <2>2 DEF NoneAfter, Stirring, AnswerCode, Without
  <2>4. Without(Ahead(s)', PointCode)
    BY <1>1, <1>2, <1>3, <2>3 DEF NumKept, Silenced, Shorter
  <2> QED BY <2>4, NoneWithout DEF Caught
<1>7. /\ Calm(s)' /\ Calm(p)' /\ Restarted(s)' /\ Restarted(p)' /\ Caught(p)'
      /\ Silenced(s)' /\ Silenced(p)'
  BY <1>2, ReadRest
<1>8. Numbered(s)' /\ Numbered(p)'
  BY <1>5 DEF Numbered
<1> QED BY <1>1, <1>6, <1>7, <1>8 DEF Counted, NumKept

(* Both ends have started from the number of the answer.                   *)
LEMMA AdoptKeeps ==
    ASSUME TypeOK, TypeOK', Good, Counted, NEW s \in Side, sb'[Peer(s)] = sb[Peer(s)],
           NEW m \in SpduSet, TakesOff(s, m), Adopting(s, m)
    PROVE  Counted'
<1> DEFINE p == Peer(s)
<1>1. /\ p \in Side /\ p # s /\ Peer(p) = s /\ Side = {s, p}
      /\ NumKept(s) /\ NumKept(p) /\ TokenKept(s)
      /\ \A x \in Side : /\ sb[x].V_M \in Int
                         /\ From(Ahead(x), 1, PointCode) \in Nat
                         /\ From(Ahead(x), 1, PointCode) = 0 <=> NoneOf(x, PointCode)
  BY Ends DEF Counted, Good
<1>2. /\ sb'[s].V_M = m.ssn /\ m.code = "RA" /\ ~Flagged(s, "RS")'
      /\ Asked(s)' <=> Asked(s)
      /\ Flagged(s, "AI")' <=> Flagged(s, "AI")
      /\ Flagged(s, "AIA")' <=> Flagged(s, "AIA")
  BY DEF Adopting, SameFlags, Marks, Asked, Flagged
<1>3. /\ Shorter(Ahead(s), Ahead(s)', m) /\ 1 \in Place(s) /\ Ahead(s)[1] = m
      /\ Eased(Ahead(p), Ahead(p)')
      /\ ~NoneOf(s, {"RA"})
      /\ \A cs \in {PointCode, {"RA"}, {"RS"}} : NoneOf(p, cs)' <=> NoneOf(p, cs)
      /\ sb'[p].V_M = sb[p].V_M /\ sb'[p].owned = sb[p].owned
      /\ Suspended(p)' <=> Suspended(p)
  <2>1. {"RS"} \in SUBSET NumCode
    BY DEF NumCode
  <2> QED BY <1>2, <2>1, ListenView, SetsOfCodes
<1>4. /\ NoneOf(p, Stirring) /\ m.settings \in FinalSettings
      /\ NoneOf(p, PointCode)
      /\ sb'[s].owned = {t \in Tokens : m.settings[t] = s}
  <2>1. NoneOf(p, Stirring) /\ m.settings \in FinalSettings
    BY <1>1, <1>2, <1>3 DEF TokenKept, AnswerKept, AnswerCode
  <2>2. NoneOf(p, PointCode)
    BY <1>1, <1>3 DEF NumKept, Restarted
  <2> QED BY <2>1, <2>2 DEF Adopting
<1>5. NoneOf(p, {"RA"}) /\ NoneOf(p, {"RS"}) /\ ~Given(Ahead(p))
  BY <1>4 DEF NoneOf, Stirring, AskCode, AnswerCode, GiftCode, Given, Carries, Place
<1>6. /\ Sound(Ahead(s)', 0, sb[p].V_M)
      /\ m.ssn + From(Ahead(s)', 1, PointCode) = sb[p].V_M
      /\ Without(Ahead(s)', PointCode) \/ m.settings[Key] = p
      /\ ~Given(Ahead(p)')
      /\ From(Ahead(p)', 1, PointCode) = From(Ahead(p), 1, PointCode)
  BY <1>1, <1>2, <1>3, <1>5 DEF NumKept, Restarted, Shorter, Eased
<1>7. /\ From(Ahead(p), 1, PointCode) = 0 /\ m.ssn \in Int
      /\ From(Ahead(s)', 1, PointCode) \in Nat
      /\ NoneOf(s, PointCode)' => From(Ahead(s)', 1, PointCode) = 0
  <2>1. ASSUME NEW q \in Seq(SpduSet)
        PROVE  From(q, 1, PointCode) \in Nat
               /\ (Without(q, PointCode) => From(q, 1, PointCode) = 0)
    BY FromTyped DEF Without
  <2>2. m.ssn \in Int
    BY DEF SpduSet, SpduShape
  <2> QED BY <1>1, <1>4, <2>1, <2>2, AheadNext, NoneWithout
<1>8. Numbered(s)'
  <2>1. NoneOf(s, PointCode)' =>
           sb'[s].V_M = sb'[p].V_M + From(Ahead(p)', 1, PointCode)
    <3> HIDE DEF p
    <3> QED BY <1>1, <1>2, <1>3, <1>6, <1>7
  <2>2. Key \in sb'[s].owned => NoneOf(s, PointCode)'
    BY <1>1, <1>4, <1>6, NoneWithout
  <2>3. NoneOf(p, PointCode)'
    BY <1>3, <1>4
  <2> QED BY <1>1, <1>3, <1>6, <2>1, <2>2, <2>3 DEF Numbered
<1>9. Numbered(p)'
  <2>1. NoneOf(p, PointCode)'
    BY <1>3, <1>4
  <2>2. \A v : Sound(Ahead(p)', 0, v)
    BY <1>5, <2>1 DEF NoneOf, Place, Sound, Given, Eased
  <2>3. sb'[p].V_M = sb'[s].V_M + From(Ahead(s)', 1, PointCode)
    <3> HIDE DEF p
    <3> QED BY <1>1, <1>2, <1>3, <1>6, <1>7
  <2> QED BY <1>1, <1>6, <2>1, <2>2, <2>3 DEF Numbered
<1>10. Restarted(p)'
  <2>1. NoneOf(p, {"RA"})'
    BY <1>3, <1>5
  <2>2. \A v, P : Restarts(Ahead(p)', v, P)
    BY <2>1 DEF NoneOf, Place, Restarts
  <2> QED BY <1>1, <2>1, <2>2 DEF Restarted
<1>11. Silenced(p)'
  <2>1. Answered(Ahead(p)')
    BY <1>3, <1>5 DEF NoneOf, Place, Answered
  <2>2. Hushed(Ahead(p)')
    BY <1>1, <1>3 DEF NumKept, Silenced, Eased
  <2> QED BY <1>1, <2>1, <2>2 DEF Silenced
<1>12. Calm(s)' /\ Calm(p)' /\ Restarted(s)' /\ Caught(s)' /\ Caught(p)' /\ Silenced(s)'
  BY <1>2, ReadRest
<1> QED BY <1>1, <1>8, <1>9, <1>10, <1>11, <1>12 DEF Counted, NumKept

-----------------------------------------------------------------------------
(* The invariant.                                                          *)

LEMMA NumInit == Init => NumInv
<1> SUFFICES ASSUME Init, NEW s \in Side
             PROVE  NumKept(s)
  BY DEF NumInv
<1>1. PICK share \in [Tokens -> Side], isn \in {0, 1} :
        /\ sb = [x \in Side |-> newsblk({t \in Tokens : share[t] = x}, isn)]
        /\ net = [x \in Side |-> <<>>]
  BY DEF Init
<1>2. \A x \in Side : /\ sb[x].flags = {} /\ sb[x].spdu = <<>> /\ net[x] = <<>>
                      /\ sb[x].V_M = isn
  BY <1>1 DEF newsblk
<1>3. \A x \in Side : Ahead(x) = <<>> /\ Place(x) = {}
  <2> TAKE x \in Side
  <2>1. <<>> \o <<>> = <<>> /\ Len(<<>>) = 0 /\ 1..0 = {}
    OBVIOUS
  <2> QED BY <1>2, <2>1 DEF Ahead, Place
<1>4. From(<<>>, 1, PointCode) = 0 /\ Len(<<>>) = 0 /\ 1..0 = {}
  <2>1. <<>> \in Seq(SpduSet) /\ Len(<<>>) = 0 /\ 1..0 = {}
    OBVIOUS
  <2>2. ASSUME NEW q \in Seq(SpduSet), 1..Len(q) = {} PROVE From(q, 1, PointCode) = 0
    BY <2>2, FromTyped
  <2> QED BY <2>1, <2>2
<1>5. Peer(s) \in Side
  BY PeerSide
<1>6. \A x \in Side : Calm(x) /\ Caught(x)
  BY <1>2, <1>3 DEF Calm, Caught, NoneOf, Flagged
<1>7. Numbered(s)
  BY <1>2, <1>3, <1>4, <1>5 DEF Numbered, NoneOf, Sound, Given
<1>8. Restarted(s) /\ Silenced(s)
  BY <1>3, <1>4, <1>5 DEF Restarted, Silenced, NoneOf, Restarts, Hushed, Answered
<1> QED BY <1>6, <1>7, <1>8 DEF NumKept

(* Without activities the invariant is inductive, with those it rests on.  *)
LEMMA NumNext ==
    ASSUME ~Needs("ACTIVITY"), TypeOK, TypeOK', TokenInv, PrepInv, NumInv, [Next]_vars
    PROVE  NumInv'
<1> SUFFICES ASSUME BothLive'
             PROVE  Counted'
  BY DEF NumInv, Counted
<1>1. CASE UNCHANGED vars
  <2>1. BothLive /\ \A x \in Side : sb'[x] = sb[x] /\ Ahead(x)' = Ahead(x)
    BY <1>1 DEF vars, BothLive, Live, Ahead
  <2>2. Counted
    BY <2>1 DEF NumInv, Counted
  <2>3. "init" \in Side /\ Peer("init") \in Side
    BY DEF Side, Peer
  <2>4. Silent("init")
    BY <2>1, <2>3, FillsSame DEF Silent, Filled, SameBut, SameFlags
  <2> QED BY <2>1, <2>2, <2>3, <2>4, SilentKeeps
<1>2. CASE Next
  <2>1. BothLive /\ Good
    BY <1>2, LiveBefore DEF TokenInv, Good
  <2>2. Counted
    BY <2>1 DEF NumInv, Counted
  <2>3. PICK s \in Side : UserRequest(s) \/ UserResponse(s) \/ Read(s) \/ Timer(s)
    BY <1>2 DEF Next
  <2>4. sb'[Peer(s)] = sb[Peer(s)]
    BY <2>3, OwnBlock
  <2>5. NoneOf(s, ActCode)
    BY <2>2 DEF Counted, NumKept, Calm
  <2>6. \/ Silent(s)
        \/ \E m \in SpduSet : Utters(s, m)
        \/ \E m \in SpduSet : Listens(s, m)
    BY <2>1, <2>3, <2>5, RequestUtters, ResponseUtters, ReadListens
  <2>7. CASE Silent(s)
    BY <2>2, <2>4, <2>7, SilentKeeps
  <2>8. ASSUME NEW m \in SpduSet, Utters(s, m) PROVE Counted'
    <3>1. Ahead(s)' = Ahead(s) /\ Added(Peer(s), m)
      BY <2>8 DEF Utters
    <3>2. CASE Marking(s, m)
      BY <2>1, <2>2, <2>4, <3>1, <3>2, MarkKeeps
    <3>3. CASE Confirming(s, m) \/ Giving(s, m)
      BY <2>2, <2>4, <3>1, <3>3, SayKeeps
    <3>4. CASE Asking(s, m)
      BY <2>2, <2>4, <3>1, <3>4, AskKeeps
    <3>5. CASE Answering(s, m)
      BY <2>1, <2>2, <2>4, <3>1, <3>5, AnswerKeeps
    <3> QED BY <2>8, <3>2, <3>3, <3>4, <3>5 DEF Utters
  <2>9. ASSUME NEW m \in SpduSet, Listens(s, m) PROVE Counted'
    <3>1. TakesOff(s, m)
      BY <2>9 DEF Listens
    <3>2. CASE Skipping(s, m)
      BY <2>1, <2>2, <2>4, <3>1, <3>2, SkipKeeps
    <3>3. CASE Counting(s, m)
      BY <2>2, <2>4, <3>1, <3>3, CountKeeps
    <3>4. CASE Concluding(s, m) \/ Receiving(s, m)
      BY <2>2, <2>4, <3>1, <3>4, ConcludeKeeps
    <3>5. CASE Accepting(s, m)
      BY <2>1, <2>2, <2>4, <3>1, <3>5, AcceptKeeps
    <3>6. CASE Adopting(s, m)
      BY <2>1, <2>2, <2>4, <3>1, <3>6, AdoptKeeps
    <3> QED BY <2>9, <3>2, <3>3, <3>4, <3>5, <3>6 DEF Listens
  <2> QED BY <2>6, <2>7, <2>8, <2>9
<1> QED BY <1>1, <1>2

(* Outside a resynchronization nobody waits, and one queue has no points.  *)
LEMMA NumHolds == TypeOK /\ NumInv => SsnInStep
<1> SUFFICES ASSUME TypeOK, NumInv, BothLive, ~Resynchronizing
             PROVE  sb["init"].V_M + Count("init", {"MIP", "MAP"}) =
                    sb["resp"].V_M + Count("resp", {"MIP", "MAP"})
  BY DEF SsnInStep
<1>1. /\ "init" \in Side /\ "resp" \in Side
      /\ Peer("init") = "resp" /\ Peer("resp") = "init"
  BY DEF Side, Peer
<1>2. Settled
  BY DEF Settled, Suspended, Resynchronizing
<1>3. Numbered("init") /\ Numbered("resp")
  BY <1>1 DEF NumInv, NumKept
<1>4. \A x \in Side : /\ sb[x].V_M \in Int
                      /\ From(Ahead(x), 1, PointCode) \in Nat
                      /\ From(Ahead(x), 1, PointCode) = 0 <=> NoneOf(x, PointCode)
  BY <1>1, Ends
<1>5. \A x \in Side : Count(x, {"MIP", "MAP"}) = From(Ahead(x), 1, PointCode)
  <2> TAKE x \in Side
  <2>1. {i \in 1..Len(Ahead(x)) : Ahead(x)[i].code \in {"MIP", "MAP"}}
           = Since(Ahead(x), 1, PointCode)
    <3>1. \A i \in 1..Len(Ahead(x)) : i >= 1
      OBVIOUS
    <3> QED BY <3>1 DEF Since, PointCode
  <2> QED BY <2>1, Zenon DEF Count, From
<1>6. /\ NoneOf("init", PointCode) =>
            sb["init"].V_M = sb["resp"].V_M + From(Ahead("resp"), 1, PointCode)
      /\ NoneOf("resp", PointCode) =>
            sb["resp"].V_M = sb["init"].V_M + From(Ahead("init"), 1, PointCode)
      /\ NoneOf("init", PointCode) \/ NoneOf("resp", PointCode)
  BY <1>1, <1>2, <1>3 DEF Numbered
<1> QED BY <1>1, <1>4, <1>5, <1>6

(* Where no activities were negotiated, for every choice of the other      *)
(* functional units, of the transport, the bounds and the calls, both ends *)
(* count the same points whenever no resynchronization is open: V(M) of    *)
(* each is V(M) of the other and the points on their way.  So no major     *)
(* sync point is discarded for its number (RecvMAP, the test of V(M) in    *)
(* ssaprovider.c) and every MIP is counted once, whatever resynchroniza-   *)
(* tions crossed before and whatever their preparations discarded.         *)
THEOREM SsnAlwaysInStep ==
    ASSUME ~Needs("ACTIVITY")
    PROVE  Spec => []SsnInStep
<1>1. TypeOK /\ TokenInv /\ PrepInv /\ NumInv /\ [Next]_vars
        => TypeOK' /\ TokenInv' /\ PrepInv' /\ NumInv'
  <2> SUFFICES ASSUME TypeOK, TokenInv, PrepInv, NumInv, [Next]_vars
               PROVE  TypeOK' /\ TokenInv' /\ PrepInv' /\ NumInv'
    OBVIOUS
  <2>1. TypeOK' /\ TokenInv'
    BY TypeStep, TokenInvNext
  <2>2. PrepInv'
    BY <2>1, PrepKept
  <2> QED BY <2>1, <2>2, NumNext
<1>2. Init => TypeOK /\ TokenInv /\ PrepInv /\ NumInv
  BY TypeInit, TokenInvInit, PrepInit, NumInit
<1>3. TypeOK /\ NumInv => SsnInStep
  BY NumHolds
<1> QED BY <1>1, <1>2, <1>3, PTL DEF Spec

-----------------------------------------------------------------------------
(* Major sync points and their confirmations, where nothing disturbs them. *)

EndCode == PointCode \cup {"MAA", "RS", "RA"}

(* No point is behind a major one, which is waited for ...                 *)
Alone(q) == \A i, j \in 1..Len(q) : q[i].code = "MAP" /\ j > i => q[j].code \notin PointCode

(* ... and a confirmation comes with the number of a reader that counts v. *)
Agreeing(q, v) == \A i \in 1..Len(q) : q[i].code = "MAA" =>
    /\ q[i].ssn + 1 = v
    /\ \A j \in 1..Len(q) : j < i => q[j].code \notin PointCode

Majors(q)   == From(q, 1, {"MAP"})
Confirmations(q) == From(q, 1, {"MAA"})

(* Queues that are the same in this respect, ...                           *)
SameEnds(q, r) ==
    /\ Alone(q) => Alone(r)
    /\ \A v : Agreeing(q, v) => Agreeing(r, v)
    /\ \A cs \in SUBSET EndCode : Without(q, cs) <=> Without(r, cs)
    /\ Majors(r) = Majors(q) /\ Confirmations(r) = Confirmations(q)

LEMMA EndsFill ==
    ASSUME NEW q \in Seq(SpduSet), NEW r \in Seq(SpduSet), NEW g, Fills(q, r, g, EndCode)
    PROVE  SameEnds(q, r)
<1>1. /\ \A i \in 1..Len(q) : /\ g[i] \in 1..Len(r) /\ r[g[i]] = q[i]
                              /\ \A j \in 1..Len(q) : j > i => g[j] > g[i]
      /\ \A k \in 1..Len(r) : r[k].code \in EndCode => \E i \in 1..Len(q) : k = g[i]
  BY DEF Fills, Embedded
<1>2. \A i, j \in 1..Len(q) : j > i <=> g[j] > g[i]
  BY <1>1
<1>3. ASSUME Alone(q) PROVE Alone(r)
  <2> SUFFICES ASSUME NEW i \in 1..Len(r), NEW j \in 1..Len(r),
                      r[i].code = "MAP", j > i, r[j].code \in PointCode
               PROVE  FALSE
    BY DEF Alone
  <2>1. PICK a \in 1..Len(q), b \in 1..Len(q) : i = g[a] /\ j = g[b]
    BY <1>1 DEF EndCode, PointCode
  <2>2. q[a].code = "MAP" /\ b > a /\ q[b].code \in PointCode
    BY <1>1, <1>2, <2>1
  <2> QED BY <1>3, <2>2 DEF Alone
<1>4. ASSUME NEW v, Agreeing(q, v) PROVE Agreeing(r, v)
  <2> SUFFICES ASSUME NEW k \in 1..Len(r), r[k].code = "MAA"
               PROVE  /\ r[k].ssn + 1 = v
                      /\ \A j \in 1..Len(r) : j < k => r[j].code \notin PointCode
    BY DEF Agreeing
  <2>1. PICK i \in 1..Len(q) : k = g[i]
    BY <1>1 DEF EndCode
  <2>2. q[i].ssn + 1 = v /\ \A j \in 1..Len(q) : j < i => q[j].code \notin PointCode
    BY <1>1, <1>4, <2>1 DEF Agreeing
  <2>3. \A j \in 1..Len(q) : g[j] < g[i] => j < i
    BY <1>1, <1>2
  <2> QED BY <1>1, <2>1, <2>2, <2>3 DEF EndCode
<1>5. \A cs \in SUBSET EndCode : Without(q, cs) <=> Without(r, cs)
  BY <1>1 DEF Without
<1>6. Majors(r) = Majors(q) /\ Confirmations(r) = Confirmations(q)
  <2>1. {"MAP"} \subseteq EndCode /\ {"MAA"} \subseteq EndCode
    BY DEF EndCode, PointCode
  <2>2. \A ds : ds \subseteq EndCode => From(r, 1, ds) = From(q, 1, ds)
    BY FromFills
  <2> QED BY <2>1, <2>2, Zenon DEF Majors, Confirmations
<1> QED BY <1>3, <1>4, <1>5, <1>6 DEF SameEnds

(* ... that m has joined, ...                                              *)
MoreEnds(q, r, m) ==
    /\ Alone(q) /\ (m.code \notin PointCode \/ Without(q, {"MAP"})) => Alone(r)
    /\ \A v \in Int : /\ Agreeing(q, v)
                      /\ m.code = "MAA" => m.ssn + 1 = v /\ Without(q, PointCode)
                      => Agreeing(r, v)
    /\ \A cs \in SUBSET EndCode : m.code \notin cs => (Without(q, cs) <=> Without(r, cs))
    /\ Majors(r) = Majors(q) + One(m.code = "MAP")
    /\ Confirmations(r) = Confirmations(q) + One(m.code = "MAA")

LEMMA EndsAdd ==
    ASSUME NEW q \in Seq(SpduSet), NEW r \in Seq(SpduSet), NEW g, NEW m \in SpduSet,
           Adds(q, r, g, m, NumCode)
    PROVE  MoreEnds(q, r, m)
<1> DEFINE l == Len(r)
<1>1. /\ \A i \in 1..Len(q) : /\ g[i] \in 1..Len(r) /\ r[g[i]] = q[i] /\ g[i] < l
                              /\ \A j \in 1..Len(q) : j > i => g[j] > g[i]
      /\ \A k \in 1..Len(r) : r[k].code \in EndCode => k = l \/ \E i \in 1..Len(q) : k = g[i]
      /\ r[l] = m /\ l \in 1..Len(r)
  BY DEF Adds, Embedded, EndCode, NumCode
<1>2. \A i, j \in 1..Len(q) : j > i <=> g[j] > g[i]
  BY <1>1
<1>3. ASSUME Alone(q), m.code \notin PointCode \/ Without(q, {"MAP"}) PROVE Alone(r)
  <2> SUFFICES ASSUME NEW i \in 1..Len(r), NEW j \in 1..Len(r),
                      r[i].code = "MAP", j > i, r[j].code \in PointCode
               PROVE  FALSE
    BY DEF Alone
  <2>1. i # l
    BY <1>1
  <2>2. PICK a \in 1..Len(q) : i = g[a]
    BY <1>1, <2>1 DEF EndCode, PointCode
  <2>3. ~Without(q, {"MAP"})
    BY <1>1, <2>2 DEF Without
  <2>4. j # l
    BY <1>1, <1>3, <2>3
  <2>5. PICK b \in 1..Len(q) : j = g[b]
    BY <1>1, <2>4 DEF EndCode
  <2> QED BY <1>1, <1>2, <1>3, <2>2, <2>5 DEF Alone
<1>4. ASSUME NEW v \in Int, Agreeing(q, v),
             m.code = "MAA" => m.ssn + 1 = v /\ Without(q, PointCode)
      PROVE  Agreeing(r, v)
  <2> SUFFICES ASSUME NEW k \in 1..Len(r), r[k].code = "MAA"
               PROVE  /\ r[k].ssn + 1 = v
                      /\ \A j \in 1..Len(r) : j < k => r[j].code \notin PointCode
    BY DEF Agreeing
  <2>1. CASE k = l
    <3>1. m.ssn + 1 = v /\ Without(q, PointCode)
      BY <1>1, <1>4, <2>1
    <3>2. ASSUME NEW j \in 1..Len(r), j < k, r[j].code \in PointCode PROVE FALSE
      BY <1>1, <2>1, <3>1, <3>2 DEF Without, EndCode
    <3> QED BY <1>1, <2>1, <3>1, <3>2
  <2>2. CASE k # l
    <3>1. PICK i \in 1..Len(q) : k = g[i]
      BY <1>1, <2>2 DEF EndCode
    <3>2. q[i].ssn + 1 = v /\ \A j \in 1..Len(q) : j < i => q[j].code \notin PointCode
      BY <1>1, <1>4, <3>1 DEF Agreeing
    <3>3. ASSUME NEW j \in 1..Len(r), j < k, r[j].code \in PointCode PROVE FALSE
      <4>1. j # l
        BY <1>1, <3>1, <3>3
      <4>2. PICK b \in 1..Len(q) : j = g[b]
        BY <1>1, <3>3, <4>1 DEF EndCode
      <4>3. b < i
        BY <1>1, <1>2, <3>1, <3>3, <4>2
      <4> QED BY <1>1, <3>2, <3>3, <4>2, <4>3
    <3> QED BY <1>1, <3>1, <3>2, <3>3
  <2> QED BY <2>1, <2>2
<1>5. \A cs \in SUBSET EndCode : m.code \notin cs => (Without(q, cs) <=> Without(r, cs))
  BY <1>1 DEF Without
<1>6. ASSUME NEW ds, ds \subseteq NumCode
      PROVE  From(r, 1, ds) = From(q, 1, ds) + One(m.code \in ds)
  <2>1. From(q, 1, ds) \in Nat
    BY FromTyped
  <2>4. /\ m.code \in ds => Raised(q, r, g, ds)
        /\ m.code \notin ds => Level(q, r, g, ds)
    BY <1>6, FromAdds
  <2>2. m.code \in ds => From(r, 1, ds) = From(q, 1, ds) + 1
    BY <2>4, Zenon DEF Raised
  <2>3. m.code \notin ds => From(r, 1, ds) = From(q, 1, ds)
    BY <2>4, Zenon DEF Level
  <2> QED BY <2>1, <2>2, <2>3 DEF One
<1>7. /\ Majors(r) = Majors(q) + One(m.code = "MAP")
      /\ Confirmations(r) = Confirmations(q) + One(m.code = "MAA")
  <2>1. {"MAP"} \subseteq NumCode /\ {"MAA"} \subseteq NumCode
    BY DEF NumCode, PointCode
  <2>2. /\ One(m.code \in {"MAP"}) = One(m.code = "MAP")
        /\ One(m.code \in {"MAA"}) = One(m.code = "MAA")
    BY DEF One
  <2> QED BY <1>6, <2>1, <2>2 DEF Majors, Confirmations
<1> QED BY <1>3, <1>4, <1>5, <1>7 DEF MoreEnds

(* ... and whose first, m, is taken.                                       *)
FewerEnds(q, r, m) ==
    /\ Alone(q) => Alone(r) /\ (m.code = "MAP" => Without(r, PointCode))
    /\ \A v : Agreeing(q, v) =>
          /\ Agreeing(r, v)
          /\ m.code = "MAA" => m.ssn + 1 = v
          /\ m.code \in PointCode => Without(q, {"MAA"})
    /\ Majors(q) = Majors(r) + One(m.code = "MAP")
    /\ Confirmations(q) = Confirmations(r) + One(m.code = "MAA")

LEMMA EndsTaken ==
    ASSUME NEW q \in Seq(SpduSet), q # <<>>
    PROVE  FewerEnds(q, Tail(q), q[1])
<1> DEFINE t == Tail(q)
           m == q[1]
<1>1. /\ t \in Seq(SpduSet) /\ 1 \in 1..Len(q)
      /\ \A i \in 1..Len(t) : i + 1 \in 1..Len(q) /\ t[i] = q[i + 1] /\ i + 1 > 1
      /\ \A j \in 1..Len(q) : j > 1 => j - 1 \in 1..Len(t) /\ t[j - 1] = q[j]
  BY BehindTail
<1>2. \A ds : From(q, 1, ds) = From(t, 1, ds) + One(m.code \in ds)
  BY FromTail
<1> HIDE DEF t
<1>3. ASSUME Alone(q) PROVE Alone(t) /\ (m.code = "MAP" => Without(t, PointCode))
  <2>1. \A i, j \in 1..Len(t) : j > i => j + 1 > i + 1
    OBVIOUS
  <2> QED BY <1>1, <1>3, <2>1 DEF Alone, Without
<1>4. ASSUME NEW v, Agreeing(q, v)
      PROVE  /\ Agreeing(t, v)
             /\ m.code = "MAA" => m.ssn + 1 = v
             /\ m.code \in PointCode => Without(q, {"MAA"})
  <2>1. \A i, j \in 1..Len(t) : j < i => j + 1 < i + 1
    OBVIOUS
  <2>2. \A i \in 1..Len(q) : i = 1 \/ 1 < i
    OBVIOUS
  <2>3. m.code \in PointCode => m.code # "MAA"
    BY DEF PointCode
  <2>4. \A i \in 1..Len(q) : q[i].code = "MAA" =>
           /\ q[i].ssn + 1 = v
           /\ \A j \in 1..Len(q) : j < i => q[j].code \notin PointCode
    BY <1>4 DEF Agreeing
  <2>5. Agreeing(t, v)
    <3> SUFFICES ASSUME NEW i \in 1..Len(t), t[i].code = "MAA"
                 PROVE  /\ t[i].ssn + 1 = v
                        /\ \A j \in 1..Len(t) : j < i => t[j].code \notin PointCode
      BY DEF Agreeing
    <3> QED BY <1>1, <2>1, <2>4
  <2>6. m.code = "MAA" => m.ssn + 1 = v
    BY <1>1, <2>4
  <2>7. m.code \in PointCode => Without(q, {"MAA"})
    BY <1>1, <2>2, <2>3, <2>4 DEF Without
  <2> QED BY <2>5, <2>6, <2>7
<1>5. /\ One(m.code \in {"MAP"}) = One(m.code = "MAP")
      /\ One(m.code \in {"MAA"}) = One(m.code = "MAA")
  BY DEF One
<1> QED BY <1>2, <1>3, <1>4, <1>5 DEF FewerEnds, Majors, Confirmations, t

(* Nobody resynchronizes.                                                  *)
Apart(s) == NoneOf(s, {"RS", "RA"}) /\ ~Flagged(s, "RS") /\ ~Flagged(s, "RA")

(* A major sync that is not confirmed is in exactly one place, ...         *)
Paired(s) == One(Flagged(s, "MAP")) =
    Majors(Ahead(Peer(s))) + One(Flagged(Peer(s), "MAA")) + Confirmations(Ahead(s))

(* ... and from where it is read until it is confirmed there are no points *)
(* on their way.                                                           *)
Ended(s) ==
    /\ Alone(Ahead(s)) /\ Agreeing(Ahead(s), sb[s].V_M)
    /\ NoneOf(s, {"MAA"}) \/ NoneOf(Peer(s), PointCode)
    /\ Flagged(s, "MAA") => NoneOf(s, PointCode) /\ NoneOf(Peer(s), PointCode)

Matched == \A x \in Side : Apart(x) /\ Paired(x) /\ Ended(x)
PairInv == BothLive => Matched

LEMMA EndCounts ==
    ASSUME TypeOK, TypeOK', NEW x \in Side
    PROVE  /\ Majors(Ahead(x)) \in Nat /\ Confirmations(Ahead(x)) \in Nat
           /\ Majors(Ahead(x)) = 0 <=> NoneOf(x, {"MAP"})
           /\ Confirmations(Ahead(x)) = 0 <=> NoneOf(x, {"MAA"})
           /\ Majors(Ahead(x)') \in Nat /\ Confirmations(Ahead(x)') \in Nat
           /\ sb[x].V_M \in Int
<1>1. ASSUME NEW q \in Seq(SpduSet)
      PROVE  /\ Majors(q) \in Nat /\ Confirmations(q) \in Nat
             /\ Majors(q) = 0 <=> Without(q, {"MAP"})
             /\ Confirmations(q) = 0 <=> Without(q, {"MAA"})
  <2>1. \A j \in 1..Len(q) : j >= 1
    OBVIOUS
  <2> QED BY <2>1, FromTyped DEF Majors, Confirmations, Without
<1>2. Ahead(x) \in Seq(SpduSet) /\ Ahead(x)' \in Seq(SpduSet) /\ sb[x].V_M \in Int
  BY AheadNext, Ends
<1> QED BY <1>1, <1>2, NoneWithout

(* Where neither a point nor a confirmation is sent or read.               *)
LEMMA PairStays ==
    ASSUME TypeOK, TypeOK', Matched, NEW s \in Side, sb'[Peer(s)] = sb[Peer(s)],
           \A x \in Side : SameEnds(Ahead(x), Ahead(x)'),
           sb'[s].V_M = sb[s].V_M, SameFlags(s, {"RS", "RA", "MAP", "MAA"})
    PROVE  Matched'
<1>1. Side = {s, Peer(s)} /\ \A x \in Side : Peer(x) \in Side
  BY Ends
<1>2. \A x \in Side : /\ sb'[x].V_M = sb[x].V_M
                      /\ \A f \in {"RS", "RA", "MAP", "MAA"} : Flagged(x, f)' <=> Flagged(x, f)
  BY <1>1 DEF SameFlags, Flagged
<1>3. \A x \in Side : \A cs \in SUBSET EndCode : NoneOf(x, cs)' <=> NoneOf(x, cs)
  BY NoneWithout DEF SameEnds
<1>4. /\ {"RS", "RA"} \in SUBSET EndCode /\ {"MAA"} \in SUBSET EndCode
      /\ PointCode \in SUBSET EndCode
  BY DEF EndCode
<1> SUFFICES ASSUME NEW x \in Side PROVE Apart(x)' /\ Paired(x)' /\ Ended(x)'
  BY DEF Matched
<1>5. Apart(x) /\ Paired(x) /\ Ended(x) /\ Peer(x) \in Side
  BY <1>1 DEF Matched
<1>6. Apart(x)'
  BY <1>2, <1>3, <1>4, <1>5 DEF Apart
<1>7. Paired(x)'
  <2>1. /\ One(Flagged(x, "MAP")') = One(Flagged(x, "MAP"))
        /\ One(Flagged(Peer(x), "MAA")') = One(Flagged(Peer(x), "MAA"))
    BY <1>2, <1>5 DEF One
  <2>2. /\ Majors(Ahead(Peer(x))') = Majors(Ahead(Peer(x)))
        /\ Confirmations(Ahead(x)') = Confirmations(Ahead(x))
    BY <1>5 DEF SameEnds
  <2>3. Paired(x)' <=> One(Flagged(x, "MAP")') =
          Majors(Ahead(Peer(x))') + One(Flagged(Peer(x), "MAA")') + Confirmations(Ahead(x)')
    BY DEF Paired
  <2> QED BY <1>5, <2>1, <2>2, <2>3 DEF Paired
<1>8. Ended(x)'
  <2>1. Alone(Ahead(x)') /\ Agreeing(Ahead(x)', sb'[x].V_M)
    BY <1>2, <1>5 DEF Ended, SameEnds
  <2> QED BY <1>2, <1>3, <1>4, <1>5, <2>1 DEF Ended
<1> QED BY <1>6, <1>7, <1>8

(* Who sends a point waits for no confirmation and owes none.              *)
LEMMA PairMarks ==
    ASSUME TypeOK, TypeOK', Counted, Matched, NEW s \in Side, sb'[Peer(s)] = sb[Peer(s)],
           NEW m \in SpduSet, Ahead(s)' = Ahead(s), Added(Peer(s), m), Marking(s, m)
    PROVE  Matched'
<1> DEFINE p == Peer(s)
           a == Ahead(s)
           b == Ahead(p)
           c == Ahead(p)'
<1>1. /\ p \in Side /\ p # s /\ Peer(p) = s /\ Side = {s, p}
  BY Ends
<1>2. /\ m.code \in PointCode /\ m.code # "MAA" /\ m.code \notin {"RS", "RA"}
      /\ Key \in sb[s].owned
      /\ ~Flagged(s, "MAP") /\ ~Flagged(s, "MAA")
      /\ Flagged(s, "MAP")' <=> m.code = "MAP"
      /\ ~Flagged(s, "MAA")'
      /\ ~Flagged(s, "RS")' /\ ~Flagged(s, "RA")'
      /\ \A f \in {"MAP", "MAA"} : Flagged(p, f)' <=> Flagged(p, f)
      /\ sb'[p].V_M = sb[p].V_M
      /\ ~Flagged(p, "RS")' /\ ~Flagged(p, "RA")'
  BY <1>1 DEF Marking, SameFlags, Marks, Flagged, PointCode, Suspended, Asked, Matched, Apart
<1>3. MoreEnds(b, c, m)
  <2>1. PICK g : Adds(b, c, g, m, NumCode)
    BY DEF Added
  <2>2. b \in Seq(SpduSet) /\ c \in Seq(SpduSet)
    BY <1>1, Ends, AheadNext
  <2> HIDE DEF b, c
  <2> QED BY <2>1, <2>2, EndsAdd
<1>4. /\ \A cs : NoneOf(s, cs)' <=> NoneOf(s, cs)
      /\ NoneOf(p, {"RS", "RA"})' <=> NoneOf(p, {"RS", "RA"})
      /\ NoneOf(p, {"MAA"})' <=> NoneOf(p, {"MAA"})
  <2>1. {"RS", "RA"} \in SUBSET EndCode /\ {"MAA"} \in SUBSET EndCode
    BY DEF EndCode
  <2>2. \A cs \in SUBSET EndCode : m.code \notin cs => (NoneOf(p, cs)' <=> NoneOf(p, cs))
    BY <1>3, NoneWithout DEF MoreEnds
  <2> QED BY <1>2, <2>1, <2>2, NoneWithout
<1>5. Apart(s) /\ Apart(p) /\ Paired(s) /\ Paired(p) /\ Ended(s) /\ Ended(p)
  BY <1>1 DEF Matched
<1>6. /\ Majors(a) \in Nat /\ Majors(b) \in Nat
      /\ Confirmations(a) \in Nat /\ Confirmations(b) \in Nat
      /\ Majors(c) \in Nat /\ Confirmations(c) \in Nat
      /\ Majors(b) = 0 <=> NoneOf(p, {"MAP"})
      /\ Confirmations(a) = 0 <=> NoneOf(s, {"MAA"})
  BY <1>1, EndCounts
<1>7. Majors(b) = 0 /\ ~Flagged(p, "MAA") /\ Confirmations(a) = 0
  <2>1. One(Flagged(s, "MAP")) = 0
    BY <1>2 DEF One
  <2>2. One(Flagged(p, "MAA")) \in Nat /\ (Flagged(p, "MAA") => One(Flagged(p, "MAA")) = 1)
    BY DEF One
  <2>3. One(Flagged(s, "MAP")) = Majors(b) + One(Flagged(p, "MAA")) + Confirmations(a)
    BY <1>5 DEF Paired
  <2> HIDE DEF a, b, c, p
  <2> QED BY <1>6, <2>1, <2>2, <2>3
<1>8. NoneOf(s, PointCode)
  <2>1. Settled
    BY <1>1, <1>5 DEF Settled, Suspended, Apart, Flagged, Counted, NumKept, Calm
  <2> QED BY <1>2, <2>1 DEF Counted, NumKept, Numbered
<1>9. Apart(s)' /\ Apart(p)'
  BY <1>2, <1>4, <1>5 DEF Apart
<1>10. Paired(s)'
  <2>1. /\ Majors(c) = Majors(b) + One(m.code = "MAP")
        /\ One(Flagged(s, "MAP")') = One(m.code = "MAP")
        /\ One(Flagged(p, "MAA")') = 0 /\ Confirmations(Ahead(s)') = Confirmations(a)
    BY <1>2, <1>3, <1>7 DEF MoreEnds, One
  <2>2. One(m.code = "MAP") \in Nat
    BY DEF One
  <2>3. Paired(s)' <=> One(Flagged(s, "MAP")') =
          Majors(c) + One(Flagged(p, "MAA")') + Confirmations(Ahead(s)')
    BY DEF Paired
  <2> HIDE DEF a, b, c, p
  <2> QED BY <1>6, <1>7, <2>1, <2>2, <2>3
<1>11. Paired(p)'
  <2>1. /\ Confirmations(c) = Confirmations(b) + One(m.code = "MAA")
        /\ One(Flagged(s, "MAA")') = One(Flagged(s, "MAA"))
        /\ One(Flagged(p, "MAP")') = One(Flagged(p, "MAP"))
        /\ One(m.code = "MAA") = 0
    BY <1>2, <1>3 DEF MoreEnds, One
  <2>2. Paired(p)' <=> One(Flagged(p, "MAP")') =
          Majors(Ahead(s)') + One(Flagged(s, "MAA")') + Confirmations(c)
    BY <1>1 DEF Paired
  <2>3. One(Flagged(p, "MAP")) = Majors(a) + One(Flagged(s, "MAA")) + Confirmations(b)
    BY <1>1, <1>5 DEF Paired
  <2>4. Confirmations(c) = Confirmations(b)
    BY <1>6, <2>1
  <2> QED BY <2>1, <2>2, <2>3, <2>4
<1>12. Ended(s)'
  <2>1. \A v : Agreeing(a, v)
    <3>1. NoneOf(s, {"MAA"})
      BY <1>6, <1>7
    <3> QED BY <3>1 DEF NoneOf, Place, Agreeing
  <2>2. NoneOf(s, {"MAA"})' /\ Alone(a)
    BY <1>4, <1>5, <1>6, <1>7 DEF Ended
  <2> QED BY <1>2, <2>1, <2>2 DEF Ended
<1>13. Ended(p)'
  <2>1. Alone(c)
    <3>1. Without(b, {"MAP"})
      BY <1>6, <1>7, NoneWithout
    <3> QED BY <1>3, <1>5, <3>1 DEF Ended, MoreEnds
  <2>2. Agreeing(c, sb[p].V_M)
    BY <1>1, <1>2, <1>3, <1>5, Ends DEF Ended, MoreEnds
  <2>3. NoneOf(Peer(p), PointCode)'
    BY <1>1, <1>4, <1>8
  <2> QED BY <1>2, <1>7, <2>1, <2>2, <2>3 DEF Ended
<1> QED BY <1>1, <1>9, <1>10, <1>11, <1>12, <1>13 DEF Matched

(* What a step does to the two queues in this respect.                     *)
LEMMA EndsFilled ==
    ASSUME TypeOK, TypeOK', NEW x \in Side, Filled(x)
    PROVE  SameEnds(Ahead(x), Ahead(x)')
<1> DEFINE q == Ahead(x)
           r == Ahead(x)'
<1>1. PICK g : Fills(q, r, g, NumCode)
  BY DEF Filled
<1>2. q \in Seq(SpduSet) /\ r \in Seq(SpduSet)
  BY Ends, AheadNext
<1>3. EndCode \subseteq NumCode
  BY DEF EndCode, NumCode
<1> HIDE DEF q, r
<1>4. Fills(q, r, g, EndCode)
  BY <1>1, <1>3, FillsLess
<1>5. SameEnds(q, r)
  BY <1>2, <1>4, EndsFill
<1> QED BY <1>5 DEF q, r

LEMMA EndsAdded ==
    ASSUME TypeOK, TypeOK', NEW x \in Side, NEW m \in SpduSet, Added(x, m)
    PROVE  /\ MoreEnds(Ahead(x), Ahead(x)', m)
           /\ m.code \notin EndCode => SameEnds(Ahead(x), Ahead(x)')
<1> DEFINE q == Ahead(x)
           r == Ahead(x)'
<1>1. PICK g : Adds(q, r, g, m, NumCode)
  BY DEF Added
<1>2. q \in Seq(SpduSet) /\ r \in Seq(SpduSet)
  BY Ends, AheadNext
<1>3. EndCode \subseteq NumCode
  BY DEF EndCode, NumCode
<1> HIDE DEF q, r
<1>4. ASSUME m.code \notin EndCode PROVE SameEnds(q, r)
  <2>1. Fills(q, r, g, EndCode)
    BY <1>1, <1>3, <1>4, FillsLess
  <2> QED BY <1>2, <2>1, EndsFill
<1>5. MoreEnds(q, r, m)
  BY <1>1, <1>2, EndsAdd
<1> QED BY <1>4, <1>5 DEF q, r

LEMMA EndsListen ==
    ASSUME TypeOK, TypeOK', NEW s \in Side, sb'[Peer(s)] = sb[Peer(s)],
           NEW m \in SpduSet, TakesOff(s, m)
    PROVE  /\ FewerEnds(Ahead(s), Ahead(s)', m)
           /\ SameEnds(Ahead(Peer(s)), Ahead(Peer(s))')
           /\ m.code \notin EndCode => SameEnds(Ahead(s), Ahead(s)')
<1> DEFINE q == Ahead(s)
           r == Ahead(s)'
<1>1. Peer(s) \in Side /\ Filled(Peer(s)) /\ q # <<>> /\ q[1] = m /\ r = Tail(q)
  BY Ends DEF TakesOff
<1>2. q \in Seq(SpduSet) /\ r \in Seq(SpduSet)
  BY Ends, AheadNext
<1>3. SameEnds(Ahead(Peer(s)), Ahead(Peer(s))')
  BY <1>1, EndsFilled
<1>4. Shorter(q, r, m)
  BY ListenView
<1>5. /\ Majors(q) \in Nat /\ Confirmations(q) \in Nat
      /\ Majors(r) \in Nat /\ Confirmations(r) \in Nat
  BY EndCounts
<1> HIDE DEF q, r
<1>6. FewerEnds(q, r, m)
  BY <1>1, <1>2, EndsTaken
<1>7. ASSUME m.code \notin EndCode PROVE SameEnds(q, r)
  <2>1. m.code # "MAP" /\ m.code # "MAA"
    BY <1>7 DEF EndCode, PointCode
  <2>2. One(m.code = "MAP") = 0 /\ One(m.code = "MAA") = 0
    BY <2>1 DEF One
  <2>3. Majors(r) = Majors(q) /\ Confirmations(r) = Confirmations(q)
    BY <1>5, <1>6, <2>2 DEF FewerEnds
  <2>4. \A cs \in SUBSET EndCode : Without(q, cs) <=> Without(r, cs)
    BY <1>4, <1>7 DEF Shorter
  <2> QED BY <1>6, <2>3, <2>4 DEF SameEnds, FewerEnds
<1> QED BY <1>3, <1>6, <1>7 DEF q, r

(* So much for most of the steps.                                          *)
LEMMA PairSilent ==
    ASSUME TypeOK, TypeOK', Matched, NEW s \in Side, sb'[Peer(s)] = sb[Peer(s)], Silent(s)
    PROVE  Matched'
<1>1. Side = {s, Peer(s)} /\ Peer(s) \in Side
  BY Ends
<1>2. SameEnds(Ahead(s), Ahead(s)') /\ SameEnds(Ahead(Peer(s)), Ahead(Peer(s))')
  BY <1>1, EndsFilled DEF Silent, SameEnds
<1>3. sb'[s].V_M = sb[s].V_M /\ SameFlags(s, {"RS", "RA", "MAP", "MAA"})
  BY DEF Silent, SameBut, SameFlags, Marks
<1> QED BY <1>1, <1>2, <1>3, PairStays

LEMMA PairGives ==
    ASSUME TypeOK, TypeOK', Matched, NEW s \in Side, sb'[Peer(s)] = sb[Peer(s)],
           NEW m \in SpduSet, Ahead(s)' = Ahead(s), Added(Peer(s), m), Giving(s, m)
    PROVE  Matched'
<1>1. Side = {s, Peer(s)} /\ Peer(s) \in Side
  BY Ends
<1>2. m.code \notin EndCode
  BY DEF Giving, EndCode, PointCode
<1>3. SameEnds(Ahead(s), Ahead(s)') /\ SameEnds(Ahead(Peer(s)), Ahead(Peer(s))')
  BY <1>1, <1>2, EndsAdded DEF SameEnds
<1>4. sb'[s].V_M = sb[s].V_M /\ SameFlags(s, {"RS", "RA", "MAP", "MAA"})
  BY DEF Giving, SameFlags, Marks
<1> QED BY <1>1, <1>3, <1>4, PairStays

LEMMA PairSettled == ASSUME Counted, Matched PROVE Settled
BY DEF Counted, NumKept, Calm, Matched, Apart, Settled, Suspended, Flagged

(* Nothing that matters is discarded, since it is not resynchronized.      *)
LEMMA PairSkips ==
    ASSUME TypeOK, TypeOK', PrepInv, Good, BothLive, Counted, Matched,
           NEW s \in Side, Unmarked(s), sb'[Peer(s)] = sb[Peer(s)],
           NEW m \in SpduSet, TakesOff(s, m), Skipping(s, m) \/ Receiving(s, m)
    PROVE  Matched'
<1>1. /\ Side = {s, Peer(s)} /\ Peer(s) \in Side
      /\ Apart(s) /\ Agreeing(Ahead(s), sb[s].V_M)
  BY Ends DEF Matched, Ended
<1>2. m.code \notin EndCode
  <2>1. m.code \notin {"RS", "RA"}
    BY <1>1, ListenView DEF Apart
  <2>2. CASE Receiving(s, m)
    BY <2>2 DEF Receiving, EndCode, PointCode
  <2>3. CASE Skipping(s, m)
    <3>1. ~Preparing(s) /\ m.code \notin PointCode
      BY <2>3, PairSettled, SkipsNoPoint
    <3>2. ASSUME m.code = "MAA" PROVE FALSE
      <4>1. m.ssn + 1 = sb[s].V_M
        BY <1>1, <3>2, EndsListen DEF FewerEnds
      <4>2. ~Flagged(s, "ED")
        BY DEF Unmarked, Flagged
      <4> QED BY <2>3, <3>1, <3>2, <4>1, <4>2 DEF Skipping
    <3> QED BY <2>1, <3>1, <3>2 DEF EndCode
  <2> QED BY <2>2, <2>3
<1>3. SameEnds(Ahead(s), Ahead(s)') /\ SameEnds(Ahead(Peer(s)), Ahead(Peer(s))')
  BY <1>2, EndsListen
<1>4. sb'[s].V_M = sb[s].V_M /\ SameFlags(s, {"RS", "RA", "MAP", "MAA"})
  BY DEF Skipping, Receiving, SameBut, SameFlags, Marks
<1> QED BY <1>1, <1>3, <1>4, PairStays

(* Who confirms a major point has read all points, and counts what its     *)
(* peer counts.                                                            *)
LEMMA PairConfirms ==
    ASSUME TypeOK, TypeOK', Counted, Matched, NEW s \in Side, sb'[Peer(s)] = sb[Peer(s)],
           NEW m \in SpduSet, Ahead(s)' = Ahead(s), Added(Peer(s), m), Confirming(s, m)
    PROVE  Matched'
<1> DEFINE p == Peer(s)
           a == Ahead(s)
           b == Ahead(p)
           c == Ahead(p)'
<1>1. p \in Side /\ p # s /\ Peer(p) = s /\ Side = {s, p}
  BY Ends
<1>2. /\ m.code = "MAA" /\ m.code \notin PointCode /\ m.code \notin {"RS", "RA"}
      /\ m.ssn = sb[s].V_M - 1 /\ sb'[s].V_M = sb[s].V_M /\ sb'[p].V_M = sb[p].V_M
      /\ Flagged(s, "MAA") /\ ~Flagged(s, "MAA")'
      /\ Flagged(s, "MAP")' <=> Flagged(s, "MAP")
      /\ ~Flagged(s, "RS")' /\ ~Flagged(s, "RA")'
      /\ \A f \in {"MAP", "MAA"} : Flagged(p, f)' <=> Flagged(p, f)
      /\ ~Flagged(p, "RS")' /\ ~Flagged(p, "RA")'
  BY <1>1 DEF Confirming, SameBut, SameFlags, Marks, Flagged, PointCode, Matched, Apart
<1>3. MoreEnds(b, c, m)
  BY <1>1, EndsAdded
<1>4. /\ \A cs : NoneOf(s, cs)' <=> NoneOf(s, cs)
      /\ NoneOf(p, {"RS", "RA"})' <=> NoneOf(p, {"RS", "RA"})
      /\ NoneOf(p, PointCode)' <=> NoneOf(p, PointCode)
  <2>1. {"RS", "RA"} \in SUBSET EndCode /\ PointCode \in SUBSET EndCode
    BY DEF EndCode
  <2>2. \A cs \in SUBSET EndCode : m.code \notin cs => (NoneOf(p, cs)' <=> NoneOf(p, cs))
    BY <1>3, NoneWithout DEF MoreEnds
  <2> QED BY <1>2, <2>1, <2>2, NoneWithout
<1>5. /\ Apart(s) /\ Apart(p) /\ Paired(s) /\ Paired(p) /\ Ended(s) /\ Ended(p)
      /\ NoneOf(s, PointCode) /\ NoneOf(p, PointCode)
  BY <1>1, <1>2 DEF Matched, Ended
<1>6. sb[p].V_M = sb[s].V_M /\ sb[s].V_M \in Int
  <2>1. /\ From(a, 1, PointCode) = 0 /\ sb[s].V_M \in Int
    BY <1>5, Ends
  <2>2. sb[p].V_M = sb[s].V_M + From(a, 1, PointCode)
    BY <1>1, <1>5, PairSettled DEF Counted, NumKept, Numbered
  <2> QED BY <2>1, <2>2
<1>7. Apart(s)' /\ Apart(p)'
  BY <1>2, <1>4, <1>5 DEF Apart
<1>8. /\ Majors(c) = Majors(b) + One(m.code = "MAP")
      /\ Confirmations(c) = Confirmations(b) + One(m.code = "MAA")
      /\ One(m.code = "MAP") = 0 /\ One(m.code = "MAA") = 1
      /\ One(Flagged(s, "MAA")) = 1 /\ One(Flagged(s, "MAA")') = 0
      /\ One(Flagged(s, "MAP")') = One(Flagged(s, "MAP"))
      /\ One(Flagged(p, "MAP")') = One(Flagged(p, "MAP"))
      /\ One(Flagged(p, "MAA")') = One(Flagged(p, "MAA"))
  BY <1>2, <1>3 DEF MoreEnds, One
<1>9. /\ Majors(a) \in Nat /\ Majors(b) \in Nat
      /\ Confirmations(a) \in Nat /\ Confirmations(b) \in Nat
  BY <1>1, EndCounts
<1>10. Paired(s)'
  <2>1. Paired(s)' <=> One(Flagged(s, "MAP")') =
          Majors(c) + One(Flagged(p, "MAA")') + Confirmations(Ahead(s)')
    BY DEF Paired
  <2>2. One(Flagged(s, "MAP")) = Majors(b) + One(Flagged(p, "MAA")) + Confirmations(a)
    BY <1>5 DEF Paired
  <2>3. Majors(c) = Majors(b)
    BY <1>8, <1>9
  <2> QED BY <1>8, <2>1, <2>2, <2>3
<1>11. Paired(p)'
  <2>1. Paired(p)' <=> One(Flagged(p, "MAP")') =
          Majors(Ahead(s)') + One(Flagged(s, "MAA")') + Confirmations(c)
    BY <1>1 DEF Paired
  <2>2. One(Flagged(p, "MAP")) = Majors(a) + One(Flagged(s, "MAA")) + Confirmations(b)
    BY <1>1, <1>5 DEF Paired
  <2> HIDE DEF a, b, c, p
  <2>3. Majors(a) + 0 + Confirmations(c) = Majors(a) + 1 + Confirmations(b)
    BY <1>8, <1>9
  <2> QED BY <1>8, <2>1, <2>2, <2>3 DEF a
<1>12. Ended(s)'
  BY <1>1, <1>2, <1>4, <1>5 DEF Ended
<1>13. Ended(p)'
  <2>1. Alone(c)
    BY <1>2, <1>3, <1>5 DEF Ended, MoreEnds
  <2>2. Agreeing(c, sb[p].V_M)
    <3>1. sb[p].V_M \in Int /\ m.ssn + 1 = sb[p].V_M
      BY <1>2, <1>6
    <3>2. Agreeing(b, sb[p].V_M) /\ Without(b, PointCode)
      BY <1>5, NoneWithout DEF Ended
    <3> QED BY <1>3, <3>1, <3>2 DEF MoreEnds
  <2> QED BY <1>1, <1>2, <1>4, <1>5, <2>1, <2>2 DEF Ended
<1> QED BY <1>1, <1>7, <1>10, <1>11, <1>12, <1>13 DEF Matched

(* A point is counted, and a major one is owed a confirmation.             *)
LEMMA PairCounts ==
    ASSUME TypeOK, TypeOK', Counted, Matched, NEW s \in Side, Unmarked(s),
           sb'[Peer(s)] = sb[Peer(s)],
           NEW m \in SpduSet, TakesOff(s, m), Counting(s, m)
    PROVE  Matched'
<1> DEFINE p == Peer(s)
           a == Ahead(s)
           b == Ahead(p)
           c == Ahead(s)'
           d == Ahead(p)'
<1>1. p \in Side /\ p # s /\ Peer(p) = s /\ Side = {s, p}
  BY Ends
<1>2. /\ Apart(s) /\ Apart(p) /\ Paired(s) /\ Paired(p) /\ Ended(s) /\ Ended(p)
      /\ m.code \in PointCode /\ m.code # "MAA"
  BY <1>1 DEF Matched, Counting, PointCode
<1>3. /\ FewerEnds(a, c, m) /\ SameEnds(b, d)
      /\ ~NoneOf(s, PointCode)
      /\ \A cs : NoneOf(s, cs) => NoneOf(s, cs)'
      /\ \A cs \in {{"RS", "RA"}, {"MAA"}, PointCode} : NoneOf(p, cs)' <=> NoneOf(p, cs)
  <2>1. {{"RS", "RA"}, {"MAA"}, PointCode} \subseteq SUBSET NumCode
    BY DEF NumCode
  <2> QED BY <1>2, <2>1, EndsListen, ListenView
<1>4. NoneOf(p, PointCode) /\ NoneOf(s, {"MAA"}) /\ NoneOf(p, {"MAA"})
  <2>1. NoneOf(p, PointCode)
    BY <1>1, <1>3, PairSettled DEF Counted, NumKept, Numbered
  <2>2. NoneOf(s, {"MAA"})
    BY <1>2, <1>3, NoneWithout DEF Ended, FewerEnds
  <2> QED BY <1>1, <1>2, <1>3, <2>1, <2>2 DEF Ended
<1>5. /\ ~Flagged(s, "MAA") /\ ~Flagged(p, "MAA") /\ ~Flagged(p, "MAA")'
      /\ Flagged(s, "MAA")' <=> m.code = "MAP"
      /\ Flagged(s, "MAP")' <=> Flagged(s, "MAP")
      /\ Flagged(p, "MAP")' <=> Flagged(p, "MAP")
      /\ ~Flagged(s, "RS")' /\ ~Flagged(s, "RA")' /\ ~Flagged(p, "RS")' /\ ~Flagged(p, "RA")'
      /\ sb'[p].V_M = sb[p].V_M
  <2>1. ~Flagged(s, "MAA") /\ ~Flagged(p, "MAA")
    BY <1>1, <1>2, <1>3 DEF Ended
  <2>2. ~Flagged(s, "ED")
    BY DEF Unmarked, Flagged
  <2>3. Flagged(s, "MAA")' <=> m.code = "MAP"
    BY <1>2, <2>1, <2>2 DEF Counting, PointCode, SameFlags, Flagged
  <2>4. \A f \in {"MAP", "RS", "RA"} : Flagged(s, f)' <=> Flagged(s, f)
    BY DEF Counting, SameFlags, Marks, Flagged
  <2>5. \A f : Flagged(p, f)' <=> Flagged(p, f)
    BY DEF Flagged
  <2> QED BY <1>2, <2>1, <2>3, <2>4, <2>5 DEF Apart
<1>6. /\ Majors(a) = Majors(c) + One(m.code = "MAP")
      /\ Confirmations(a) = Confirmations(c) + One(m.code = "MAA")
      /\ One(m.code = "MAA") = 0 /\ One(m.code = "MAP") \in Nat
      /\ Majors(d) = Majors(b) /\ Confirmations(d) = Confirmations(b)
      /\ One(Flagged(s, "MAA")) = 0 /\ One(Flagged(s, "MAA")') = One(m.code = "MAP")
      /\ One(Flagged(s, "MAP")') = One(Flagged(s, "MAP"))
      /\ One(Flagged(p, "MAP")') = One(Flagged(p, "MAP"))
      /\ One(Flagged(p, "MAA")') = One(Flagged(p, "MAA"))
  BY <1>2, <1>3, <1>5 DEF FewerEnds, SameEnds, One
<1>7. /\ Majors(c) \in Nat /\ Confirmations(c) \in Nat /\ Confirmations(b) \in Nat
  BY <1>1, EndCounts
<1>8. Apart(s)' /\ Apart(p)'
  BY <1>2, <1>3, <1>5 DEF Apart
<1>9. Paired(s)'
  <2>1. Paired(s)' <=> One(Flagged(s, "MAP")') =
          Majors(d) + One(Flagged(p, "MAA")') + Confirmations(c)
    BY DEF Paired
  <2>2. One(Flagged(s, "MAP")) = Majors(b) + One(Flagged(p, "MAA")) + Confirmations(a)
    BY <1>2 DEF Paired
  <2>3. Confirmations(a) = Confirmations(c)
    BY <1>6, <1>7
  <2> QED BY <1>6, <2>1, <2>2, <2>3
<1>10. Paired(p)'
  <2>1. Paired(p)' <=> One(Flagged(p, "MAP")') =
          Majors(c) + One(Flagged(s, "MAA")') + Confirmations(d)
    BY <1>1 DEF Paired
  <2>2. One(Flagged(p, "MAP")) = Majors(a) + One(Flagged(s, "MAA")) + Confirmations(b)
    BY <1>1, <1>2 DEF Paired
  <2> HIDE DEF a, b, c, d, p
  <2>3. \A x, y, z \in Nat : (x + y) + 0 + z = x + y + z
    OBVIOUS
  <2>4. Majors(a) + One(Flagged(s, "MAA")) + Confirmations(b) =
           Majors(c) + One(m.code = "MAP") + Confirmations(b)
    BY <1>6, <1>7, <2>3
  <2> QED BY <1>6, <2>1, <2>2, <2>4
<1>11. Ended(s)'
  <2>1. Alone(c) /\ (m.code = "MAP" => NoneOf(s, PointCode)')
    BY <1>2, <1>3, NoneWithout DEF Ended, FewerEnds
  <2>2. NoneOf(s, {"MAA"})'
    BY <1>3, <1>4
  <2>3. \A v : Agreeing(c, v)
    BY <2>2 DEF NoneOf, Place, Agreeing
  <2> QED BY <1>3, <1>4, <1>5, <2>1, <2>2, <2>3 DEF Ended
<1>12. Ended(p)'
  <2>1. Alone(d) /\ Agreeing(d, sb'[p].V_M)
    BY <1>2, <1>3, <1>5 DEF Ended, SameEnds
  <2> QED BY <1>3, <1>4, <1>5, <2>1 DEF Ended
<1> QED BY <1>1, <1>8, <1>9, <1>10, <1>11, <1>12 DEF Matched

(* The confirmation arrives.                                               *)
LEMMA PairConcludes ==
    ASSUME TypeOK, TypeOK', Matched, NEW s \in Side, sb'[Peer(s)] = sb[Peer(s)],
           NEW m \in SpduSet, TakesOff(s, m), Concluding(s, m)
    PROVE  Matched'
<1> DEFINE p == Peer(s)
           a == Ahead(s)
           b == Ahead(p)
           c == Ahead(s)'
           d == Ahead(p)'
<1>1. p \in Side /\ p # s /\ Peer(p) = s /\ Side = {s, p}
  BY Ends
<1>2. /\ Apart(s) /\ Apart(p) /\ Paired(s) /\ Paired(p) /\ Ended(s) /\ Ended(p)
      /\ m.code = "MAA" /\ m.code \notin PointCode
  BY <1>1 DEF Matched, Concluding, PointCode
<1>3. /\ FewerEnds(a, c, m) /\ SameEnds(b, d)
      /\ ~NoneOf(s, {"MAA"})
      /\ \A cs : NoneOf(s, cs) => NoneOf(s, cs)'
      /\ \A cs \in {{"RS", "RA"}, {"MAA"}, PointCode} : NoneOf(p, cs)' <=> NoneOf(p, cs)
  <2>1. {{"RS", "RA"}, {"MAA"}, PointCode} \subseteq SUBSET NumCode
    BY DEF NumCode
  <2> QED BY <1>2, <2>1, EndsListen, ListenView
<1>4. /\ ~Flagged(s, "MAP")'
      /\ \A f \in {"MAA", "RS", "RA"} : Flagged(s, f)' <=> Flagged(s, f)
      /\ \A f : Flagged(p, f)' <=> Flagged(p, f)
      /\ sb'[p].V_M = sb[p].V_M /\ sb'[s].V_M = sb[s].V_M
  BY DEF Concluding, SameBut, SameFlags, Marks, Flagged
<1>5. /\ Majors(a) = Majors(c) + One(m.code = "MAP")
      /\ Confirmations(a) = Confirmations(c) + One(m.code = "MAA")
      /\ One(m.code = "MAP") = 0 /\ One(m.code = "MAA") = 1
      /\ Majors(d) = Majors(b) /\ Confirmations(d) = Confirmations(b)
      /\ One(Flagged(s, "MAP")') = 0 /\ One(Flagged(s, "MAP")) \in {0, 1}
      /\ One(Flagged(p, "MAA")) \in {0, 1}
      /\ One(Flagged(s, "MAA")') = One(Flagged(s, "MAA"))
      /\ One(Flagged(p, "MAP")') = One(Flagged(p, "MAP"))
      /\ One(Flagged(p, "MAA")') = One(Flagged(p, "MAA"))
  BY <1>2, <1>3, <1>4 DEF FewerEnds, SameEnds, One
<1>6. /\ Majors(c) \in Nat /\ Confirmations(c) \in Nat /\ Majors(b) \in Nat
  BY <1>1, EndCounts
<1>7. Apart(s)' /\ Apart(p)'
  BY <1>2, <1>3, <1>4 DEF Apart
<1>8. Paired(s)'
  <2>1. Paired(s)' <=> One(Flagged(s, "MAP")') =
          Majors(d) + One(Flagged(p, "MAA")') + Confirmations(c)
    BY DEF Paired
  <2>2. One(Flagged(s, "MAP")) = Majors(b) + One(Flagged(p, "MAA")) + Confirmations(a)
    BY <1>2 DEF Paired
  <2> HIDE DEF a, b, c, d, p
  <2>3. Majors(b) = 0 /\ One(Flagged(p, "MAA")) = 0 /\ Confirmations(c) = 0
    BY <1>5, <1>6, <2>2
  <2>4. 0 + 0 + 0 = 0
    OBVIOUS
  <2> QED BY <1>5, <2>1, <2>3, <2>4
<1>9. Paired(p)'
  <2>1. Paired(p)' <=> One(Flagged(p, "MAP")') =
          Majors(c) + One(Flagged(s, "MAA")') + Confirmations(d)
    BY <1>1 DEF Paired
  <2>2. One(Flagged(p, "MAP")) = Majors(a) + One(Flagged(s, "MAA")) + Confirmations(b)
    BY <1>1, <1>2 DEF Paired
  <2>3. Majors(c) = Majors(a)
    BY <1>5, <1>6
  <2> QED BY <1>5, <2>1, <2>2, <2>3
<1>10. Ended(s)'
  <2>1. Alone(c) /\ Agreeing(c, sb'[s].V_M)
    BY <1>2, <1>3, <1>4 DEF Ended, FewerEnds
  <2> QED BY <1>1, <1>2, <1>3, <1>4, <2>1 DEF Ended
<1>11. Ended(p)'
  <2>1. Alone(d) /\ Agreeing(d, sb'[p].V_M)
    BY <1>2, <1>3, <1>4 DEF Ended, SameEnds
  <2> QED BY <1>1, <1>2, <1>3, <1>4, <2>1 DEF Ended
<1> QED BY <1>1, <1>7, <1>8, <1>9, <1>10, <1>11 DEF Matched

LEMMA PairInit == Init => PairInv
<1> SUFFICES ASSUME Init, NEW s \in Side
             PROVE  Apart(s) /\ Paired(s) /\ Ended(s)
  BY DEF PairInv, Matched
<1>1. PICK share \in [Tokens -> Side], isn \in {0, 1} :
        /\ sb = [x \in Side |-> newsblk({t \in Tokens : share[t] = x}, isn)]
        /\ net = [x \in Side |-> <<>>]
  BY DEF Init
<1>2. \A x \in Side : sb[x].flags = {} /\ sb[x].spdu = <<>> /\ net[x] = <<>>
  BY <1>1 DEF newsblk
<1>3. \A x \in Side : Ahead(x) = <<>> /\ Place(x) = {}
  <2> TAKE x \in Side
  <2>1. <<>> \o <<>> = <<>> /\ Len(<<>>) = 0 /\ 1..0 = {}
    OBVIOUS
  <2> QED BY <1>2, <2>1 DEF Ahead, Place
<1>4. Peer(s) \in Side
  BY PeerSide
<1>5. \A x \in Side : \A f : ~Flagged(x, f)
  BY <1>2 DEF Flagged
<1>6. \A x \in Side : \A cs : NoneOf(x, cs)
  BY <1>3 DEF NoneOf
<1>7. Majors(<<>>) = 0 /\ Confirmations(<<>>) = 0
  <2>1. <<>> \in Seq(SpduSet) /\ Len(<<>>) = 0 /\ 1..0 = {}
    OBVIOUS
  <2>2. ASSUME NEW q \in Seq(SpduSet), 1..Len(q) = {}, NEW cs PROVE From(q, 1, cs) = 0
    BY <2>2, FromTyped
  <2> QED BY <2>1, <2>2 DEF Majors, Confirmations
<1>8. Alone(Ahead(s)) /\ Agreeing(Ahead(s), sb[s].V_M)
  BY <1>3 DEF Alone, Agreeing, Place
<1>9. Paired(s)
  <2>1. One(Flagged(s, "MAP")) = 0 /\ One(Flagged(Peer(s), "MAA")) = 0
    BY <1>4, <1>5 DEF One
  <2>2. 0 + 0 + 0 = 0
    OBVIOUS
  <2> QED BY <1>3, <1>4, <1>7, <2>1, <2>2 DEF Paired
<1> QED BY <1>5, <1>6, <1>8, <1>9 DEF Apart, Ended

(* Without resynchronization, and with no exception open, every step keeps *)
(* the confirmations due.                                                  *)
LEMMA PairNext ==
    ASSUME ~Needs("ACTIVITY"), ~Needs("RESYNC"), TypeOK, TypeOK', TokenInv, PrepInv, NumInv,
           UnlostInv, PairInv, [Next]_vars
    PROVE  PairInv'
<1> SUFFICES ASSUME BothLive'
             PROVE  Matched'
  BY DEF PairInv
<1>1. CASE UNCHANGED vars
  <2>1. BothLive /\ \A x \in Side : sb'[x] = sb[x] /\ Ahead(x)' = Ahead(x)
    BY <1>1 DEF vars, BothLive, Live, Ahead
  <2>2. Matched
    BY <2>1 DEF PairInv
  <2>3. "init" \in Side /\ Peer("init") \in Side
    BY DEF Side, Peer
  <2>4. Silent("init")
    BY <2>1, <2>3, FillsSame DEF Silent, Filled, SameBut, SameFlags
  <2> QED BY <2>1, <2>2, <2>3, <2>4, PairSilent
<1>2. CASE Next
  <2>1. BothLive /\ Good
    BY <1>2, LiveBefore DEF TokenInv, Good
  <2>2. Counted /\ Matched /\ \A x \in Side : Unmarked(x) /\ Apart(x)
    BY <2>1 DEF NumInv, Counted, PairInv, UnlostInv, Matched
  <2>3. PICK s \in Side : UserRequest(s) \/ UserResponse(s) \/ Read(s) \/ Timer(s)
    BY <1>2 DEF Next
  <2>4. sb'[Peer(s)] = sb[Peer(s)]
    BY <2>3, OwnBlock
  <2>5. NoneOf(s, ActCode)
    BY <2>2 DEF Counted, NumKept, Calm
  <2>6. \/ Silent(s)
        \/ \E m \in SpduSet : Utters(s, m)
        \/ \E m \in SpduSet : Listens(s, m)
    BY <2>1, <2>3, <2>5, RequestUtters, ResponseUtters, ReadListens
  <2>7. CASE Silent(s)
    BY <2>2, <2>4, <2>7, PairSilent
  <2>8. ASSUME NEW m \in SpduSet, Utters(s, m) PROVE Matched'
    <3>1. Ahead(s)' = Ahead(s) /\ Added(Peer(s), m)
      BY <2>8 DEF Utters
    <3>2. CASE Marking(s, m)
      BY <2>2, <2>4, <3>1, <3>2, PairMarks
    <3>3. CASE Confirming(s, m)
      BY <2>2, <2>4, <3>1, <3>3, PairConfirms
    <3>4. CASE Giving(s, m)
      BY <2>2, <2>4, <3>1, <3>4, PairGives
    <3>5. ~Asking(s, m) /\ ~Answering(s, m)
      BY <2>2 DEF Asking, Answering, Apart
    <3> QED BY <2>8, <3>2, <3>3, <3>4, <3>5 DEF Utters
  <2>9. ASSUME NEW m \in SpduSet, Listens(s, m) PROVE Matched'
    <3>1. TakesOff(s, m)
      BY <2>9 DEF Listens
    <3>2. CASE Skipping(s, m) \/ Receiving(s, m)
      BY <2>1, <2>2, <2>4, <3>1, <3>2, PairSkips
    <3>3. CASE Counting(s, m)
      BY <2>2, <2>4, <3>1, <3>3, PairCounts
    <3>4. CASE Concluding(s, m)
      BY <2>2, <2>4, <3>1, <3>4, PairConcludes
    <3>5. ~Accepting(s, m) /\ ~Adopting(s, m)
      BY <2>2, <2>4, <3>1, ListenView DEF Accepting, Adopting, Apart
    <3> QED BY <2>9, <3>2, <3>3, <3>4, <3>5 DEF Listens
  <2> QED BY <2>6, <2>7, <2>8, <2>9
<1> QED BY <1>1, <1>2

LEMMA PairHolds == PairInv => MajorSyncPaired
<1> SUFFICES ASSUME PairInv, BothLive, NEW s \in Side
             PROVE  One(Flagged(s, "MAP")) =
                       Count(Peer(s), {"MAP"}) + One(Flagged(Peer(s), "MAA")) + Count(s, {"MAA"})
  BY DEF MajorSyncPaired
<1>1. \A x, cs : Count(x, cs) = From(Ahead(x), 1, cs)
  <2> TAKE x, cs
  <2>1. {i \in 1..Len(Ahead(x)) : Ahead(x)[i].code \in cs} = Since(Ahead(x), 1, cs)
    <3>1. \A i \in 1..Len(Ahead(x)) : i >= 1
      OBVIOUS
    <3> QED BY <3>1 DEF Since
  <2> QED BY <2>1, Zenon DEF Count, From
<1>2. Paired(s)
  BY DEF PairInv, Matched
<1> QED BY <1>1, <1>2 DEF Paired, Majors, Confirmations

(* Between users that did not negotiate activities or resynchronization,   *)
(* and that report no exceptions or cannot, for every choice of the other  *)
(* functional units, of the transport, the bounds and the calls: whoever   *)
(* waits for the confirmation of a major sync point has it coming, from a  *)
(* peer that has yet to read the point, that was asked and has to answer,  *)
(* or whose answer is on its way; and no peer owes one that nobody waits   *)
(* for.  By the same invariant the MAA comes with the number RecvMAA       *)
(* (ssaprovider.c) compares it with.                                       *)
THEOREM MajorSyncAlwaysPaired ==
    ASSUME Plainly, ~Needs("ACTIVITY"), ~Needs("RESYNC")
    PROVE  Spec => []MajorSyncPaired
<1> DEFINE Inv == TypeOK /\ TokenInv /\ PrepInv /\ NumInv /\ UnlostInv /\ PairInv
<1>1. Inv /\ [Next]_vars => Inv'
  <2> SUFFICES ASSUME TypeOK, TokenInv, PrepInv, NumInv, UnlostInv, PairInv, [Next]_vars
               PROVE  TypeOK' /\ TokenInv' /\ PrepInv' /\ NumInv' /\ UnlostInv' /\ PairInv'
    OBVIOUS
  <2>1. TypeOK' /\ TokenInv'
    BY TypeStep, TokenInvNext
  <2>2. PrepInv'
    BY <2>1, PrepKept
  <2>3. NumInv'
    BY <2>1, NumNext
  <2>4. UnlostInv'
    BY <2>1, UnlostNext
  <2>5. PairInv'
    BY <2>1, PairNext
  <2> QED BY <2>1, <2>2, <2>3, <2>4, <2>5
<1>2. Init => Inv
  BY TypeInit, TokenInvInit, PrepInit, NumInit, UnlostInit, PairInit
<1>3. Inv => MajorSyncPaired
  BY PairHolds
<1> QED BY <1>1, <1>2, <1>3, PTL DEF Spec

=============================================================================
