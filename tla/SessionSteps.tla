---------------------------- MODULE SessionSteps ----------------------------
(***************************************************************************)
(* What a step of Session does, seen from the tokens and the release: the  *)
(* proofs about both split on the kinds of steps below, not on actions.    *)
(*                                                                         *)
(* A resynchronization, interrupt or discard is an ask; its acceptance an  *)
(* answer, which settles all tokens anew; a GT or GTC is a gift.           *)
(***************************************************************************)
EXTENDS SessionProofs

AskCode    == {"RS", "AI", "AD"}
AnswerCode == {"RA", "AIA"}
GiftCode   == {"GT", "GTC"}
Stirring   == AskCode \cup AnswerCode \cup GiftCode
Tracked    == Stirring \cup {"FN", "DN"}

(* What a resynchronization ranks as in a collision.                       *)
Op(m)    == IF m.code = "RS" THEN m.type ELSE IF m.code = "AI" THEN "intr" ELSE "disc"
OpSsn(m) == IF m.code = "RS" THEN m.ssn ELSE 0

Carries(m, t) == (m.code = "GT" /\ t \in m.tokens) \/ m.code = "GTC"

Place(s) == 1 .. Len(Ahead(s))
NoneOf(s, cs) == \A i \in Place(s) : Ahead(s)[i].code \notin cs
NoneAfter(s, i, cs) == \A j \in Place(s) : j > i => Ahead(s)[j].code \notin cs
NoneBefore(s, i, cs) == \A j \in Place(s) : j < i => Ahead(s)[j].code \notin cs

Asked(s) == Flagged(s, "RA") \/ Flagged(s, "AIA")

(* p waits for the answer to m.                                            *)
StandsBy(p, m) ==
    /\ IF m.code = "RS"
       THEN Flagged(p, "RS") /\ sb[p].rsn = m.ssn /\ sb[p].rsettings = m.settings
       ELSE Flagged(p, "AI")
    /\ sb[p].rs = Op(m)

(* s waits for the answer to an ask of its own that beats m.               *)
Beats(s, m) ==
    Suspended(s) /\ SDoCollideAux(s = "init", sb[s].rs, sb[s].rsn, Op(m), OpSsn(m))

(* s has asked for release: it waits for the answer, or lost patience.     *)
Committed(s) == sb[s].mode = "waiting" \/ Flagged(s, "RELEASE")

-----------------------------------------------------------------------------
(* Queues.  Of what is in r all that matters was in q, behind its first n  *)
(* SPDUs and in the same order: f says where.                              *)
Mapped(n, q, r, f) ==
    \A i \in 1..Len(r) : r[i].code \in Tracked =>
        /\ f[i] \in 1..Len(q) /\ f[i] > n /\ r[i] = q[f[i]]
        /\ \A j \in 1..Len(r) : j > i /\ r[j].code \in Tracked => f[j] > f[i]

Kept(n, q, r) == \E f : Mapped(n, q, r, f)

(* Two queues in a row.                                                    *)
LEMMA Concatenated ==
    ASSUME NEW p \in Seq(SpduSet), NEW q \in Seq(SpduSet)
    PROVE  /\ p \o q \in Seq(SpduSet)
           /\ Len(p) \in Nat /\ Len(q) \in Nat
           /\ Len(p \o q) = Len(p) + Len(q)
           /\ \A i \in 1..Len(p) : (p \o q)[i] = p[i]
           /\ \A i \in 1..Len(q) : (p \o q)[Len(p) + i] = q[i]
OBVIOUS

(* Nothing has to happen to a queue.                                       *)
LEMMA KeptSame == ASSUME NEW q \in Seq(SpduSet) PROVE Kept(0, q, q)
<1> DEFINE f == [i \in 1..Len(q) |-> i]
<1>1. Mapped(0, q, q, f)
  BY DEF Mapped
<1> QED BY <1>1, Zenon DEF Kept

(* What is kept behind the first SPDUs is kept.                            *)
LEMMA KeptLess ==
    ASSUME NEW q \in Seq(SpduSet), NEW r \in Seq(SpduSet), Kept(1, q, r)
    PROVE  Kept(0, q, r)
<1> PICK f : Mapped(1, q, r, f)
  BY DEF Kept
<1>1. Mapped(0, q, r, f)
  BY DEF Mapped
<1> QED BY <1>1, Zenon DEF Kept

(* The head is read, whatever it was put in front of.                      *)
LEMMA KeptBehindHead ==
    ASSUME NEW p \in Seq(SpduSet), NEW q \in Seq(SpduSet), p # <<>>
    PROVE  Kept(1, p \o q, q)
<1> DEFINE f == [i \in 1..Len(q) |-> i + Len(p)]
           a == p \o q
<1>1. Len(p) \in Nat /\ Len(p) > 0 /\ Len(q) \in Nat /\ Len(a) = Len(p) + Len(q)
  OBVIOUS
<1>2. \A i \in 1..Len(q) : q[i] = a[i + Len(p)]
  OBVIOUS
<1> HIDE DEF a
<1>3. Mapped(1, a, q, f)
  BY <1>1, <1>2 DEF Mapped
<1> QED BY <1>3, Zenon DEF Kept, a

(* A queue without its head.                                               *)
LEMMA KeptTail ==
    ASSUME NEW q \in Seq(SpduSet), q # <<>>
    PROVE  Kept(1, q, Tail(q))
<1> DEFINE f == [i \in 1..Len(Tail(q)) |-> i + 1]
<1>1. Len(Tail(q)) = Len(q) - 1 /\ Len(q) \in Nat
  OBVIOUS
<1>2. \A i \in 1..Len(Tail(q)) : Tail(q)[i] = q[i + 1]
  OBVIOUS
<1>3. Mapped(1, q, Tail(q), f)
  BY <1>1, <1>2 DEF Mapped
<1> QED BY <1>3, Zenon DEF Kept

(* What a side put back before the rest is still its head.                 *)
LEMMA KeptFirst ==
    ASSUME NEW p \in Seq(SpduSet), NEW q \in Seq(SpduSet), p # <<>>
    PROVE  Kept(0, p \o q, <<Head(p)>> \o q)
<1> DEFINE a == p \o q
           b == <<Head(p)>> \o q
           f == [i \in 1..Len(b) |-> IF i = 1 THEN 1 ELSE i - 1 + Len(p)]
<1>1. /\ Len(p) \in Nat /\ Len(p) > 0 /\ Len(q) \in Nat
      /\ Len(a) = Len(p) + Len(q) /\ Len(b) = 1 + Len(q)
  OBVIOUS
<1>2. /\ b[1] = a[1]
      /\ \A i \in 1..Len(b) : i # 1 => b[i] = a[i - 1 + Len(p)]
  OBVIOUS
<1> HIDE DEF a, b
<1>3. Mapped(0, a, b, f)
  BY <1>1, <1>2 DEF Mapped
<1> QED BY <1>3, Zenon DEF Kept, a, b

(* An SPDU that does not matter may join at the end ...                    *)
LEMMA KeptAppend ==
    ASSUME NEW q \in Seq(SpduSet), NEW r \in Seq(SpduSet), NEW m \in SpduSet,
           Kept(0, q, r), m.code \notin Tracked
    PROVE  Kept(0, q, Append(r, m))
<1> PICK f : Mapped(0, q, r, f)
  BY DEF Kept
<1> DEFINE a == Append(r, m)
<1>1. Len(a) = Len(r) + 1 /\ Len(r) \in Nat /\ a[Len(a)] = m
  OBVIOUS
<1>2. \A i \in 1..Len(a) : i # Len(a) => i \in 1..Len(r) /\ a[i] = r[i]
  OBVIOUS
<1> HIDE DEF a
<1>3. Mapped(0, q, a, f)
  BY <1>1, <1>2 DEF Mapped
<1> QED BY <1>3, Zenon DEF Kept, a

(* Where things are in a queue one SPDU was put into.                      *)
LEMMA Inserted ==
    ASSUME NEW q \in Seq(SpduSet), NEW n \in 0..Len(q), NEW m \in SpduSet
    PROVE  /\ Len(InsertAfter(q, n, m)) = Len(q) + 1
           /\ \A i \in 1..n : InsertAfter(q, n, m)[i] = q[i]
           /\ InsertAfter(q, n, m)[n + 1] = m
           /\ \A i \in 1..Len(q) + 1 : i > n + 1 => InsertAfter(q, n, m)[i] = q[i - 1]
<1> DEFINE a == InsertAfter(q, n, m)
           x == SubSeq(q, 1, n)
           y == SubSeq(q, n + 1, Len(q))
<1>1. /\ x \in Seq(SpduSet) /\ Len(x) = n /\ n \in Nat /\ Len(q) \in Nat
      /\ \A i \in 1..n : x[i] = q[i]
  OBVIOUS
<1>2. /\ y \in Seq(SpduSet) /\ Len(y) = Len(q) - n
      /\ \A i \in 1..Len(q) - n : y[i] = q[i + n]
  OBVIOUS
<1>3. a = x \o <<m>> \o y
  BY DEF InsertAfter
<1> HIDE DEF x, y
<1>4. /\ Len(a) = Len(q) + 1
      /\ \A i \in 1..n : a[i] = x[i]
      /\ a[n + 1] = m
      /\ \A i \in 1..Len(a) : i > n + 1 => a[i] = y[i - 1 - n]
  <2> HIDE DEF a
  <2>1. <<m>> \in Seq(SpduSet) /\ Len(<<m>>) = 1 /\ <<m>>[1] = m
    OBVIOUS
  <2> DEFINE z == x \o <<m>>
  <2>2. z \in Seq(SpduSet) /\ Len(z) = n + 1 /\ (\A i \in 1..n : z[i] = x[i]) /\ z[n + 1] = m
    BY <1>1, <2>1
  <2>3. a = z \o y
    BY <1>3
  <2> HIDE DEF z
  <2>4. /\ Len(a) = n + 1 + Len(y)
        /\ \A i \in 1..n + 1 : a[i] = z[i]
        /\ \A i \in 1..Len(y) : a[n + 1 + i] = y[i]
    <3>1. /\ Len(z \o y) = Len(z) + Len(y)
          /\ \A i \in 1..Len(z) : (z \o y)[i] = z[i]
          /\ \A i \in 1..Len(y) : (z \o y)[Len(z) + i] = y[i]
      BY <1>2, <2>2, Concatenated, Zenon
    <3> QED BY <2>2, <2>3, <3>1, Zenon
  <2>5. \A i \in 1..n : i \in 1..n + 1
    BY <1>1
  <2>6. ASSUME NEW i \in 1..Len(a), i > n + 1
        PROVE  a[i] = y[i - 1 - n]
    <3>1. i - 1 - n \in 1..Len(y) /\ n + 1 + (i - 1 - n) = i
      BY <1>1, <1>2, <2>4, <2>6
    <3> QED BY <2>4, <3>1
  <2>7. n + 1 \in 1..n + 1 /\ n + 1 + Len(y) = Len(q) + 1
    BY <1>1, <1>2
  <2>8. Len(a) = Len(q) + 1
    BY <2>4, <2>7
  <2>9. \A i \in 1..n : a[i] = x[i]
    BY <2>2, <2>4, <2>5
  <2>10. a[n + 1] = m
    BY <2>2, <2>4, <2>7
  <2> QED BY <2>6, <2>8, <2>9, <2>10
<1> HIDE DEF a
<1>5. ASSUME NEW i \in 1..Len(q) + 1, i > n + 1
      PROVE  a[i] = q[i - 1]
  <2>1. i - 1 - n \in 1..Len(q) - n /\ i - 1 - n + n = i - 1
    BY <1>1, <1>5
  <2>2. a[i] = y[i - 1 - n] /\ y[i - 1 - n] = q[i - 1 - n + n]
    BY <1>1, <1>2, <1>4, <1>5, <2>1
  <2> QED BY <2>1, <2>2
<1>6. \A i \in 1..n : a[i] = q[i]
  BY <1>1, <1>4
<1> QED BY <1>4, <1>5, <1>6 DEF a

(* ... or overtake.                                                        *)
LEMMA KeptInsert ==
    ASSUME NEW q \in Seq(SpduSet), NEW n \in 0..Len(q), NEW m \in SpduSet,
           m.code \notin Tracked
    PROVE  Kept(0, q, InsertAfter(q, n, m))
<1> DEFINE a == InsertAfter(q, n, m)
           f == [i \in 1..Len(a) |-> IF i <= n THEN i ELSE i - 1]
<1>1. n \in Nat /\ Len(q) \in Nat /\ n <= Len(q)
  OBVIOUS
<1>4. /\ Len(a) = Len(q) + 1
      /\ \A i \in 1..n : a[i] = q[i]
      /\ a[n + 1] = m
      /\ \A i \in 1..Len(a) : i > n + 1 => a[i] = q[i - 1]
  BY Inserted
<1> HIDE DEF a
<1>5. ASSUME NEW i \in 1..Len(a), a[i].code \in Tracked
      PROVE  f[i] \in 1..Len(q) /\ a[i] = q[f[i]] /\ i # n + 1
  <2>1. CASE i <= n
    BY <1>1, <1>4, <2>1
  <2>2. CASE i = n + 1
    BY <1>4, <1>5, <2>2
  <2>3. CASE i > n + 1
    <3>1. i - 1 \in 1..Len(q)
      BY <1>1, <1>4, <2>3
    <3> QED BY <1>1, <1>4, <2>3, <3>1
  <2> QED BY <1>1, <2>1, <2>2, <2>3
<1>6. ASSUME NEW i \in 1..Len(a), NEW j \in 1..Len(a), j > i, j # n + 1
      PROVE  f[j] > f[i]
  BY <1>1, <1>4, <1>6
<1>7. \A i \in 1..Len(a) : f[i] \in Int
  BY <1>1
<1> HIDE DEF a, f
<1>8. Mapped(0, q, a, f)
  BY <1>1, <1>5, <1>6, <1>7 DEF Mapped
<1> QED BY <1>8, Zenon DEF Kept, a

(* What is put back before a queue does not disturb it.                    *)
LEMMA KeptBehind ==
    ASSUME NEW p \in Seq(SpduSet), NEW q \in Seq(SpduSet), NEW r \in Seq(SpduSet),
           Kept(0, q, r)
    PROVE  Kept(0, p \o q, p \o r)
<1> PICK f : Mapped(0, q, r, f)
  BY DEF Kept
<1> DEFINE n == Len(p)
           a == p \o q
           b == p \o r
           g == [i \in 1..Len(b) |-> IF i <= n THEN i ELSE f[i - n] + n]
<1>1. /\ n \in Nat /\ Len(q) \in Nat /\ Len(r) \in Nat
      /\ Len(a) = n + Len(q) /\ Len(b) = n + Len(r)
  OBVIOUS
<1>2. \A i \in 1..Len(b) : IF i <= n THEN b[i] = p[i] ELSE i - n \in 1..Len(r) /\ b[i] = r[i - n]
  OBVIOUS
<1>3. \A i \in 1..n : i \in 1..Len(a) /\ a[i] = p[i]
  OBVIOUS
<1>4. \A i \in 1..Len(q) : i + n \in 1..Len(a) /\ a[i + n] = q[i]
  OBVIOUS
<1> HIDE DEF n, a, b
<1>5. ASSUME NEW i \in 1..Len(b), b[i].code \in Tracked
      PROVE  g[i] \in 1..Len(a) /\ b[i] = a[g[i]] /\ (i > n => g[i] > n)
  <2>1. CASE i <= n
    BY <1>1, <1>2, <1>3, <2>1
  <2>2. CASE i > n
    <3>1. i - n \in 1..Len(r) /\ b[i] = r[i - n]
      BY <1>1, <1>2, <2>2
    <3>2. f[i - n] \in 1..Len(q) /\ r[i - n] = q[f[i - n]]
      BY <1>5, <3>1 DEF Mapped
    <3>3. g[i] = f[i - n] + n
      BY <1>1, <2>2
    <3> QED BY <1>1, <1>4, <2>2, <3>1, <3>2, <3>3
  <2> QED BY <1>1, <2>1, <2>2
<1>6. ASSUME NEW i \in 1..Len(b), NEW j \in 1..Len(b), j > i,
             b[i].code \in Tracked, b[j].code \in Tracked
      PROVE  g[j] > g[i]
  <2>1. CASE i > n
    <3>1. i - n \in 1..Len(r) /\ j - n \in 1..Len(r) /\ b[i] = r[i - n] /\ b[j] = r[j - n]
            /\ j - n > i - n
      BY <1>1, <1>2, <1>6, <2>1
    <3>2. f[j - n] > f[i - n] /\ f[i - n] \in 1..Len(q) /\ f[j - n] \in 1..Len(q)
      BY <1>6, <3>1 DEF Mapped
    <3>3. g[i] = f[i - n] + n /\ g[j] = f[j - n] + n
      BY <1>1, <1>6, <2>1
    <3> QED BY <1>1, <3>2, <3>3
  <2>2. CASE i <= n
    BY <1>1, <1>5, <1>6, <2>2
  <2> QED BY <1>1, <2>1, <2>2
<1>7. Mapped(0, a, b, g)
  <2> HIDE DEF g
  <2> QED BY <1>1, <1>5, <1>6 DEF Mapped
<1> QED BY <1>7, Zenon DEF Kept, a, b

-----------------------------------------------------------------------------
(* Sending and reading, seen from the queues.                              *)

(* m comes last in what x has to read.                                     *)
Joins(x, m) == \E q \in Seq(SpduSet) : Kept(0, Ahead(x), q) /\ Ahead(x)' = Append(q, m)

(* s reads m.                                                              *)
ReadsOff(s, m) ==
    Ahead(s) # <<>> /\ m = Ahead(s)[1] /\ Kept(1, Ahead(s), Ahead(s)')

(* What is ahead of a side is a queue.                                     *)
LEMMA AheadTyped ==
    ASSUME TypeOK
    PROVE  \A x \in Side : /\ Ahead(x) \in Seq(SpduSet)
                           /\ sb[x].spdu \in Seq(SpduSet) /\ net[x] \in Seq(SpduSet)
<1> TAKE x \in Side
<1>1. sb[x].spdu \in Seq(SpduSet) /\ net[x] \in Seq(SpduSet)
  BY BlockTyped DEF TypeOK
<1> QED BY <1>1, Concatenated DEF Ahead

(* A freed block is not live any more.                                     *)
LEMMA LiveOpen == ASSUME NEW x \in Side, Live(x) PROVE ~Closed(sb[x])
BY DEF Live, Closed

(* The transport may put a TSDU anywhere: the others stay in order.        *)
LEMMA KeptQueued ==
    ASSUME NEW q \in Seq(SpduSet), NEW m \in SpduSet, m.code \notin Tracked,
           NEW r \in Queued(q, m)
    PROVE  r \in Seq(SpduSet) /\ Kept(0, q, r)
<1>1. r \in Seq(SpduSet)
  BY QueuedTyped
<1>2. CASE m.xpd
  <2>1. PICK i \in 0..Len(q) : r = InsertAfter(q, i, m)
    BY <1>2 DEF Queued, ExpeditedSlots
  <2> QED BY <1>1, <2>1, KeptInsert
<1>3. CASE ~m.xpd
  <2>1. r = Append(q, m)
    BY <1>3 DEF Queued
  <2> QED BY <1>1, <2>1, KeptSame, KeptAppend
<1> QED BY <1>2, <1>3

(* What is written comes last, behind its preparation.                     *)
LEMMA WrittenLast ==
    ASSUME NEW q \in Seq(SpduSet), NEW m \in SpduSet, NEW r \in Written(q, m)
    PROVE  \E k \in Seq(SpduSet) : Kept(0, q, k) /\ r = Append(k, m)
<1>1. CASE Expd /\ Preparation(m.code) # "none"
  <2> DEFINE x == Prepare(Preparation(m.code))
  <2>1. PICK k \in Queued(q, x) : r = Append(k, m)
    BY <1>1 DEF Written
  <2>2. x \in SpduSet
    <3>1. Preparation(m.code) \in PrType
      BY <1>1 DEF Preparation, PrType
    <3> QED BY <3>1, MessagesTyped
  <2>3. x.code \notin Tracked
    BY DEF Prepare, Spdu, Tracked, Stirring, AskCode, AnswerCode, GiftCode
  <2> HIDE DEF x
  <2>4. k \in Seq(SpduSet) /\ Kept(0, q, k)
    BY <2>2, <2>3, KeptQueued
  <2> QED BY <2>1, <2>4
<1>2. CASE ~(Expd /\ Preparation(m.code) # "none")
  <2>1. r = Append(q, m)
    BY <1>2 DEF Written
  <2> QED BY <2>1, KeptSame
<1> QED BY <1>1, <1>2

(* An SPDU that does not matter, last or not, is not noticed.              *)
LEMMA JoinsUnseen ==
    ASSUME TypeOK, NEW x \in Side, NEW m \in SpduSet, m.code \notin Tracked, Joins(x, m)
    PROVE  Kept(0, Ahead(x), Ahead(x)')
<1>1. PICK q \in Seq(SpduSet) : Kept(0, Ahead(x), q) /\ Ahead(x)' = Append(q, m)
  BY DEF Joins
<1>2. Ahead(x) \in Seq(SpduSet)
  BY AheadTyped
<1> QED BY <1>1, <1>2, KeptAppend

(* One SPDU more on its way to p, whose block does not change.             *)
LEMMA JoinsNet ==
    ASSUME TypeOK, NEW p \in Side, sb'[p].spdu = sb[p].spdu,
           NEW k \in Seq(SpduSet), Kept(0, net[p], k),
           NEW m \in SpduSet, net'[p] = Append(k, m)
    PROVE  Joins(p, m)
<1> DEFINE h == sb[p].spdu
<1>1. h \in Seq(SpduSet) /\ net[p] \in Seq(SpduSet)
  BY AheadTyped
<1>2. Ahead(p) = h \o net[p] /\ Ahead(p)' = h \o Append(k, m)
  BY DEF Ahead
<1> HIDE DEF h
<1>3. h \o Append(k, m) = Append(h \o k, m) /\ h \o k \in Seq(SpduSet)
  BY <1>1
<1>4. Kept(0, h \o net[p], h \o k)
  BY <1>1, KeptBehind
<1> QED BY <1>2, <1>3, <1>4 DEF Joins

(* spkt2sd and SWriteRequestAux change what is ahead of the peer only.     *)
LEMMA SentAhead ==
    ASSUME TypeOK, BothLive, NEW s \in Side, NEW m \in SpduSet,
           sb'[s].spdu = sb[s].spdu, sb'[Peer(s)].spdu = sb[Peer(s)].spdu,
           spkt2sd(s, m) \/ SWriteRequestAux(s, m)
    PROVE  /\ Ahead(s)' = Ahead(s)
           /\ m.code \notin Tracked => Kept(0, Ahead(Peer(s)), Ahead(Peer(s))')
           /\ SWriteRequestAux(s, m) \/ ~m.xpd => Joins(Peer(s), m)
<1> DEFINE p == Peer(s)
<1>1. p \in Side /\ p # s /\ net[p] \in Seq(SpduSet) /\ sb[p].spdu \in Seq(SpduSet)
  BY PeerSide, AheadTyped DEF Peer, Side
<1>2. ~Closed(sb[p])
  BY <1>1, LiveOpen DEF BothLive
<1> HIDE DEF p
<1>3. Ahead(s)' = Ahead(s)
  <2>1. net'[s] = net[s]
    BY <1>1 DEF spkt2sd, SWriteRequestAux, p, TypeOK
  <2> QED BY <2>1 DEF Ahead
<1>4. ASSUME SWriteRequestAux(s, m) PROVE Joins(p, m)
  <2>1. PICK q \in Written(net[p], m) : net' = [net EXCEPT ![p] = Arriving(p, q)]
    BY <1>4 DEF SWriteRequestAux, p
  <2>2. net'[p] = q
    BY <1>1, <1>2, <2>1 DEF Arriving, TypeOK
  <2>3. PICK k \in Seq(SpduSet) : Kept(0, net[p], k) /\ q = Append(k, m)
    BY <1>1, WrittenLast
  <2> QED BY <1>1, <2>2, <2>3, JoinsNet DEF p
<1>5. ASSUME spkt2sd(s, m), ~m.xpd PROVE Joins(p, m)
  <2>1. net' = [net EXCEPT ![p] = Arriving(p, Append(net[p], m))]
    BY <1>5 DEF spkt2sd, Queued, p
  <2>2. net'[p] = Append(net[p], m)
    BY <1>1, <1>2, <2>1 DEF Arriving, TypeOK
  <2> QED BY <1>1, <2>2, KeptSame, JoinsNet DEF p
<1>6. ASSUME spkt2sd(s, m), m.code \notin Tracked
      PROVE  Kept(0, Ahead(p), Ahead(p)')
  <2>1. PICK q \in Queued(net[p], m) : net' = [net EXCEPT ![p] = Arriving(p, q)]
    BY <1>6 DEF spkt2sd, p
  <2>2. net'[p] = q
    BY <1>1, <1>2, <2>1 DEF Arriving, TypeOK
  <2>3. q \in Seq(SpduSet) /\ Kept(0, net[p], q)
    BY <1>1, <1>6, KeptQueued
  <2>4. Ahead(p) = sb[p].spdu \o net[p] /\ Ahead(p)' = sb[p].spdu \o q
    BY <2>2 DEF Ahead, p
  <2> QED BY <1>1, <2>3, <2>4, KeptBehind
<1>7. ASSUME SWriteRequestAux(s, m), m.code \notin Tracked
      PROVE  Kept(0, Ahead(p), Ahead(p)')
  BY <1>1, <1>4, <1>7, JoinsUnseen
<1> QED BY <1>3, <1>4, <1>5, <1>6, <1>7 DEF p

(* What a side reads next is the first of what is ahead of it.             *)
LEMMA HeadRead ==
    ASSUME TypeOK, NEW s \in Side, Readable(s), Incoming(s).code # "EX"
    PROVE  Ahead(s) # <<>> /\ Incoming(s) = Ahead(s)[1]
<1> DEFINE h == sb[s].spdu
           n == net[s]
<1>1. h \in Seq(SpduSet) /\ n \in Seq(SpduSet) /\ ~XsduReady(sb[s])
  BY AheadTyped DEF Incoming, Spdu
<1>2. CASE h = <<>>
  <2>1. n # <<>> /\ Incoming(s) = Head(n)
    BY <1>1, <1>2 DEF FromNet, Readable, Incoming
  <2>2. h \o n = n /\ Head(n) = n[1]
    BY <1>1, <1>2, <2>1
  <2> QED BY <2>1, <2>2, Zenon DEF Ahead
<1>3. CASE h # <<>>
  <2>1. Incoming(s) = Head(h)
    BY <1>1, <1>3 DEF Incoming
  <2>2. Len(h) \in Nat /\ Len(h) > 0 /\ 1 \in 1..Len(h) /\ Head(h) = h[1]
    BY <1>1, <1>3
  <2>3. /\ Len(h \o n) = Len(h) + Len(n) /\ (h \o n)[1] = h[1] /\ Len(n) \in Nat
    BY <1>1, <2>2, Concatenated
  <2>4. h \o n # <<>>
    <3> DEFINE a == h \o n
               k == Len(h)
               z == Len(n)
    <3>1. Len(a) = k + z /\ k \in Nat /\ z \in Nat /\ k > 0
      BY <2>2, <2>3, Zenon
    <3> SUFFICES a # <<>>
      OBVIOUS
    <3> HIDE DEF a, k, z
    <3> QED BY <3>1
  <2> QED BY <2>1, <2>2, <2>3, <2>4, Zenon DEF Ahead
<1> QED BY <1>2, <1>3

(* What sb2spkt takes comes off the front, unless it is the saved XSDU.    *)
LEMMA Took ==
    ASSUME TypeOK, NEW s \in Side, Readable(s),
           sb'[s].spdu = sb2spkt(sb[s]).spdu, net'[s] = Rest(s)
    PROVE  /\ Kept(0, Ahead(s), Ahead(s)')
           /\ Incoming(s).code # "EX" => ReadsOff(s, Incoming(s))
<1> DEFINE h == sb[s].spdu
           n == net[s]
<1>1. h \in Seq(SpduSet) /\ n \in Seq(SpduSet) /\ sb[s] \in Ssapblk
  BY AheadTyped DEF TypeOK
<1>2. CASE XsduReady(sb[s])
  <2>1. net'[s] = n /\ sb'[s].spdu = h
    BY <1>1, <1>2 DEF Rest, FromNet, sb2spkt, Ssapblk
  <2>2. Ahead(s)' = Ahead(s) /\ Ahead(s) \in Seq(SpduSet)
    BY <2>1, AheadTyped DEF Ahead
  <2>3. Incoming(s).code = "EX"
    BY <1>2 DEF Incoming, Spdu
  <2> QED BY <2>2, <2>3, KeptSame
<1>3. CASE ~XsduReady(sb[s]) /\ h = <<>>
  <2>1. n # <<>> /\ net'[s] = Tail(n) /\ Incoming(s) = Head(n)
    BY <1>3 DEF Rest, FromNet, Readable, Incoming
  <2>2. sb'[s].spdu = <<>>
    BY <1>1, <1>3 DEF sb2spkt, Ssapblk
  <2>3. Ahead(s) = n /\ Ahead(s)' = Tail(n)
    <3>1. Ahead(s) = h \o n /\ Ahead(s)' = <<>> \o Tail(n)
      BY <2>1, <2>2 DEF Ahead
    <3>2. \A z \in Seq(SpduSet) : <<>> \o z = z
      OBVIOUS
    <3>3. Tail(n) \in Seq(SpduSet)
      BY <1>1, <2>1
    <3> QED BY <1>1, <1>3, <3>1, <3>2, <3>3
  <2>4. Kept(1, n, Tail(n)) /\ Tail(n) \in Seq(SpduSet)
    BY <1>1, <2>1, KeptTail
  <2> QED BY <1>1, <2>3, <2>4, HeadRead, KeptLess DEF ReadsOff
<1>4. CASE ~XsduReady(sb[s]) /\ h # <<>>
  <2>1. net'[s] = n /\ Incoming(s) = Head(h)
    BY <1>4 DEF Rest, FromNet, Incoming
  <2>2. sb'[s].spdu = <<>>
    BY <1>1, <1>4 DEF sb2spkt, Ssapblk
  <2>3. Ahead(s) = h \o n /\ Ahead(s)' = n
    <3>1. Ahead(s)' = <<>> \o n
      BY <2>1, <2>2 DEF Ahead
    <3> QED BY <1>1, <3>1 DEF Ahead
  <2>4. Kept(1, h \o n, n)
    BY <1>1, <1>4, KeptBehindHead
  <2>5. h \o n \in Seq(SpduSet)
    BY <1>1, Concatenated
  <2> QED BY <1>1, <2>3, <2>4, <2>5, HeadRead, KeptLess DEF ReadsOff, Ahead
<1> QED BY <1>2, <1>3, <1>4

-----------------------------------------------------------------------------

(* The steps the invariants tell apart, whatever else they do.  Each is a  *)
(* step of s, at both ends.                                                *)
SameFlags(x, fs) == \A f \in fs : f \in sb'[x].flags <=> f \in sb[x].flags
(* Tokens, resynchronization and its flags are as they were at x ...       *)
SameTokens(x) ==
    /\ sb'[x].owned = sb[x].owned /\ sb'[x].rs = sb[x].rs /\ sb'[x].rsn = sb[x].rsn
    /\ sb'[x].rsettings = sb[x].rsettings
    /\ SameFlags(x, {"RS", "RA", "AI", "AIA"})
(* ... and x has still asked for release, or still not.                    *)
SameWord(x) == Committed(x)' <=> Committed(x)
SameSide(x) == SameTokens(x) /\ SameWord(x)
Still(x) == SameSide(x) /\ Kept(0, Ahead(x), Ahead(x)')

(* Nothing of concern: data, sync points, exceptions, drops.               *)
Passes(s) == Still(s) /\ Still(Peer(s))

(* s sends a GT or GTC, and what it gives is no longer its own.            *)
Gives(s, m) ==
    /\ ~Suspended(s) /\ ~Asked(s) /\ ~Committed(s) /\ ~Committed(s)'
    /\ m.code \in GiftCode /\ (m.code = "GTC" => "control" \in Calls /\ Needs("ACTIVITY"))
    /\ \E t \in Tokens : Carries(m, t)
    /\ \A t \in Tokens : Carries(m, t) => t \in sb[s].owned
    /\ sb'[s].owned = {t \in sb[s].owned : ~Carries(m, t)}
    /\ sb'[s].rs = sb[s].rs /\ sb'[s].rsn = sb[s].rsn
    /\ SameFlags(s, {"RS", "RA", "AI", "AIA"})
    /\ Kept(0, Ahead(s), Ahead(s)')
    /\ SameSide(Peer(s)) /\ Joins(Peer(s), m)

(* s reads a GT or GTC; it may already have what is given.                 *)
Gains(s, m) ==
    /\ ReadsOff(s, m) /\ m.code \in GiftCode
    /\ sb[s].owned \subseteq sb'[s].owned
    /\ sb'[s].owned \subseteq sb[s].owned \cup {t \in Tokens : Carries(m, t)}
    /\ sb'[s].rs = sb[s].rs /\ sb'[s].rsn = sb[s].rsn
    /\ sb'[s].rsettings = sb[s].rsettings
    /\ SameFlags(s, {"RS", "RA", "AI", "AIA"}) /\ SameWord(s)
    /\ Still(Peer(s))

(* s sends an RS, AI or AD, and waits for the answer from now on.          *)
Asks(s, m) ==
    /\ ~Suspended(s) /\ ~Flagged(s, "AIA") /\ ~Committed(s) /\ ~Committed(s)'
    /\ m.code \in AskCode
    /\ StandsBy(s, m)'
    /\ ~Flagged(s, "RA")' /\ SameFlags(s, {"AIA"})
    /\ SameFlags(s, IF m.code = "RS" THEN {"AI"} ELSE {"RS"})
    /\ sb'[s].owned = sb[s].owned
    /\ Kept(0, Ahead(s), Ahead(s)')
    /\ SameSide(Peer(s)) /\ Joins(Peer(s), m)

(* s answers an ask, and its tokens are what the answer leaves it.         *)
Replies(s, m) ==
    /\ ~Suspended(s) /\ ~Committed(s) /\ ~Committed(s)'
    /\ \/ /\ m.code = "RA" /\ Flagged(s, "RA") /\ m.settings \in FinalSettings
          /\ sb'[s].owned = {t \in Tokens : m.settings[t] = s}
       \/ m.code = "AIA" /\ Flagged(s, "AIA") /\ sb'[s].owned = {}
    /\ ~Flagged(s, m.code)' /\ SameFlags(s, {"RS", "RA", "AI", "AIA"} \ {m.code})
    /\ Kept(0, Ahead(s), Ahead(s)')
    /\ SameSide(Peer(s)) /\ Joins(Peer(s), m)

(* s reads an ask its own does not beat, and owes the answer.              *)
Accepts(s, m) ==
    /\ ReadsOff(s, m) /\ m.code \in AskCode /\ ~Beats(s, m)
    /\ ~Flagged(s, "RS")' /\ SameFlags(s, {"AI"})
    /\ IF m.code = "RS"
       THEN /\ Flagged(s, "RA")' /\ SameFlags(s, {"AIA"})
            /\ sb'[s].rs = Op(m) /\ sb'[s].rsn = m.ssn /\ sb'[s].rsettings = m.settings
       ELSE ~Flagged(s, "RA")' /\ Flagged(s, "AIA")' /\ sb'[s].rs = "intr"
    /\ sb'[s].owned = sb[s].owned /\ SameWord(s)
    /\ Still(Peer(s))

(* s reads an answer, and its tokens are what the answer leaves it.        *)
Settles(s, m) ==
    /\ ReadsOff(s, m)
    /\ \/ /\ m.code = "RA" /\ ~Flagged(s, "RS")' /\ SameFlags(s, {"RA", "AI", "AIA"})
          /\ m.settings \in FinalSettings => sb'[s].owned = {t \in Tokens : m.settings[t] = s}
       \/ /\ m.code = "AIA" /\ ~Flagged(s, "AI")' /\ SameFlags(s, {"RS", "RA", "AIA"})
          /\ sb'[s].owned = Tokens
    /\ SameWord(s)
    /\ Still(Peer(s))

(* s asks for release.                                                     *)
Finishes(s, m) ==
    /\ m.code = "FN"
    /\ ~Suspended(s) /\ ~Committed(s) /\ sb[s].owned = Tokens
    /\ Committed(s)' /\ SameTokens(s)
    /\ Kept(0, Ahead(s), Ahead(s)')
    /\ SameSide(Peer(s)) /\ Joins(Peer(s), m)

(* s reads an FN while it waits for a DN, and sends a DN at once.          *)
Confirms(s, m) ==
    /\ m.code = "DN"
    /\ Committed(s) /\ Ahead(s) # <<>> /\ Ahead(s)[1].code = "FN"
    /\ SameSide(s) /\ Kept(0, Ahead(s), Ahead(s)')
    /\ SameSide(Peer(s)) /\ Joins(Peer(s), m)

(* s reads that its release is refused, which takes a release token.       *)
Resumes(s) ==
    /\ Committed(s) /\ "rls" \in Tokens
    /\ SameTokens(s) /\ Kept(0, Ahead(s), Ahead(s)')
    /\ Still(Peer(s))

(* s stops waiting, to read the RS it found next.                          *)
Stops(s) ==
    /\ Committed(s) /\ Ahead(s) # <<>> /\ Ahead(s)[1].code = "RS"
    /\ SameTokens(s) /\ Kept(0, Ahead(s), Ahead(s)')
    /\ Still(Peer(s))

-----------------------------------------------------------------------------
(* What the queues were like before.                                       *)

(* What is kept in a queue was there, in order.                            *)
LEMMA KeptTracked ==
    ASSUME NEW n, NEW x, Kept(n, Ahead(x), Ahead(x)')
    PROVE  \E f : \A i \in Place(x)' : Ahead(x)'[i].code \in Tracked =>
              /\ f[i] \in Place(x) /\ f[i] > n /\ Ahead(x)'[i] = Ahead(x)[f[i]]
              /\ \A j \in Place(x)' : j > i /\ Ahead(x)'[j].code \in Tracked => f[j] > f[i]
<1> PICK f : Mapped(n, Ahead(x), Ahead(x)', f)
  BY DEF Kept
<1> WITNESS f
<1> QED BY DEF Mapped, Place

(* The same with an SPDU more at the end.                                  *)
LEMMA JoinTracked ==
    ASSUME NEW x, NEW m \in SpduSet, Joins(x, m)
    PROVE  \E f, l :
              /\ l \in Place(x)' /\ Ahead(x)'[l] = m /\ \A i \in Place(x)' : ~(i > l)
              /\ \A i \in Place(x)' : Ahead(x)'[i].code \in Tracked /\ i # l =>
                  /\ f[i] \in Place(x) /\ Ahead(x)'[i] = Ahead(x)[f[i]] /\ i < l
                  /\ \A j \in Place(x)' : j > i /\ j # l /\ Ahead(x)'[j].code \in Tracked
                       => f[j] > f[i]
<1>1. PICK q \in Seq(SpduSet) : Kept(0, Ahead(x), q) /\ Ahead(x)' = Append(q, m)
  BY DEF Joins
<1>2. PICK f : Mapped(0, Ahead(x), q, f)
  BY <1>1 DEF Kept
<1> DEFINE a == Append(q, m)
           l == Len(q) + 1
<1>3. /\ Len(a) = Len(q) + 1 /\ Len(q) \in Nat /\ a[l] = m
      /\ \A i \in 1..Len(a) : i # l => i \in 1..Len(q) /\ a[i] = q[i] /\ i < l
  OBVIOUS
<1>4. Ahead(x)' = a /\ Place(x)' = 1..Len(a)
  BY <1>1 DEF Place
<1> HIDE DEF a
<1> WITNESS f, l
<1> QED BY <1>2, <1>3, <1>4 DEF Mapped, Place

(* The same for the SPDUs the tokens depend on.                            *)
LEMMA KeptPlaces ==
    ASSUME NEW n, NEW x, Kept(n, Ahead(x), Ahead(x)')
    PROVE  \E f : \A i \in Place(x)' : Ahead(x)'[i].code \in Stirring =>
              /\ f[i] \in Place(x) /\ f[i] > n /\ Ahead(x)'[i] = Ahead(x)[f[i]]
              /\ \A j \in Place(x)' : j > i /\ Ahead(x)'[j].code \in Stirring => f[j] > f[i]
BY KeptTracked DEF Tracked

LEMMA JoinPlaces ==
    ASSUME NEW x, NEW m \in SpduSet, Joins(x, m)
    PROVE  \E f, l :
              /\ l \in Place(x)' /\ Ahead(x)'[l] = m /\ \A i \in Place(x)' : ~(i > l)
              /\ \A i \in Place(x)' : Ahead(x)'[i].code \in Stirring /\ i # l =>
                  /\ f[i] \in Place(x) /\ Ahead(x)'[i] = Ahead(x)[f[i]] /\ i < l
                  /\ \A j \in Place(x)' : j > i /\ j # l /\ Ahead(x)'[j].code \in Stirring
                       => f[j] > f[i]
BY JoinTracked DEF Tracked

-----------------------------------------------------------------------------
(* Every step is one of these.                                             *)
Step(s) ==
    \/ Passes(s)
    \/ Resumes(s) \/ Stops(s)
    \/ \E m \in SpduSet : \/ Gives(s, m) \/ Gains(s, m) \/ Asks(s, m)
                          \/ Replies(s, m) \/ Accepts(s, m) \/ Settles(s, m)
                          \/ Finishes(s, m) \/ Confirms(s, m)

(* The block of a side whose block does not change.                        *)
LEMMA SameBlock == ASSUME NEW x, sb'[x] = sb[x] PROVE SameSide(x)
BY DEF SameSide, SameTokens, SameWord, Committed, Flagged, SameFlags

(* Nothing happens.                                                        *)
LEMMA StutterIdle == ASSUME TypeOK, UNCHANGED vars PROVE \A s \in Side : Passes(s)
<1> SUFFICES \A x \in Side : Still(x)
  BY PeerSide DEF Passes
<1> SUFFICES ASSUME NEW x \in Side PROVE Still(x)
  OBVIOUS
<1>1. sb'[x] = sb[x] /\ Ahead(x)' = Ahead(x)
  BY DEF vars, Ahead
<1> QED BY <1>1, SameBlock, KeptSame, AheadTyped DEF Still

(* A request that sends an SPDU that does not matter is idle.              *)
LEMMA SendsIdle ==
    ASSUME TypeOK, BothLive, NEW s \in Side, NEW m \in SpduSet, m.code \notin Tracked,
           spkt2sd(s, m) \/ SWriteRequestAux(s, m),
           SameSide(s), sb'[s].spdu = sb[s].spdu, sb'[Peer(s)] = sb[Peer(s)]
    PROVE  Step(s)
<1>1. /\ Ahead(s)' = Ahead(s) /\ Kept(0, Ahead(Peer(s)), Ahead(Peer(s))')
  BY SentAhead
<1>2. Kept(0, Ahead(s), Ahead(s)')
  BY <1>1, KeptSame, AheadTyped
<1> QED BY <1>1, <1>2, SameBlock DEF Step, Passes, Still

(* Any other one comes last, and is all that changes.                      *)
LEMMA SendsLast ==
    ASSUME TypeOK, BothLive, NEW s \in Side, NEW m \in SpduSet,
           SWriteRequestAux(s, m) \/ (spkt2sd(s, m) /\ ~m.xpd),
           sb'[s].spdu = sb[s].spdu, sb'[Peer(s)] = sb[Peer(s)]
    PROVE  /\ Kept(0, Ahead(s), Ahead(s)')
           /\ SameSide(Peer(s)) /\ Joins(Peer(s), m)
<1>1. Ahead(s)' = Ahead(s) /\ Joins(Peer(s), m)
  BY SentAhead
<1>2. Kept(0, Ahead(s), Ahead(s)')
  BY <1>1, KeptSame, AheadTyped
<1> QED BY <1>1, <1>2, SameBlock

(* Nothing is sent or read.                                                *)
LEMMA StaysIdle ==
    ASSUME TypeOK, NEW s \in Side, SameSide(s), sb'[s].spdu = sb[s].spdu,
           sb'[Peer(s)] = sb[Peer(s)], net' = net
    PROVE  Step(s)
<1>1. Ahead(s)' = Ahead(s) /\ Ahead(Peer(s))' = Ahead(Peer(s))
  BY DEF Ahead
<1> QED BY <1>1, KeptSame, AheadTyped, PeerSide, SameBlock DEF Step, Passes, Still

(* The codes of the SPDUs that do not matter.                              *)
LEMMA Plain ==
    \A c \in Code \ Tracked : c \notin {"RS", "PR"} => Spdu(c) \in SpduSet /\ Spdu(c).code = c
BY PlainSpdu DEF Spdu

(* Every request of a user is one of the steps.                            *)
LEMMA RequestSteps ==
    ASSUME TypeOK, BothLive, BothLive', NEW s \in Side, UserRequest(s)
    PROVE  Step(s)
<1> DEFINE p == Peer(s)
           b == sb[s]
<1>b. b \in Ssapblk /\ sb \in [Side -> Ssapblk]
  BY DEF TypeOK
<1>p. p \in Side /\ p # s
  BY DEF Peer, Side
<1>f. b.flags \in SUBSET Flag /\ b.V_A \in Int /\ b.V_M \in Int /\ b.V_R \in Int
        /\ b.owned \in SUBSET Tokens
  BY <1>b, BlockTyped
<1>i. \A m \in SpduSet : /\ m.code \notin Tracked
                         /\ spkt2sd(s, m) \/ SWriteRequestAux(s, m)
                         /\ SameSide(s) /\ sb'[s].spdu = b.spdu /\ sb'[p] = sb[p]
                         => Step(s)
  BY SendsIdle
<1>u. sb' = sb => SameSide(s) /\ sb'[s].spdu = b.spdu /\ sb'[p] = sb[p]
  BY SameBlock
<1> HIDE DEF p
<1>1. CASE SDataRequest(s) \/ STypedRequest(s)
  <2>1. /\ Spdu("DT") \in SpduSet /\ Spdu("TD") \in SpduSet
        /\ Spdu("DT").code \notin Tracked /\ Spdu("TD").code \notin Tracked
    BY Plain DEF Code, Tracked, Stirring, AskCode, AnswerCode, GiftCode
  <2> QED BY <1>1, <1>i, <1>u, <2>1 DEF SDataRequest, STypedRequest
<1>2. CASE SExpdRequest(s)
  <2> DEFINE m == [Spdu("EX") EXCEPT !.xpd = TRUE]
  <2>1. m \in SpduSet /\ m.code \notin Tracked
    BY MessagesTyped DEF Spdu, Tracked, Stirring, AskCode, AnswerCode, GiftCode
  <2>2. spkt2sd(s, m) /\ sb' = sb
    BY <1>2 DEF SExpdRequest
  <2> HIDE DEF m
  <2> QED BY <1>i, <1>u, <2>1, <2>2
<1>3. CASE SGTokenRequest(s)
  <2>1. PICK ts \in (SUBSET b.owned) \ {{}} :
          /\ spkt2sd(s, [Spdu("GT") EXCEPT !.tokens = ts])
          /\ sb' = [sb EXCEPT ![s].owned = @ \ ts,
                              ![s].flags = IF "dat" \in ts THEN @ \ {"EDACK"} ELSE @]
    BY <1>3, Zenon DEF SGTokenRequest
  <2> DEFINE m == [Spdu("GT") EXCEPT !.tokens = ts]
  <2>2. ts \in SUBSET Tokens /\ ts # {} /\ ts \subseteq b.owned
    BY <1>f
  <2>3. m \in SpduSet /\ m.code = "GT" /\ m.tokens = ts /\ m.xpd = FALSE
    BY <2>2, MessagesTyped DEF Spdu
  <2>4. spkt2sd(s, m)
    BY <2>1
  <2> HIDE DEF m
  <2>5. /\ sb'[s].owned = b.owned \ ts /\ sb'[s].spdu = b.spdu /\ sb'[p] = sb[p]
        /\ sb'[s].rs = b.rs /\ sb'[s].rsn = b.rsn
        /\ SameFlags(s, {"RS", "RA", "AI", "AIA"})
    BY <1>b, <1>p, <2>1 DEF Ssapblk, SameFlags
  <2>6. ~Suspended(s) /\ ~Asked(s) /\ ~Committed(s) /\ ~Committed(s)'
    BY <1>3, <1>b, <2>1
       DEF SGTokenRequest, ssapXsig, Has, Suspended, Asked, Committed, Flagged, Ssapblk
  <2>7. \A t \in Tokens : Carries(m, t) <=> t \in ts
    BY <2>3 DEF Carries
  <2>8. /\ Kept(0, Ahead(s), Ahead(s)') /\ SameSide(p) /\ Joins(p, m)
    BY <2>3, <2>4, <2>5, SendsLast DEF p
  <2>9. Gives(s, m)
    <3>1. sb'[s].owned = {t \in b.owned : ~Carries(m, t)}
      BY <1>f, <2>5, <2>7
    <3>2. \E t \in Tokens : Carries(m, t)
      BY <2>2, <2>7
    <3> QED BY <2>2, <2>3, <2>5, <2>6, <2>7, <2>8, <3>1, <3>2 DEF Gives, GiftCode, p
  <2> QED BY <2>3, <2>9 DEF Step
<1>4. CASE SPTokenRequest(s)
  <2>1. PICK ts \in SUBSET Tokens : spkt2sd(s, [Spdu("PT") EXCEPT !.tokens = ts])
    BY <1>4 DEF SPTokenRequest
  <2> DEFINE m == [Spdu("PT") EXCEPT !.tokens = ts]
  <2>2. m \in SpduSet /\ m.code \notin Tracked
    BY MessagesTyped DEF Spdu, Tracked, Stirring, AskCode, AnswerCode, GiftCode
  <2>3. spkt2sd(s, m) /\ sb' = sb
    BY <1>4, <2>1 DEF SPTokenRequest
  <2> HIDE DEF m
  <2> QED BY <1>i, <1>u, <2>2, <2>3
<1>5. CASE SGControlRequest(s)
  <2> DEFINE m == Spdu("GTC")
  <2>1. m \in SpduSet /\ m.code = "GTC" /\ m.xpd = FALSE /\ "control" \in Calls /\ Needs("ACTIVITY")
    BY <1>5, PlainSpdu DEF Code, Spdu, SGControlRequest, SDoActivityAux, Requests
  <2>2. spkt2sd(s, m) /\ sb' = [sb EXCEPT ![s].owned = {}, ![s].flags = @ \cup {"GTC"}]
    BY <1>5 DEF SGControlRequest
  <2> HIDE DEF m
  <2>3. /\ sb'[s].owned = {} /\ sb'[s].spdu = b.spdu /\ sb'[p] = sb[p]
        /\ sb'[s].rs = b.rs /\ sb'[s].rsn = b.rsn
        /\ SameFlags(s, {"RS", "RA", "AI", "AIA"})
    BY <1>b, <1>p, <2>2 DEF Ssapblk, SameFlags
  <2>4. ~Suspended(s) /\ ~Asked(s) /\ ~Committed(s) /\ ~Committed(s)'
    BY <1>5, <1>b, <2>2
       DEF SGControlRequest, ssapPsig, Has, Suspended, Asked, Committed, Flagged, Ssapblk
  <2>5. \A t \in Tokens : t \in b.owned
    BY <1>5 DEF SGControlRequest, SDoActivityAux, OwnsIfAny, Owns, Tokens
  <2>6. "maj" \in Tokens
    BY <1>5, <1>f DEF SGControlRequest, SDoActivityAux, Owns
  <2>7. Kept(0, Ahead(s), Ahead(s)') /\ SameSide(p) /\ Joins(p, m)
    BY <2>1, <2>2, <2>3, SendsLast DEF p
  <2>8. Gives(s, m)
    BY <1>f, <2>1, <2>3, <2>4, <2>5, <2>6, <2>7 DEF Gives, GiftCode, Carries, p
  <2> QED BY <2>1, <2>8 DEF Step
<1>6. CASE SCapdRequest(s)
  <2>1. Spdu("CD") \in SpduSet /\ Spdu("CD").code \notin Tracked
    BY Plain DEF Code, Tracked, Stirring, AskCode, AnswerCode, GiftCode
  <2>2. SameSide(s) /\ sb'[s].spdu = b.spdu /\ sb'[p] = sb[p]
    BY <1>6, <1>b, <1>p
       DEF SCapdRequest, Ssapblk, SameSide, SameTokens, SameWord, Committed, Flagged, SameFlags
  <2> QED BY <1>6, <1>i, <2>1, <2>2 DEF SCapdRequest
<1>7. CASE SMinSyncRequest(s)
  <2> DEFINE m == [Spdu("MIP") EXCEPT !.ssn = b.V_M]
  <2>1. m \in SpduSet /\ m.code \notin Tracked
    BY <1>f, MessagesTyped DEF Spdu, Tracked, Stirring, AskCode, AnswerCode, GiftCode
  <2>2. SWriteRequestAux(s, m)
    BY <1>7 DEF SMinSyncRequest
  <2>3. SameSide(s) /\ sb'[s].spdu = b.spdu /\ sb'[p] = sb[p]
    BY <1>7, <1>b, <1>p
       DEF SMinSyncRequest, Ssapblk, SameSide, SameTokens, SameWord, Committed, Flagged,
           SameFlags
  <2> HIDE DEF m
  <2> QED BY <1>i, <2>1, <2>2, <2>3
<1>8. CASE SMinSyncResponse(s)
  <2>1. PICK ssn \in b.V_A .. MaxSsn :
          /\ SWriteRequestAux(s, [Spdu("MIA") EXCEPT !.ssn = ssn])
          /\ sb' = [sb EXCEPT ![s].V_A = ssn + 1]
    BY <1>8, Zenon DEF SMinSyncResponse
  <2> DEFINE m == [Spdu("MIA") EXCEPT !.ssn = ssn]
  <2>2. m \in SpduSet /\ m.code \notin Tracked
    <3>1. ssn \in Int
      BY <1>f, MaxSsnAssumption
    <3> QED BY <3>1, MessagesTyped DEF Spdu, Tracked, Stirring, AskCode, AnswerCode, GiftCode
  <2>3. SameSide(s) /\ sb'[s].spdu = b.spdu /\ sb'[p] = sb[p]
    BY <1>b, <1>p, <2>1
       DEF Ssapblk, SameSide, SameTokens, SameWord, Committed, Flagged, SameFlags
  <2>4. SWriteRequestAux(s, m)
    BY <2>1
  <2> HIDE DEF m
  <2> QED BY <1>i, <2>2, <2>3, <2>4
<1>9. CASE \E end \in BOOLEAN : SMajSyncRequestAux(s, end)
  <2>1. PICK end \in BOOLEAN : SMajSyncRequestAux(s, end)
    BY <1>9
  <2> DEFINE m == [Spdu("MAP") EXCEPT !.ssn = b.V_M, !.type = IF end THEN "end" ELSE "noend"]
  <2>2. m \in SpduSet
    <3>1. (IF end THEN "end" ELSE "noend") \in {"end", "noend"}
      OBVIOUS
    <3> QED BY <1>f, <3>1, MessagesTyped, Zenon
  <2>3. m.code \notin Tracked
    BY DEF Spdu, Tracked, Stirring, AskCode, AnswerCode, GiftCode
  <2>4. SWriteRequestAux(s, m)
    BY <2>1, Zenon DEF SMajSyncRequestAux
  <2>5. SameSide(s) /\ sb'[s].spdu = b.spdu /\ sb'[p] = sb[p]
    BY <1>b, <1>p, <2>1
       DEF SMajSyncRequestAux, Ssapblk, SameSide, SameTokens, SameWord, Committed, Flagged,
           SameFlags
  <2> HIDE DEF m
  <2> QED BY <1>i, <2>2, <2>3, <2>4, <2>5
<1>10. CASE SReSyncRequest(s)
  <2>1. PICK type \in ReSync, settings \in Proposals :
          \E ssn \in ResyncPoints(sb[s], type) :
            /\ SWriteRequestAux(s, [Spdu("RS") EXCEPT !.type = type, !.ssn = ssn,
                                                      !.settings = settings])
            /\ sb' = [sb EXCEPT ![s].flags = (@ \cup {"RS"}) \ {"RA", "EDACK"},
                                ![s].rs = type, ![s].rsn = ssn,
                                ![s].rsettings = settings]
    BY <1>10, Zenon DEF SReSyncRequest
  <2>2. PICK ssn \in ResyncPoints(sb[s], type) :
            /\ SWriteRequestAux(s, [Spdu("RS") EXCEPT !.type = type, !.ssn = ssn,
                                                      !.settings = settings])
            /\ sb' = [sb EXCEPT ![s].flags = (@ \cup {"RS"}) \ {"RA", "EDACK"},
                                ![s].rs = type, ![s].rsn = ssn,
                                ![s].rsettings = settings]
    BY <2>1, Zenon
  <2> DEFINE m == [Spdu("RS") EXCEPT !.type = type, !.ssn = ssn, !.settings = settings]
  <2>3. ssn \in Int
    BY <1>f, MaxSsnAssumption DEF ResyncPoints, ReSync
  <2>4. m \in SpduSet
    <3>1. settings \in Settings
      BY ProposalsAssumption
    <3> QED BY <2>3, <3>1, MessagesTyped, Zenon
  <2>5. m.code = "RS" /\ m.type = type /\ m.ssn = ssn /\ m.settings = settings
    BY DEF Spdu
  <2>6. SWriteRequestAux(s, m)
    BY <2>2
  <2> HIDE DEF m
  <2>7. /\ sb'[s].owned = b.owned /\ sb'[s].spdu = b.spdu /\ sb'[p] = sb[p]
        /\ sb'[s].rs = type /\ sb'[s].rsn = ssn /\ sb'[s].rsettings = settings
        /\ sb'[s].flags = (b.flags \cup {"RS"}) \ {"RA", "EDACK"}
    BY <1>b, <1>p, <2>2 DEF Ssapblk
  <2>8. ~Suspended(s) /\ ~Flagged(s, "AIA") /\ ~Committed(s) /\ ~Committed(s)'
    BY <1>10, <1>b, <2>2
       DEF SReSyncRequest, ssapRsig, Has, Suspended, Committed, Flagged, Ssapblk
  <2>9. Kept(0, Ahead(s), Ahead(s)') /\ SameSide(p) /\ Joins(p, m)
    BY <2>4, <2>6, <2>7, SendsLast DEF p
  <2>10. Asks(s, m)
    BY <2>5, <2>7, <2>8, <2>9 DEF Asks, AskCode, StandsBy, Op, SameFlags, Flagged, p
  <2> QED BY <2>4, <2>10 DEF Step
<1>11. CASE SUReportRequest(s)
  <2>1. Spdu("ED") \in SpduSet /\ Spdu("ED").code \notin Tracked
    BY Plain DEF Code, Tracked, Stirring, AskCode, AnswerCode, GiftCode
  <2>2. SameSide(s) /\ sb'[s].spdu = b.spdu /\ sb'[p] = sb[p]
    BY <1>11, <1>b, <1>p
       DEF SUReportRequest, Ssapblk, SameSide, SameTokens, SameWord, Committed, Flagged,
           SameFlags
  <2> QED BY <1>11, <1>i, <2>1, <2>2 DEF SUReportRequest
<1>12. CASE SActStartRequest(s)
  <2>1. Spdu("AS") \in SpduSet /\ Spdu("AS").code \notin Tracked
    BY Plain DEF Code, Tracked, Stirring, AskCode, AnswerCode, GiftCode
  <2>2. SameSide(s) /\ sb'[s].spdu = b.spdu /\ sb'[p] = sb[p]
    BY <1>12, <1>b, <1>p
       DEF SActStartRequest, InActivity, Ssapblk, SameSide, SameTokens, SameWord, Committed,
           Flagged, SameFlags
  <2> QED BY <1>12, <1>i, <2>1, <2>2 DEF SActStartRequest
<1>13. CASE SActResumeRequest(s)
  <2>1. PICK ssn \in 0..MaxSsn :
          /\ SWriteRequestAux(s, [Spdu("AR") EXCEPT !.ssn = ssn])
          /\ sb' = [sb EXCEPT ![s] = InActivity(@, ssn + 1)]
    BY <1>13 DEF SActResumeRequest
  <2> DEFINE m == [Spdu("AR") EXCEPT !.ssn = ssn]
  <2>2. m \in SpduSet /\ m.code \notin Tracked
    <3>1. ssn \in Int
      BY MaxSsnAssumption
    <3> QED BY <3>1, MessagesTyped DEF Spdu, Tracked, Stirring, AskCode, AnswerCode, GiftCode
  <2>3. SameSide(s) /\ sb'[s].spdu = b.spdu /\ sb'[p] = sb[p]
    BY <1>b, <1>p, <2>1
       DEF InActivity, Ssapblk, SameSide, SameTokens, SameWord, Committed, Flagged, SameFlags
  <2>4. SWriteRequestAux(s, m)
    BY <2>1
  <2> HIDE DEF m
  <2> QED BY <1>i, <2>2, <2>3, <2>4
<1>14. CASE SActIntrRequest(s)
  <2>1. PICK how \in {"intr", "disc"} :
          /\ SWriteRequestAux(s, Spdu(IF how = "intr" THEN "AI" ELSE "AD"))
          /\ sb' = [sb EXCEPT ![s].flags = (@ \cup {"AI"}) \ {"RA", "EDACK"},
                              ![s].rs = how]
    BY <1>14, Zenon DEF SActIntrRequest
  <2> DEFINE m == Spdu(IF how = "intr" THEN "AI" ELSE "AD")
  <2>2. m \in SpduSet
    BY PlainSpdu DEF Code
  <2>3. m.code \in {"AI", "AD"} /\ Op(m) = how
    BY DEF Spdu, Op
  <2>4. SWriteRequestAux(s, m)
    BY <2>1
  <2> HIDE DEF m
  <2>5. /\ sb'[s].owned = b.owned /\ sb'[s].spdu = b.spdu /\ sb'[p] = sb[p]
        /\ sb'[s].rs = how
        /\ sb'[s].flags = (b.flags \cup {"AI"}) \ {"RA", "EDACK"}
    BY <1>b, <1>p, <2>1 DEF Ssapblk
  <2>6. ~Suspended(s) /\ ~Flagged(s, "AIA") /\ ~Committed(s) /\ ~Committed(s)'
    BY <1>14, <1>b, <2>1
       DEF SActIntrRequest, ssapXsig, Has, Suspended, Committed, Flagged, Ssapblk
  <2>7. Kept(0, Ahead(s), Ahead(s)') /\ SameSide(p) /\ Joins(p, m)
    BY <2>2, <2>4, <2>5, SendsLast DEF p
  <2>8. Asks(s, m)
    BY <2>3, <2>5, <2>6, <2>7 DEF Asks, AskCode, StandsBy, SameFlags, Flagged, p
  <2> QED BY <2>2, <2>8 DEF Step
<1>15. CASE SUAbortRequest(s)
  <2>1. PICK qs : freesblk(s, "aborted", qs)
    BY <1>15, Zenon DEF SUAbortRequest
  <2>2. sb'[s].mode = "aborted"
    BY <1>b, <2>1 DEF freesblk, Freed, newsblk
  <2> QED BY <2>2 DEF BothLive, Live
<1>16. CASE SRelRequest(s)
  <2> DEFINE m == Spdu("FN")
  <2>1. m \in SpduSet /\ m.code = "FN" /\ m.xpd = FALSE
    BY PlainSpdu DEF Code, Spdu
  <2>2. spkt2sd(s, m) /\ sb' = [sb EXCEPT ![s].mode = "waiting"]
    BY <1>16 DEF SRelRequest
  <2> HIDE DEF m
  <2>3. SameTokens(s) /\ Committed(s)' /\ sb'[s].spdu = b.spdu /\ sb'[p] = sb[p]
    BY <1>b, <1>p, <2>2 DEF Ssapblk, SameTokens, SameFlags, Committed
  <2>4. ~Suspended(s) /\ ~Committed(s) /\ b.owned = Tokens
    BY <1>16 DEF SRelRequest, ssapPsig, Has, Suspended, Committed, Flagged
  <2>5. Kept(0, Ahead(s), Ahead(s)') /\ SameSide(p) /\ Joins(p, m)
    BY <2>1, <2>2, <2>3, SendsLast DEF p
  <2>6. Finishes(s, m)
    BY <2>1, <2>3, <2>4, <2>5 DEF Finishes, p
  <2> QED BY <2>1, <2>6 DEF Step
<1> QED
  BY <1>1, <1>2, <1>3, <1>4, <1>5, <1>6, <1>7, <1>8, <1>9, <1>10, <1>11, <1>12,
     <1>13, <1>14, <1>15, <1>16
     DEF UserRequest, SMajSyncRequest, SActEndRequest

(* Every response of a user is one of the steps.                           *)
LEMMA ResponseSteps ==
    ASSUME TypeOK, BothLive, BothLive', NEW s \in Side, UserResponse(s)
    PROVE  Step(s)
<1> DEFINE p == Peer(s)
           b == sb[s]
<1>b. b \in Ssapblk /\ sb \in [Side -> Ssapblk]
  BY DEF TypeOK
<1>p. p \in Side /\ p # s
  BY DEF Peer, Side
<1>f. b.flags \in SUBSET Flag /\ b.V_A \in Int /\ b.V_M \in Int /\ b.V_R \in Int
        /\ b.owned \in SUBSET Tokens /\ b.rsn \in Int
  BY <1>b, BlockTyped
<1>i. \A m \in SpduSet : /\ m.code \notin Tracked
                         /\ spkt2sd(s, m) \/ SWriteRequestAux(s, m)
                         /\ SameSide(s) /\ sb'[s].spdu = b.spdu /\ sb'[p] = sb[p]
                         => Step(s)
  BY SendsIdle
<1> HIDE DEF p
<1>1. CASE SCapdResponse(s)
  <2>1. Spdu("CDA") \in SpduSet /\ Spdu("CDA").code \notin Tracked
    BY Plain DEF Code, Tracked, Stirring, AskCode, AnswerCode, GiftCode
  <2>2. SameSide(s) /\ sb'[s].spdu = b.spdu /\ sb'[p] = sb[p]
    BY <1>1, <1>b, <1>p
       DEF SCapdResponse, Ssapblk, SameSide, SameTokens, SameWord, Committed, Flagged,
           SameFlags
  <2> QED BY <1>1, <1>i, <2>1, <2>2 DEF SCapdResponse
<1>2. CASE SMajSyncResponse(s)
  <2> DEFINE m == [Spdu("MAA") EXCEPT !.ssn = b.V_M - 1]
  <2>1. m \in SpduSet /\ m.code \notin Tracked
    <3>1. b.V_M - 1 \in Int
      BY <1>f
    <3> QED BY <3>1, MessagesTyped DEF Spdu, Tracked, Stirring, AskCode, AnswerCode, GiftCode
  <2>2. SWriteRequestAux(s, m)
    BY <1>2 DEF SMajSyncResponse
  <2>3. SameSide(s) /\ sb'[s].spdu = b.spdu /\ sb'[p] = sb[p]
    BY <1>2, <1>b, <1>p
       DEF SMajSyncResponse, ActivityAfterMajor, Ssapblk, SameSide, SameTokens, SameWord,
           Committed, Flagged, SameFlags
  <2> HIDE DEF m
  <2> QED BY <1>i, <2>1, <2>2, <2>3
<1>3. CASE SReSyncResponse(s)
  <2> DEFINE x(settings, ssn) ==
                [Resynchronized(s, b, ssn, settings) EXCEPT !.flags = @ \ {"RA"}]
             y(settings, ssn) == [Spdu("RA") EXCEPT !.ssn = ssn, !.settings = settings]
  <2>1. PICK settings \in FinalSettings, ssn \in AcceptedPoints(b) :
          SWriteRequestAux(s, y(settings, ssn)) /\ sb' = [sb EXCEPT ![s] = x(settings, ssn)]
    BY <1>3, Zenon DEF SReSyncResponse
  <2> DEFINE m == y(settings, ssn)
  <2>2. ssn \in Int
    BY <1>f, MaxSsnAssumption DEF AcceptedPoints
  <2>3. m \in SpduSet
    <3>1. settings \in Settings
      BY DEF FinalSettings, Settings
    <3> QED BY <2>2, <3>1, MessagesTyped, Zenon
  <2>4. m.code = "RA" /\ m.settings = settings
    BY DEF Spdu
  <2>5. SWriteRequestAux(s, m)
    BY <2>1
  <2>6. sb' = [sb EXCEPT ![s] = x(settings, ssn)]
    BY <2>1
  <2>7. x(settings, ssn).owned = {t \in Tokens : settings[t] = s}
    <3>1. x(settings, ssn).owned = TokensOf(s, settings, b.owned)
      BY <1>b DEF Resynchronized, Ssapblk
    <3>2. \A t \in Tokens : settings[t] # "call"
      BY DEF FinalSettings, Side
    <3> QED BY <1>f, <3>1, <3>2 DEF TokensOf
  <2>8. /\ x(settings, ssn).flags = b.flags \ {"RA"} /\ x(settings, ssn).spdu = b.spdu
        /\ x(settings, ssn).mode = b.mode
    BY <1>b DEF Resynchronized, Ssapblk
  <2> HIDE DEF m, x, y
  <2>9. /\ sb'[s].owned = {t \in Tokens : settings[t] = s}
        /\ sb'[s].flags = b.flags \ {"RA"} /\ sb'[s].spdu = b.spdu /\ sb'[p] = sb[p]
        /\ sb'[s].mode = b.mode
    BY <1>b, <1>p, <2>6, <2>7, <2>8
  <2>10. ~Suspended(s) /\ Flagged(s, "RA") /\ ~Committed(s) /\ ~Committed(s)'
    BY <1>3, <1>b, <2>9 DEF SReSyncResponse, ssapRsig, Has, Suspended, Committed, Flagged
  <2>11. Kept(0, Ahead(s), Ahead(s)') /\ SameSide(p) /\ Joins(p, m)
    BY <2>3, <2>5, <2>9, SendsLast DEF p
  <2>12. Replies(s, m)
    BY <2>4, <2>9, <2>10, <2>11 DEF Replies, SameFlags, Flagged, p
  <2> QED BY <2>3, <2>12 DEF Step
<1>4. CASE SActIntrResponse(s)
  <2> DEFINE m == Spdu("AIA")
  <2>1. m \in SpduSet /\ m.code = "AIA"
    BY PlainSpdu DEF Code, Spdu
  <2>2. /\ SWriteRequestAux(s, m)
        /\ sb' = [sb EXCEPT ![s].flags = @ \ {"AIA", "Vact"}, ![s].owned = {}]
    BY <1>4 DEF SActIntrResponse
  <2> HIDE DEF m
  <2>3. /\ sb'[s].owned = {} /\ sb'[s].spdu = b.spdu /\ sb'[p] = sb[p]
        /\ sb'[s].flags = b.flags \ {"AIA", "Vact"}
    BY <1>b, <1>p, <2>2 DEF Ssapblk
  <2>4. ~Suspended(s) /\ Flagged(s, "AIA") /\ ~Committed(s) /\ ~Committed(s)'
    BY <1>4, <1>b, <2>2
       DEF SActIntrResponse, ssapAsig, Has, Suspended, Committed, Flagged, Ssapblk
  <2>5. Kept(0, Ahead(s), Ahead(s)') /\ SameSide(p) /\ Joins(p, m)
    BY <2>1, <2>2, <2>3, SendsLast DEF p
  <2>6. Replies(s, m)
    BY <2>1, <2>3, <2>4, <2>5 DEF Replies, SameFlags, Flagged, p
  <2> QED BY <2>1, <2>6 DEF Step
<1>5. CASE SRelResponse(s)
  <2>1. sb' # [sb EXCEPT ![s] = Freed("draining")]
    BY <1>b DEF Freed, newsblk, BothLive, Live
  <2>2. spkt2sd(s, Spdu("NF")) /\ sb' = [sb EXCEPT ![s].flags = @ \ {"FINN"}]
    BY <1>5, <2>1 DEF SRelResponse
  <2>3. Spdu("NF") \in SpduSet /\ Spdu("NF").code \notin Tracked
    BY Plain DEF Code, Tracked, Stirring, AskCode, AnswerCode, GiftCode
  <2>4. SameSide(s) /\ sb'[s].spdu = b.spdu /\ sb'[p] = sb[p]
    BY <1>b, <1>p, <2>2
       DEF Ssapblk, SameSide, SameTokens, SameWord, Committed, Flagged, SameFlags
  <2> QED BY <1>i, <2>2, <2>3, <2>4
<1>6. CASE SRelRetryRequest(s)
  <2>1. SameSide(s) /\ sb'[s].spdu = b.spdu /\ sb'[p] = sb[p] /\ net' = net
    BY <1>6, <1>b, <1>p
       DEF SRelRetryRequest, Ssapblk, SameSide, SameTokens, SameWord, Committed, Flagged,
           SameFlags
  <2> QED BY <2>1, StaysIdle DEF p
<1> QED BY <1>1, <1>2, <1>3, <1>4, <1>5, <1>6 DEF UserResponse

(* Every timeout is one of the steps.                                      *)
LEMMA TimerSteps ==
    ASSUME TypeOK, BothLive, BothLive', NEW s \in Side, Timer(s)
    PROVE  Step(s)
<1>1. sb[s] \in Ssapblk /\ sb \in [Side -> Ssapblk] /\ Peer(s) \in Side /\ Peer(s) # s
  BY DEF TypeOK, Peer, Side
<1>2. SRelTimeout(s)
  BY DEF Timer, DrainTimeout, BothLive, Live
<1>3. /\ SameSide(s) /\ sb'[s].spdu = sb[s].spdu /\ sb'[Peer(s)] = sb[Peer(s)] /\ net' = net
  BY <1>1, <1>2
     DEF SRelTimeout, Ssapblk, SameSide, SameTokens, SameWord, Committed, Flagged, SameFlags
<1> QED BY <1>3, StaysIdle

-----------------------------------------------------------------------------
(* Reading.                                                                *)

(* Taking an SPDU changes nothing in the block but where it was saved and  *)
(* the preparation.                                                        *)
LEMMA TakenView ==
    ASSUME TypeOK, NEW s \in Side, Readable(s)
    PROVE  /\ Taken(s).owned = sb[s].owned /\ Taken(s).flags = sb[s].flags
           /\ Taken(s).rs = sb[s].rs /\ Taken(s).rsn = sb[s].rsn
           /\ Taken(s).rsettings = sb[s].rsettings
           /\ Taken(s).spdu = sb2spkt(sb[s]).spdu /\ Taken(s).mode = sb[s].mode
           /\ sb2spkt(sb[s]).owned = sb[s].owned /\ sb2spkt(sb[s]).flags = sb[s].flags
           /\ sb2spkt(sb[s]).rs = sb[s].rs /\ sb2spkt(sb[s]).rsn = sb[s].rsn
           /\ sb2spkt(sb[s]).rsettings = sb[s].rsettings
           /\ sb2spkt(sb[s]).mode = sb[s].mode
<1>1. sb[s] \in Ssapblk /\ sb2spkt(sb[s]) \in Ssapblk
  BY IncomingTyped DEF TypeOK
<1>2. /\ sb2spkt(sb[s]).owned = sb[s].owned /\ sb2spkt(sb[s]).flags = sb[s].flags
      /\ sb2spkt(sb[s]).rs = sb[s].rs /\ sb2spkt(sb[s]).rsn = sb[s].rsn
      /\ sb2spkt(sb[s]).rsettings = sb[s].rsettings
      /\ sb2spkt(sb[s]).mode = sb[s].mode
  BY <1>1 DEF sb2spkt, Ssapblk
<1> DEFINE c == sb2spkt(sb[s])
<1>3. \A x : /\ [c EXCEPT !.pr = x].owned = c.owned /\ [c EXCEPT !.pr = x].flags = c.flags
             /\ [c EXCEPT !.pr = x].rs = c.rs /\ [c EXCEPT !.pr = x].rsn = c.rsn
             /\ [c EXCEPT !.pr = x].rsettings = c.rsettings
             /\ [c EXCEPT !.pr = x].spdu = c.spdu /\ [c EXCEPT !.pr = x].mode = c.mode
  <2>1. c \in Ssapblk
    BY <1>1
  <2> HIDE DEF c
  <2> QED BY <2>1 DEF Ssapblk
<1> QED BY <1>2, <1>3, Zenon DEF Taken

(* What reading does at both ends.                                         *)
LEMMA DoneView ==
    ASSUME TypeOK, NEW s \in Side, Readable(s), NEW b, b.spdu = sb2spkt(sb[s]).spdu,
           Done(s, b)
    PROVE  /\ sb'[s] = b /\ Still(Peer(s)) /\ Kept(0, Ahead(s), Ahead(s)')
           /\ Incoming(s).code # "EX" => ReadsOff(s, Incoming(s))
<1>1. Peer(s) \in Side /\ Peer(s) # s
  BY DEF Peer, Side
<1>2. /\ sb'[s] = b /\ sb'[Peer(s)] = sb[Peer(s)]
      /\ net'[s] = Rest(s) /\ net'[Peer(s)] = net[Peer(s)]
  BY <1>1 DEF Done, TypeOK
<1>3. Still(Peer(s))
  <2>1. Ahead(Peer(s))' = Ahead(Peer(s))
    BY <1>2 DEF Ahead
  <2> QED BY <1>1, <1>2, <2>1, KeptSame, AheadTyped, SameBlock DEF Still
<1> QED BY <1>2, <1>3, Took

(* An SPDU that changes nothing the invariant looks at.                    *)
LEMMA DoneIdle ==
    ASSUME TypeOK, NEW s \in Side, Readable(s), NEW b, b.spdu = sb2spkt(sb[s]).spdu,
           Done(s, b), b.mode = sb[s].mode,
           b.owned = sb[s].owned, b.rs = sb[s].rs, b.rsn = sb[s].rsn, b.rsettings = sb[s].rsettings,
           \A f \in {"RS", "RA", "AI", "AIA", "RELEASE"} : f \in b.flags <=> f \in sb[s].flags
    PROVE  Step(s)
<1>1. sb'[s] = b /\ Still(Peer(s)) /\ Kept(0, Ahead(s), Ahead(s)')
  BY DoneView
<1>2. SameSide(s)
  BY <1>1 DEF SameSide, SameTokens, SameWord, Committed, Flagged, SameFlags
<1> QED BY <1>1, <1>2 DEF Step, Passes, Still

(* A block that is freed is not live.                                      *)
LEMMA FreedNotLive ==
    ASSUME TypeOK, NEW s \in Side, NEW mode \in {"released", "aborted"},
           NEW qs, freesblk(s, mode, qs)
    PROVE  ~BothLive'
<1>1. sb'[s].mode = mode
  BY DEF freesblk, Freed, newsblk, TypeOK
<1> QED BY <1>1 DEF BothLive, Live

(* A provider that aborts is not live.                                     *)
LEMMA AbortNotLive == ASSUME TypeOK, NEW s \in Side, ProtocolAbort(s) PROVE ~BothLive'
BY FreedNotLive DEF ProtocolAbort

(* The SPDUs SReadRequestAux reads.                                        *)
LEMMA RecvSteps ==
    ASSUME TypeOK, BothLive, BothLive', NEW s \in Side, Readable(s),
           \/ Drop(s) \/ RecvData(s) \/ RecvGT(s) \/ RecvEX(s) \/ RecvCD(s)
           \/ RecvGTC(s) \/ RecvGTA(s) \/ RecvMAP(s) \/ RecvMAA(s) \/ RecvMIP(s)
           \/ RecvMIA(s) \/ RecvRS(s) \/ RecvRA(s) \/ RecvPR(s) \/ RecvED(s)
           \/ RecvAS(s) \/ RecvAI(s) \/ RecvAIA(s) \/ RecvFN(s)
    PROVE  Step(s)
<1> DEFINE m == Incoming(s)
           b == Taken(s)
           p == Peer(s)
<1>b. b \in Ssapblk /\ m \in SpduSet
  BY IncomingTyped
<1>t. /\ b.owned = sb[s].owned /\ b.flags = sb[s].flags /\ b.rs = sb[s].rs
      /\ b.rsn = sb[s].rsn /\ b.rsettings = sb[s].rsettings
      /\ b.spdu = sb2spkt(sb[s]).spdu /\ b.mode = sb[s].mode
  BY TakenView
<1>i. ASSUME NEW x, Done(s, x), x.spdu = b.spdu /\ x.mode = b.mode, x.owned = b.owned, x.rs = b.rs,
             x.rsn = b.rsn /\ x.rsettings = b.rsettings,
             \A f \in {"RS", "RA", "AI", "AIA", "RELEASE"} : f \in x.flags <=> f \in b.flags
      PROVE  Step(s)
  BY <1>i, <1>t, DoneIdle
<1>v. ASSUME NEW x, Done(s, x), x.spdu = b.spdu /\ x.mode = b.mode, m.code # "EX"
      PROVE  sb'[s] = x /\ Still(p) /\ ReadsOff(s, m)
  BY <1>v, <1>t, DoneView
<1> HIDE DEF m, b, p
<1>1. CASE Done(s, b)
  BY <1>1, <1>i
<1>2. CASE Drop(s) \/ RecvData(s)
  BY <1>1, <1>2 DEF Drop, RecvData, b
<1>3. CASE RecvGT(s)
  <2> DEFINE x == [b EXCEPT !.owned = @ \cup m.tokens,
                            !.flags = IF "dat" \in m.tokens THEN @ \ {"ED"} ELSE @]
  <2>1. Done(s, b) \/ Done(s, x)
    BY <1>3 DEF RecvGT, b, m
  <2>2. m.code = "GT"
    BY <1>3 DEF RecvGT, Arrives, m
  <2>3. /\ x.owned = b.owned \cup m.tokens /\ x.rs = b.rs /\ x.rsn = b.rsn
        /\ x.rsettings = b.rsettings /\ x.spdu = b.spdu /\ x.mode = b.mode
        /\ \A f \in {"RS", "RA", "AI", "AIA", "RELEASE"} : f \in x.flags <=> f \in b.flags
    BY <1>b DEF Ssapblk
  <2>4. m.tokens \subseteq Tokens
    BY <1>b DEF SpduSet, SpduShape
  <2> HIDE DEF x
  <2>5. CASE Done(s, x)
    <3>1. sb'[s] = x /\ Still(p) /\ ReadsOff(s, m)
      BY <1>v, <2>2, <2>3, <2>5
    <3>2. Gains(s, m)
      BY <1>t, <2>2, <2>3, <2>4, <3>1
         DEF Gains, GiftCode, Carries, SameFlags, SameWord, Committed, Flagged, p
    <3> QED BY <1>b, <3>2 DEF Step
  <2> QED BY <1>1, <2>1, <2>5
<1>4. CASE RecvEX(s)
  <2> DEFINE x == [b EXCEPT !.xspdu = TRUE]
  <2>1. Done(s, b) \/ Done(s, x)
    BY <1>4, AbortNotLive DEF RecvEX, b
  <2>2. /\ x.owned = b.owned /\ x.rs = b.rs /\ x.rsn = b.rsn
        /\ x.rsettings = b.rsettings /\ x.spdu = b.spdu /\ x.mode = b.mode /\ x.flags = b.flags
    BY <1>b DEF Ssapblk
  <2> HIDE DEF x
  <2> QED BY <1>1, <1>i, <2>1, <2>2
<1>5. ASSUME NEW fs, Done(s, [b EXCEPT !.flags = fs]),
             \A f \in {"RS", "RA", "AI", "AIA", "RELEASE"} : f \in fs <=> f \in b.flags
      PROVE  Step(s)
  <2> DEFINE x == [b EXCEPT !.flags = fs]
  <2>1. /\ x.owned = b.owned /\ x.rs = b.rs /\ x.rsn = b.rsn
        /\ x.rsettings = b.rsettings /\ x.spdu = b.spdu /\ x.mode = b.mode /\ x.flags = fs
    BY <1>b DEF Ssapblk
  <2>2. Done(s, x)
    BY <1>5
  <2> HIDE DEF x
  <2> QED BY <1>i, <1>5, <2>1, <2>2
<1>6. CASE RecvCD(s)
  <2> DEFINE fs == IF m.code = "CD" THEN b.flags \cup {"CDA"} ELSE b.flags \ {"CD"}
  <2>1. Done(s, [b EXCEPT !.flags = fs])
    BY <1>6, Zenon DEF RecvCD, b, m
  <2> QED BY <1>5, <2>1
<1>7. CASE RecvGTC(s)
  <2>1. CASE ~Done(s, b)
    <3> DEFINE x == [b EXCEPT !.owned = Tokens]
    <3>1. /\ m.code = "GTC" /\ sb' = [sb EXCEPT ![s] = x]
          /\ net' = [net EXCEPT ![s] = Rest(s), ![p] = Arriving(p, Append(@, Spdu("GTA")))]
      BY <1>7, <2>1 DEF RecvGTC, Arrives, b, m, p
    <3>2. /\ x.owned = Tokens /\ x.rs = b.rs /\ x.rsn = b.rsn
          /\ x.rsettings = b.rsettings /\ x.spdu = b.spdu /\ x.mode = b.mode
          /\ x.flags = b.flags
      BY <1>b DEF Ssapblk
    <3> HIDE DEF x
    <3>3. p \in Side /\ p # s /\ ~Closed(sb[p])
      BY LiveOpen DEF BothLive, Peer, Side, p
    <3>4. /\ sb'[s] = x /\ sb'[p] = sb[p]
          /\ net'[s] = Rest(s) /\ net'[p] = Append(net[p], Spdu("GTA"))
      BY <3>1, <3>3 DEF TypeOK, Arriving
    <3>5. Still(p)
      <4>1. Spdu("GTA") \in SpduSet /\ Spdu("GTA").code \notin Tracked
        BY Plain DEF Code, Tracked, Stirring, AskCode, AnswerCode, GiftCode
      <4>2. Joins(p, Spdu("GTA"))
        BY <3>3, <3>4, <4>1, AheadTyped, KeptSame, JoinsNet
      <4> QED BY <3>3, <3>4, <4>1, <4>2, JoinsUnseen, SameBlock DEF Still
    <3>6. ReadsOff(s, m)
      BY <1>t, <3>1, <3>2, <3>4, Took DEF m
    <3>7. Gains(s, m)
      <4>1. sb[s].owned \subseteq Tokens
        BY BlockTyped DEF TypeOK
      <4> QED BY <1>t, <3>1, <3>2, <3>4, <3>5, <3>6, <4>1
              DEF Gains, GiftCode, Carries, SameFlags, SameWord, Committed, Flagged, p
    <3> QED BY <1>b, <3>7 DEF Step
  <2> QED BY <1>1, <2>1
<1>8. CASE RecvGTA(s)
  <2>1. Done(s, [b EXCEPT !.flags = b.flags \ {"GTC"}])
    BY <1>8, Zenon DEF RecvGTA, b
  <2> QED BY <1>5, <2>1
<1>9. CASE RecvMAP(s)
  <2> DEFINE y == SyncPointOfPeer(b)
             fs == (y.flags \ {"Vnextact"}) \cup {"MAA", "AE"}
             gs == y.flags \cup {"MAA"} \cup
                                      (IF Needs("ACTIVITY") THEN {"Vnextact"} ELSE {})
             x1 == [y EXCEPT !.flags = fs]
             x2 == [y EXCEPT !.flags = gs]
  <2>1. Done(s, b) \/ Done(s, y) \/ Done(s, x1) \/ Done(s, x2)
    BY <1>9 DEF RecvMAP, b, m
  <2>2. /\ y \in Ssapblk /\ y.owned = b.owned /\ y.rs = b.rs /\ y.rsn = b.rsn
        /\ y.rsettings = b.rsettings
        /\ y.spdu = b.spdu /\ y.mode = b.mode /\ y.flags = b.flags
    BY <1>b, SyncPointTyped DEF SyncPointOfPeer, Ssapblk
  <2> HIDE DEF y
  <2>3. \A z : LET x == [y EXCEPT !.flags = z] IN
            /\ x.owned = y.owned /\ x.rs = y.rs /\ x.rsn = y.rsn
            /\ x.rsettings = y.rsettings /\ x.spdu = y.spdu /\ x.mode = y.mode /\ x.flags = z
    BY <2>2 DEF Ssapblk
  <2>4. \A f \in {"RS", "RA", "AI", "AIA", "RELEASE"} : (f \in fs <=> f \in b.flags)
                                              /\ (f \in gs <=> f \in b.flags)
    BY <2>2
  <2>5. /\ x1.owned = b.owned /\ x1.rs = b.rs /\ x1.rsn = b.rsn
        /\ x1.rsettings = b.rsettings /\ x1.spdu = b.spdu /\ x1.mode = b.mode
        /\ x2.owned = b.owned /\ x2.rs = b.rs /\ x2.rsn = b.rsn
        /\ x2.rsettings = b.rsettings /\ x2.spdu = b.spdu /\ x2.mode = b.mode
        /\ x1.flags = fs /\ x2.flags = gs
    BY <2>2, <2>3
  <2> HIDE DEF fs, gs, x1, x2
  <2>6. CASE Done(s, y)
    BY <1>i, <2>2, <2>6
  <2>7. CASE Done(s, x1)
    BY <1>i, <2>4, <2>5, <2>7
  <2>8. CASE Done(s, x2)
    BY <1>i, <2>4, <2>5, <2>8
  <2> QED BY <1>1, <2>1, <2>6, <2>7, <2>8
<1>10. CASE RecvMAA(s)
  <2> DEFINE x == [b EXCEPT !.V_A = b.V_M, !.V_R = b.V_M,
                            !.flags = ActivityAfterMajor(@) \ {"MAP", "AE"}]
  <2>1. Done(s, b) \/ Done(s, x)
    BY <1>10 DEF RecvMAA, b
  <2>2. /\ x.owned = b.owned /\ x.rs = b.rs /\ x.rsn = b.rsn
        /\ x.rsettings = b.rsettings /\ x.spdu = b.spdu /\ x.mode = b.mode
        /\ \A f \in {"RS", "RA", "AI", "AIA", "RELEASE"} : f \in x.flags <=> f \in b.flags
    BY <1>b DEF Ssapblk, ActivityAfterMajor
  <2> HIDE DEF x
  <2> QED BY <1>1, <1>i, <2>1, <2>2
<1>11. CASE RecvMIP(s)
  <2> DEFINE y == SyncPointOfPeer(b)
             x == [y EXCEPT !.flags = @ \cup {"Vsc"}]
  <2>1. Done(s, x)
    BY <1>11 DEF RecvMIP, b
  <2>2. /\ y \in Ssapblk /\ y.owned = b.owned /\ y.rs = b.rs /\ y.rsn = b.rsn
        /\ y.rsettings = b.rsettings
        /\ y.spdu = b.spdu /\ y.mode = b.mode /\ y.flags = b.flags
    BY <1>b, SyncPointTyped DEF SyncPointOfPeer, Ssapblk
  <2> HIDE DEF y
  <2>3. /\ x.owned = y.owned /\ x.rs = y.rs /\ x.rsn = y.rsn
        /\ x.rsettings = y.rsettings /\ x.spdu = y.spdu /\ x.mode = y.mode
        /\ x.flags = y.flags \cup {"Vsc"}
    BY <2>2 DEF Ssapblk
  <2> HIDE DEF x
  <2> QED BY <1>i, <2>1, <2>2, <2>3
<1>12. CASE RecvMIA(s)
  <2> DEFINE x == [b EXCEPT !.V_A = m.ssn]
  <2>1. Done(s, b) \/ Done(s, x)
    BY <1>12 DEF RecvMIA, b, m
  <2>2. /\ x.owned = b.owned /\ x.rs = b.rs /\ x.rsn = b.rsn
        /\ x.rsettings = b.rsettings /\ x.spdu = b.spdu /\ x.mode = b.mode /\ x.flags = b.flags
    BY <1>b DEF Ssapblk
  <2> HIDE DEF x
  <2> QED BY <1>1, <1>i, <2>1, <2>2
<1>c. m.code \in AskCode /\ ~CollisionDrops(s, sb[s], m) => ~Beats(s, m)
  BY <1>b DEF CollisionDrops, Beats, Has, Suspended, AskCode, Op, OpSsn
<1>13. CASE RecvRS(s)
  <2> DEFINE x == [b EXCEPT !.flags = (@ \ {"RS"}) \cup {"RA"}, !.rs = m.type,
                            !.rsn = m.ssn, !.rsettings = m.settings]
  <2>1. Done(s, b) \/ Done(s, x)
    BY <1>13 DEF RecvRS, b, m
  <2>2. m.code = "RS" /\ ~CollisionDrops(s, sb[s], m)
    BY <1>13 DEF RecvRS, Arrives, Dropped, m
  <2>3. /\ x.owned = b.owned /\ x.spdu = b.spdu /\ x.mode = b.mode
        /\ x.flags = (b.flags \ {"RS"}) \cup {"RA"}
        /\ x.rs = m.type /\ x.rsn = m.ssn /\ x.rsettings = m.settings
    BY <1>b DEF Ssapblk
  <2> HIDE DEF x
  <2>4. CASE Done(s, x)
    <3>1. sb'[s] = x /\ Still(p) /\ ReadsOff(s, m)
      BY <1>v, <2>2, <2>3, <2>4
    <3>2. Accepts(s, m)
      BY <1>c, <1>t, <2>2, <2>3, <3>1
         DEF Accepts, SameWord, Committed, AskCode, Op, SameFlags, Flagged, p
    <3> QED BY <1>b, <3>2 DEF Step
  <2> QED BY <1>1, <2>1, <2>4
<1>14. CASE RecvRA(s)
  <2> DEFINE y == Resynchronized(s, b, m.ssn, m.settings)
             x == [y EXCEPT !.flags = @ \ {"RS"}, !.rsettings = m.settings]
  <2>1. Done(s, x) /\ m.code = "RA"
    BY <1>14, Zenon DEF RecvRA, Arrives, b, m
  <2>2. y \in Ssapblk
    BY <1>b, ResynchronizedTyped DEF SpduSet, SpduShape
  <2>3. /\ y.owned = TokensOf(s, m.settings, b.owned) /\ y.flags = b.flags
        /\ y.spdu = b.spdu /\ y.mode = b.mode
    BY <1>b DEF Resynchronized, Ssapblk
  <2> HIDE DEF y
  <2>4. x.owned = y.owned /\ x.spdu = y.spdu /\ x.mode = y.mode /\ x.flags = y.flags \ {"RS"}
    BY <2>2 DEF Ssapblk
  <2> HIDE DEF x
  <2>5. m.settings \in FinalSettings => x.owned = {t \in Tokens : m.settings[t] = s}
    <3> SUFFICES ASSUME m.settings \in FinalSettings
                 PROVE  x.owned = {t \in Tokens : m.settings[t] = s}
      OBVIOUS
    <3>1. \A t \in Tokens : m.settings[t] # "call"
      BY DEF FinalSettings, Side
    <3>2. b.owned \subseteq Tokens
      BY <1>b, BlockTyped
    <3> QED BY <2>3, <2>4, <3>1, <3>2 DEF TokensOf
  <2>6. sb'[s] = x /\ Still(p) /\ ReadsOff(s, m)
    BY <1>v, <2>1, <2>3, <2>4
  <2>7. Settles(s, m)
    BY <1>t, <2>1, <2>3, <2>4, <2>5, <2>6
       DEF Settles, SameWord, Committed, SameFlags, Flagged, p
  <2> QED BY <1>b, <2>7 DEF Step
<1>15. CASE RecvPR(s)
  <2> DEFINE x == [b EXCEPT !.pr = m.type,
                            !.flags = IF m.type = "RS" THEN @ \ {"ED"} ELSE @]
  <2>1. Done(s, x)
    BY <1>15 DEF RecvPR, b, m
  <2>2. /\ x.owned = b.owned /\ x.rs = b.rs /\ x.rsn = b.rsn
        /\ x.rsettings = b.rsettings /\ x.spdu = b.spdu /\ x.mode = b.mode
        /\ \A f \in {"RS", "RA", "AI", "AIA", "RELEASE"} : f \in x.flags <=> f \in b.flags
    BY <1>b DEF Ssapblk
  <2> HIDE DEF x
  <2> QED BY <1>i, <2>1, <2>2
<1>16. CASE RecvED(s)
  <2> DEFINE fs == IF Owns(sb[s], "dat") THEN b.flags \cup {"EDACK"} ELSE b.flags
  <2>1. Done(s, [b EXCEPT !.flags = fs])
    BY <1>16, Zenon DEF RecvED, b
  <2> QED BY <1>5, <2>1
<1>17. CASE RecvAS(s)
  <2> DEFINE x == InActivity(b, m.ssn + 1)
  <2>1. Done(s, b) \/ Done(s, x)
    BY <1>17 DEF RecvAS, b, m
  <2>2. /\ x.owned = b.owned /\ x.rs = b.rs /\ x.rsn = b.rsn
        /\ x.rsettings = b.rsettings /\ x.spdu = b.spdu /\ x.mode = b.mode
        /\ x.flags = b.flags \cup {"Vact"}
    BY <1>b DEF InActivity, Ssapblk
  <2> HIDE DEF x
  <2> QED BY <1>1, <1>i, <2>1, <2>2
<1>18. CASE RecvAI(s)
  <2> DEFINE x == [b EXCEPT !.flags = (@ \ {"RS", "RA"}) \cup {"AIA"}, !.rs = "intr"]
  <2>1. Done(s, b) \/ Done(s, x)
    BY <1>18 DEF RecvAI, b
  <2>2. m.code \in {"AI", "AD"} /\ ~CollisionDrops(s, sb[s], m)
    BY <1>18 DEF RecvAI, Arrives, Dropped, m
  <2>3. /\ x.owned = b.owned /\ x.spdu = b.spdu /\ x.mode = b.mode /\ x.rs = "intr"
        /\ x.flags = (b.flags \ {"RS", "RA"}) \cup {"AIA"}
    BY <1>b DEF Ssapblk
  <2> HIDE DEF x
  <2>4. CASE Done(s, x)
    <3>1. sb'[s] = x /\ Still(p) /\ ReadsOff(s, m)
      BY <1>v, <2>2, <2>3, <2>4
    <3>2. Accepts(s, m)
      BY <1>c, <1>t, <2>2, <2>3, <3>1
         DEF Accepts, SameWord, Committed, AskCode, SameFlags, Flagged, p
    <3> QED BY <1>b, <3>2 DEF Step
  <2> QED BY <1>1, <2>1, <2>4
<1>19. CASE RecvAIA(s)
  <2> DEFINE x == [b EXCEPT !.flags = @ \ {"AI", "Vact"}, !.owned = Tokens]
  <2>1. (Done(s, b) \/ Done(s, x)) /\ m.code = "AIA"
    BY <1>19 DEF RecvAIA, Arrives, b, m
  <2>2. x.owned = Tokens /\ x.spdu = b.spdu /\ x.mode = b.mode /\ x.flags = b.flags \ {"AI", "Vact"}
    BY <1>b DEF Ssapblk
  <2> HIDE DEF x
  <2>3. CASE Done(s, x)
    <3>1. sb'[s] = x /\ Still(p) /\ ReadsOff(s, m)
      BY <1>v, <2>1, <2>2, <2>3
    <3>2. Settles(s, m)
      BY <1>t, <2>1, <2>2, <3>1 DEF Settles, SameWord, Committed, SameFlags, Flagged, p
    <3> QED BY <1>b, <3>2 DEF Step
  <2> QED BY <1>1, <2>1, <2>3
<1>20. CASE RecvFN(s)
  <2>1. Done(s, [b EXCEPT !.flags = b.flags \cup {"FINN"}])
    BY <1>20, Zenon DEF RecvFN, b
  <2> QED BY <1>5, <2>1
<1> QED
  BY <1>2, <1>3, <1>4, <1>6, <1>7, <1>8, <1>9, <1>10, <1>11, <1>12, <1>13, <1>14,
     <1>15, <1>16, <1>17, <1>18, <1>19, <1>20

(* A step changes one block only.                                          *)
LEMMA OwnBlock ==
    ASSUME TypeOK, NEW s \in Side, UserRequest(s) \/ UserResponse(s) \/ Read(s) \/ Timer(s)
    PROVE  sb'[Peer(s)] = sb[Peer(s)]
<1> DEFINE Own == \E b : sb' = [sb EXCEPT ![s] = b]
<1>1. SUFFICES Own
  BY DEF Peer, Side, TypeOK
<1>2. UNCHANGED sb => Own
  BY Zenon DEF TypeOK
<1>3. UserRequest(s) => Own
  BY <1>2, Zenon DEF UserRequest,
         SDataRequest, STypedRequest, SExpdRequest, SGTokenRequest, SPTokenRequest,
         SGControlRequest, SCapdRequest, SMinSyncRequest, SMinSyncResponse, SMajSyncRequest,
         SReSyncRequest, SUReportRequest, SActStartRequest, SActResumeRequest,
         SActIntrRequest, SActEndRequest, SUAbortRequest, SRelRequest, SMajSyncRequestAux,
         freesblk
<1>4. UserResponse(s) => Own
  BY <1>2, Zenon DEF UserResponse, SCapdResponse, SMajSyncResponse, SReSyncResponse,
         SActIntrResponse, SRelResponse, SRelRetryRequest
<1>5. Read(s) => Own
  BY <1>2, Zenon DEF Read, Drop, RecvData, RecvGT, RecvEX, RecvCD, RecvGTC, RecvGTA,
         RecvMAP, RecvMAA, RecvMIP, RecvMIA, RecvRS, RecvRA, RecvPR, RecvED, RecvAS, RecvAI,
         RecvAIA, RecvFN, RecvAB, RecvUnexpected, RecvTDISC, Drain, RelFN, RelDN, RelNF,
         RelRS, RelAB, RelUnexpected, Done, ProtocolAbort, freesblk
<1>6. Timer(s) => Own
  BY <1>2, Zenon DEF Timer, SRelTimeout, DrainTimeout, freesblk
<1> QED BY <1>3, <1>4, <1>5, <1>6

(* The SPDUs a release wait reads: an RS is put back in front.             *)
LEMMA RelSteps ==
    ASSUME TypeOK, BothLive, BothLive', NEW s \in Side,
           RelFN(s) \/ RelNF(s) \/ RelRS(s)
    PROVE  Step(s)
<1> DEFINE m == Incoming(s)
           c == sb2spkt(sb[s])
           p == Peer(s)
<1>r. Readable(s)
  BY DEF RelFN, RelNF, RelRS, Waits
<1>c. c \in Ssapblk /\ m \in SpduSet
  BY <1>r, IncomingTyped
<1>t. /\ c.owned = sb[s].owned /\ c.flags = sb[s].flags /\ c.rs = sb[s].rs
      /\ c.rsn = sb[s].rsn /\ c.rsettings = sb[s].rsettings
      /\ c.mode = sb[s].mode
  BY <1>r, TakenView
<1>p. p \in Side /\ p # s /\ ~Closed(sb[p])
  BY LiveOpen DEF BothLive, Peer, Side
<1> HIDE DEF p
<1>h. m.code # "EX" => Ahead(s) # <<>> /\ m = Ahead(s)[1]
  BY <1>r, HeadRead
<1>m. sb[s].mode = "waiting" /\ Committed(s)
  BY DEF RelFN, RelNF, RelRS, Waits, Committed
<1>1. CASE RelFN(s)
  <2> DEFINE d == Spdu("DN")
  <2>1. /\ sb' = [sb EXCEPT ![s] = c]
        /\ net' = [net EXCEPT ![s] = Rest(s), ![p] = Arriving(p, Append(@, d))]
    BY <1>1 DEF RelFN, p
  <2>2. d \in SpduSet /\ d.code = "DN"
    BY PlainSpdu DEF Code, Spdu
  <2> HIDE DEF d
  <2>3. /\ sb'[s] = c /\ sb'[p] = sb[p]
        /\ net'[s] = Rest(s) /\ net'[p] = Append(net[p], d)
    BY <1>p, <2>1 DEF TypeOK, Arriving
  <2>4. Joins(p, d)
    BY <1>p, <2>2, <2>3, AheadTyped, KeptSame, JoinsNet
  <2>5. Kept(0, Ahead(s), Ahead(s)')
    BY <1>r, <2>3, Took
  <2>6. SameSide(s) /\ SameSide(p)
    <3>1. SameSide(s)
      BY <1>t, <2>3 DEF SameSide, SameTokens, SameWord, Committed, Flagged, SameFlags
    <3> QED BY <2>3, <3>1, SameBlock
  <2>7. m.code = "FN"
    BY <1>1 DEF RelFN, Waits
  <2>8. Confirms(s, d)
    BY <1>h, <1>m, <2>2, <2>4, <2>5, <2>6, <2>7 DEF Confirms, p
  <2> QED BY <2>2, <2>8 DEF Step
<1>2. CASE RelNF(s)
  <2> DEFINE x == [c EXCEPT !.mode = "open"]
  <2>1. Done(s, x) /\ "rls" \in Tokens
    BY <1>2 DEF RelNF
  <2> HIDE DEF c
  <2>2. /\ x.owned = c.owned /\ x.rs = c.rs /\ x.rsn = c.rsn
        /\ x.rsettings = c.rsettings /\ x.spdu = c.spdu
        /\ x.flags = c.flags
    BY <1>c DEF Ssapblk
  <2> HIDE DEF x
  <2>3. sb'[s] = x /\ Still(p) /\ Kept(0, Ahead(s), Ahead(s)')
    BY <1>r, <2>1, <2>2, DoneView DEF c, p
  <2>4. SameTokens(s)
    BY <1>t, <2>2, <2>3 DEF SameTokens, SameFlags
  <2> QED BY <1>m, <2>1, <2>3, <2>4 DEF Step, Resumes, p
<1>3. CASE RelRS(s)
  <2> DEFINE x == [c EXCEPT !.mode = "open", !.spdu = <<m>>]
             h == sb[s].spdu
             n == net[s]
  <2>1. Done(s, x) /\ m.code = "RS"
    BY <1>3 DEF RelRS, Waits
  <2>2. /\ x.owned = c.owned /\ x.rs = c.rs /\ x.rsn = c.rsn
        /\ x.rsettings = c.rsettings /\ x.spdu = <<m>>
        /\ x.flags = c.flags
    <3> HIDE DEF c, m
    <3> QED BY <1>c DEF Ssapblk
  <2> HIDE DEF x
  <2>3. /\ sb'[s] = x /\ sb'[p] = sb[p] /\ net'[s] = Rest(s) /\ net'[p] = net[p]
    BY <1>p, <2>1 DEF Done, TypeOK
  <2>4. Ahead(s)' = <<m>> \o Rest(s) /\ Ahead(p)' = Ahead(p)
    BY <2>2, <2>3 DEF Ahead
  <2>5. h \in Seq(SpduSet) /\ n \in Seq(SpduSet)
    BY AheadTyped
  <2>6. ~XsduReady(sb[s])
    BY <2>1 DEF Incoming, Spdu
  <2>7. h = <<>> => Kept(0, Ahead(s), Ahead(s)')
    <3> SUFFICES ASSUME h = <<>> PROVE Kept(0, Ahead(s), Ahead(s)')
      OBVIOUS
    <3>1. n # <<>> /\ m = Head(n) /\ Rest(s) = Tail(n)
      BY <1>r, <2>6 DEF Readable, FromNet, Incoming, Rest
    <3>2. <<Head(n)>> \o Tail(n) = n /\ <<>> \o n = n
      BY <2>5, <3>1
    <3>3. Ahead(s)' = Ahead(s) /\ Ahead(s) \in Seq(SpduSet)
      BY <2>4, <3>1, <3>2, AheadTyped DEF Ahead
    <3> QED BY <3>3, KeptSame
  <2>8. h # <<>> => Kept(0, Ahead(s), Ahead(s)')
    <3> SUFFICES ASSUME h # <<>> PROVE Kept(0, Ahead(s), Ahead(s)')
      OBVIOUS
    <3>1. m = Head(h) /\ Rest(s) = n
      BY <2>6 DEF FromNet, Incoming, Rest
    <3>2. Ahead(s) = h \o n /\ Ahead(s)' = <<Head(h)>> \o n
      BY <2>4, <3>1 DEF Ahead
    <3> QED BY <2>5, <3>2, KeptFirst
  <2>9. Kept(0, Ahead(s), Ahead(s)')
    BY <2>7, <2>8
  <2>10. Still(p)
    BY <1>p, <2>3, <2>4, KeptSame, AheadTyped, SameBlock DEF Still
  <2>11. SameTokens(s)
    BY <1>t, <2>2, <2>3 DEF SameTokens, SameFlags
  <2> QED BY <1>h, <1>m, <2>1, <2>9, <2>10, <2>11 DEF Step, Stops, p
<1> QED BY <1>1, <1>2, <1>3

(* Every SPDU read is one of the steps.                                    *)
LEMMA ReadSteps ==
    ASSUME TypeOK, BothLive, BothLive', NEW s \in Side, Read(s)
    PROVE  Step(s)
<1>1. CASE Drain(s)
  BY <1>1 DEF Drain, BothLive, Live
<1>2. CASE RecvAB(s) \/ RelDN(s) \/ RelAB(s)
  BY <1>2, FreedNotLive DEF RecvAB, RelDN, RelAB
<1>3. CASE RecvUnexpected(s) \/ RelUnexpected(s)
  BY <1>3, AbortNotLive DEF RecvUnexpected, RelUnexpected
<1>4. CASE RecvTDISC(s)
  BY <1>4 DEF RecvTDISC, Freed, newsblk, TypeOK, BothLive, Live
<1>5. CASE RelFN(s) \/ RelNF(s) \/ RelRS(s)
  BY <1>5, RelSteps
<1>6. CASE \/ Drop(s) \/ RecvData(s) \/ RecvGT(s) \/ RecvEX(s) \/ RecvCD(s)
           \/ RecvGTC(s) \/ RecvGTA(s) \/ RecvMAP(s) \/ RecvMAA(s) \/ RecvMIP(s)
           \/ RecvMIA(s) \/ RecvRS(s) \/ RecvRA(s) \/ RecvPR(s) \/ RecvED(s)
           \/ RecvAS(s) \/ RecvAI(s) \/ RecvAIA(s) \/ RecvFN(s)
  <2>1. Readable(s)
    BY <1>6 DEF Drop, RecvData, RecvGT, RecvEX, RecvCD, RecvGTC, RecvGTA, RecvMAP, RecvMAA,
         RecvMIP, RecvMIA, RecvRS, RecvRA, RecvPR, RecvED, RecvAS, RecvAI, RecvAIA, RecvFN,
         Arrives, Reads
  <2> QED BY <1>6, <2>1, RecvSteps
<1> QED BY <1>1, <1>2, <1>3, <1>4, <1>5, <1>6 DEF Read

(* A connection that is closing at one end does not come back.             *)
LEMMA LiveBefore ==
    ASSUME TypeOK, Next, BothLive'
    PROVE  BothLive
<1>1. PICK s \in Side : UserRequest(s) \/ UserResponse(s) \/ Read(s) \/ Timer(s)
  BY DEF Next
<1>2. Peer(s) \in Side /\ Peer(s) # s /\ Side = {s, Peer(s)}
  BY DEF Peer, Side
<1>3. /\ UserRequest(s) => Live(s)
      /\ UserResponse(s) => Live(s)
  BY DEF UserRequest, UserResponse, Live,
         SDataRequest, STypedRequest, SExpdRequest, SGTokenRequest, SPTokenRequest,
         SGControlRequest, SCapdRequest, SMinSyncRequest, SMinSyncResponse, SMajSyncRequest,
         SReSyncRequest, SUReportRequest, SActStartRequest, SActResumeRequest,
         SActIntrRequest, SActEndRequest, SUAbortRequest, SRelRequest, SMajSyncRequestAux,
         SCapdResponse, SMajSyncResponse, SReSyncResponse, SActIntrResponse, SRelResponse,
         SRelRetryRequest, ssapPsig, ssapXsig, ssapRsig, ssapAsig, ssapFsig
<1>4. Read(s) => Live(s) \/ Drain(s)
  BY DEF Read, Drop, RecvData, RecvGT, RecvEX, RecvCD, RecvGTC, RecvGTA, RecvMAP, RecvMAA,
         RecvMIP, RecvMIA, RecvRS, RecvRA, RecvPR, RecvED, RecvAS, RecvAI, RecvAIA, RecvFN,
         RecvAB, RecvUnexpected, RecvTDISC, RelFN, RelDN, RelNF, RelRS, RelAB, RelUnexpected,
         Arrives, Reads, Waits, Live
<1>5. Timer(s) => Live(s) \/ DrainTimeout(s)
  BY DEF Timer, SRelTimeout, Live
<1>6. ~Drain(s) /\ ~DrainTimeout(s)
  <2>1. ~DrainTimeout(s)
    BY FreedNotLive DEF DrainTimeout
  <2>2. SUFFICES ASSUME Drain(s) PROVE FALSE
    BY <2>1
  <2>3. sb' = sb \/ sb' = [sb EXCEPT ![s] = Freed("released")]
    BY <2>2 DEF Drain
  <2>4. sb'[s].mode \in {"draining", "released"}
    BY <2>2, <2>3 DEF Drain, Freed, newsblk, TypeOK
  <2> QED BY <2>4 DEF BothLive, Live
<1>7. Live(s)
  BY <1>1, <1>3, <1>4, <1>5, <1>6
<1>8. sb'[Peer(s)] = sb[Peer(s)]
  BY <1>1, OwnBlock
<1>9. Live(Peer(s))
  BY <1>2, <1>8 DEF BothLive, Live
<1> QED BY <1>2, <1>7, <1>9 DEF BothLive

=============================================================================
