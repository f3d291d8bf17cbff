---------------------------- MODULE ReleaseProofs ----------------------------
(***************************************************************************)
(* A release is confirmed only to a user whose peer has given the          *)
(* connection up as well, for every choice of functional units, transport, *)
(* bounds and calls.                                                       *)
(*                                                                         *)
(* RelFN answers an FN without asking its user, because it takes the FN    *)
(* for one that crossed its own.  It may do so: whoever asks for release   *)
(* holds all tokens, so that two users ask at a time only when no token    *)
(* was negotiated, and an FN whose sender resumed the connection meanwhile *)
(* finds a reader that is short of a token, and not waiting.               *)
(***************************************************************************)
EXTENDS TokenProofs

(* Who asked for release holds every token.                                *)
CommitKept(s) == Committed(s) => ~Suspended(s) /\ sb[s].owned = Tokens

(* When s comes to read what is at place i it waits for the answer to a    *)
(* resynchronization, or is without a token.                               *)
Short(s, i) ==
    \/ Suspended(s) /\ NoneBefore(s, i, AnswerCode)
    \/ \E t \in Tokens :
          /\ Suspended(s)
          /\ \E j \in Place(s) :
                /\ j < i /\ Ahead(s)[j].code = "RA" /\ Ahead(s)[j].settings[t] # s
                /\ \A k \in Place(s) : j < k /\ k < i => ~Carries(Ahead(s)[k], t)
    \/ \E t \in Tokens :
          /\ ~Suspended(s) /\ t \notin sb[s].owned
          /\ \A k \in Place(s) : k < i => ~Carries(Ahead(s)[k], t)

(* The sender of the FN at place i still means it, or s will be short; any *)
(* ask s reads before it is one s will drop.                               *)
FnAt(s, i) ==
    /\ ~Asked(s)
    /\ \A j \in Place(s) : j < i /\ Ahead(s)[j].code \in AskCode =>
          Beats(s, Ahead(s)[j]) /\ NoneBefore(s, j, AnswerCode)
    /\ Committed(Peer(s)) \/ Short(s, i)

FnKept(s) == \A i \in Place(s) : Ahead(s)[i].code = "FN" => FnAt(s, i)

(* A DN that answers at once is an answer to two requests that crossed.    *)
DnKept(s) == \A i \in Place(s) : Ahead(s)[i].code = "DN" =>
    Committed(s) /\ Committed(Peer(s)) /\ Tokens = {}

RelKept(s) == CommitKept(s) /\ FnKept(s) /\ DnKept(s)

RelInv == BothLive => \A s \in Side : RelKept(s)

RelGood == \A x \in Side : RelKept(x)

-----------------------------------------------------------------------------
(* Queues.                                                                 *)

(* Up to place i all that matters was there before, in order: f says where.*)
Traced(x, i, f) ==
    \A k \in Place(x)' : ~(k > i) /\ Ahead(x)'[k].code \in Tracked =>
        /\ f[k] \in Place(x) /\ Ahead(x)'[k] = Ahead(x)[f[k]]
        /\ \A j \in Place(x)' : j > k /\ ~(j > i) /\ Ahead(x)'[j].code \in Tracked
              => f[j] > f[k]

(* The block of x is the same but for its tokens.                          *)
SameWait(x) == /\ sb'[x].rs = sb[x].rs /\ sb'[x].rsn = sb[x].rsn
               /\ SameFlags(x, {"RS", "RA", "AI", "AIA"})

LEMMA TracedBefore ==
    ASSUME NEW x, NEW i \in Place(x)', NEW f, Traced(x, i, f), Ahead(x)'[i].code = "FN"
    PROVE  /\ f[i] \in Place(x) /\ Ahead(x)[f[i]] = Ahead(x)'[i]
           /\ \A k \in Place(x)' : k < i /\ Ahead(x)'[k].code \in Tracked =>
                 f[k] \in Place(x) /\ f[k] < f[i] /\ Ahead(x)'[k] = Ahead(x)[f[k]]
           /\ \A j, k \in Place(x)' : j < i /\ k < j /\ Ahead(x)'[j].code \in Tracked
                                      /\ Ahead(x)'[k].code \in Tracked => f[k] < f[j]
<1>1. "FN" \in Tracked
  BY DEF Tracked
<1>2. i \in Int /\ ~(i > i) /\ \A k \in Place(x)' : k \in Int
  BY DEF Place
<1>3. \A k \in Place(x) : k \in Int
  BY DEF Place
<1>4. f[i] \in Place(x) /\ Ahead(x)[f[i]] = Ahead(x)'[i]
  BY <1>1, <1>2 DEF Traced
<1>5. ASSUME NEW k \in Place(x)', k < i, Ahead(x)'[k].code \in Tracked
      PROVE  f[k] \in Place(x) /\ f[k] < f[i] /\ Ahead(x)'[k] = Ahead(x)[f[k]]
  <2>1. ~(k > i) /\ i > k
    BY <1>2, <1>5
  <2>2. f[k] \in Place(x) /\ f[i] > f[k] /\ Ahead(x)'[k] = Ahead(x)[f[k]]
    BY <1>1, <1>2, <1>5, <2>1 DEF Traced
  <2> QED BY <1>3, <1>4, <2>2
<1>6. ASSUME NEW j \in Place(x)', NEW k \in Place(x)', j < i, k < j,
             Ahead(x)'[j].code \in Tracked, Ahead(x)'[k].code \in Tracked
      PROVE  f[k] < f[j]
  <2>1. ~(k > i) /\ ~(j > i) /\ j > k
    BY <1>2, <1>6
  <2>2. f[k] \in Place(x) /\ f[j] \in Place(x) /\ f[j] > f[k]
    BY <1>6, <2>1 DEF Traced
  <2> QED BY <1>3, <2>2
<1> QED BY <1>4, <1>5, <1>6

(* Who is short of a token stays so until it reads the FN.                 *)
LEMMA ShortMoves ==
    ASSUME Good, NEW x \in Side, NEW i \in Place(x)', NEW f, Traced(x, i, f),
           Ahead(x)'[i].code = "FN", SameWait(x), Short(x, f[i]),
           \A t \in sb'[x].owned : \/ t \in sb[x].owned
                                   \/ \E j \in Place(x) : j < f[i] /\ Carries(Ahead(x)[j], t)
    PROVE  Short(x, i)'
<1>1. /\ f[i] \in Place(x)
      /\ \A k \in Place(x)' : k < i /\ Ahead(x)'[k].code \in Tracked =>
            f[k] \in Place(x) /\ f[k] < f[i] /\ Ahead(x)'[k] = Ahead(x)[f[k]]
      /\ \A j, k \in Place(x)' : j < i /\ k < j /\ Ahead(x)'[j].code \in Tracked
                                 /\ Ahead(x)'[k].code \in Tracked => f[k] < f[j]
  BY TracedBefore
<1>2. Suspended(x)' <=> Suspended(x)
  BY DEF SameWait, SameFlags, Suspended
<1>3. /\ AnswerCode \subseteq Tracked
      /\ \A m, t : Carries(m, t) => m.code \in Tracked
      /\ "RA" \in AnswerCode
  BY DEF Tracked, Stirring, AnswerCode, GiftCode, Carries
<1>4. (\A k \in Place(x)' : k \in Int) /\ (\A k \in Place(x) : k \in Int)
  BY DEF Place
<1>5. CASE Suspended(x) /\ NoneBefore(x, f[i], AnswerCode)
  BY <1>1, <1>2, <1>3, <1>5 DEF Short, NoneBefore
<1>6. CASE \E t \in Tokens :
          /\ Suspended(x)
          /\ \E j \in Place(x) :
                /\ j < f[i] /\ Ahead(x)[j].code = "RA" /\ Ahead(x)[j].settings[t] # x
                /\ \A k \in Place(x) : j < k /\ k < f[i] => ~Carries(Ahead(x)[k], t)
  <2>1. PICK t \in Tokens, j \in Place(x) :
          /\ Suspended(x)
          /\ j < f[i] /\ Ahead(x)[j].code = "RA" /\ Ahead(x)[j].settings[t] # x
          /\ \A k \in Place(x) : j < k /\ k < f[i] => ~Carries(Ahead(x)[k], t)
    BY <1>6
  <2>2. CASE NoneBefore(x, i, AnswerCode)'
    BY <1>2, <2>1, <2>2 DEF Short
  <2>3. CASE ~NoneBefore(x, i, AnswerCode)'
    <3>1. PICK k \in Place(x)' : k < i /\ Ahead(x)'[k].code \in AnswerCode
      BY <2>3 DEF NoneBefore
    <3>2. f[k] \in Place(x) /\ Ahead(x)'[k] = Ahead(x)[f[k]]
      BY <1>1, <1>3, <3>1
    <3>3. NoneAfter(x, j, AnswerCode) /\ NoneAfter(x, f[k], AnswerCode)
      BY <1>3, <2>1, <3>1, <3>2 DEF Good, TokenKept, AnswerKept
    <3>4. f[k] = j
      BY <1>3, <1>4, <2>1, <3>1, <3>2, <3>3 DEF NoneAfter
    <3>5. \A h \in Place(x)' : k < h /\ h < i => ~Carries(Ahead(x)'[h], t)
      BY <1>1, <1>3, <2>1, <3>1, <3>4
    <3>6. Suspended(x)' /\ Ahead(x)'[k].code = "RA" /\ Ahead(x)'[k].settings[t] # x
      BY <1>2, <2>1, <3>2, <3>4
    <3> QED BY <3>1, <3>5, <3>6 DEF Short
  <2> QED BY <2>2, <2>3
<1>7. CASE \E t \in Tokens :
          /\ ~Suspended(x) /\ t \notin sb[x].owned
          /\ \A k \in Place(x) : k < f[i] => ~Carries(Ahead(x)[k], t)
  <2>1. PICK t \in Tokens :
          /\ ~Suspended(x) /\ t \notin sb[x].owned
          /\ \A k \in Place(x) : k < f[i] => ~Carries(Ahead(x)[k], t)
    BY <1>7
  <2>2. t \notin sb'[x].owned
    BY <2>1
  <2>3. \A k \in Place(x)' : k < i => ~Carries(Ahead(x)'[k], t)
    BY <1>1, <1>3, <2>1
  <2> QED BY <1>2, <2>1, <2>2, <2>3 DEF Short
<1> QED BY <1>5, <1>6, <1>7 DEF Short

(* What is true of an FN stays true while it comes nearer.                 *)
LEMMA FnMoves ==
    ASSUME Good, NEW x \in Side, FnKept(x), NEW i \in Place(x)', NEW f, Traced(x, i, f),
           Ahead(x)'[i].code = "FN", SameWait(x),
           Committed(Peer(x)) => Committed(Peer(x))' \/ Short(x, f[i]),
           \A t \in sb'[x].owned : \/ t \in sb[x].owned
                                   \/ \E j \in Place(x) : j < f[i] /\ Carries(Ahead(x)[j], t)
    PROVE  FnAt(x, i)'
<1>1. /\ f[i] \in Place(x) /\ Ahead(x)[f[i]] = Ahead(x)'[i]
      /\ \A k \in Place(x)' : k < i /\ Ahead(x)'[k].code \in Tracked =>
            f[k] \in Place(x) /\ f[k] < f[i] /\ Ahead(x)'[k] = Ahead(x)[f[k]]
      /\ \A j, k \in Place(x)' : j < i /\ k < j /\ Ahead(x)'[j].code \in Tracked
                                 /\ Ahead(x)'[k].code \in Tracked => f[k] < f[j]
  BY TracedBefore
<1>2. FnAt(x, f[i])
  BY <1>1 DEF FnKept
<1>3. AskCode \cup AnswerCode \subseteq Tracked
  BY DEF Tracked, Stirring
<1>4. ~Asked(x)'
  BY <1>2 DEF FnAt, Asked, Flagged, SameWait, SameFlags
<1>5. ASSUME NEW j \in Place(x)', j < i, Ahead(x)'[j].code \in AskCode
      PROVE  Beats(x, Ahead(x)[j])' /\ NoneBefore(x, j, AnswerCode)'
  <2>1. /\ f[j] \in Place(x) /\ f[j] < f[i] /\ Ahead(x)'[j] = Ahead(x)[f[j]]
        /\ Ahead(x)[f[j]].code \in AskCode
    BY <1>1, <1>3, <1>5
  <2>2. Beats(x, Ahead(x)[f[j]]) /\ NoneBefore(x, f[j], AnswerCode)
    BY <1>2, <2>1 DEF FnAt
  <2>3. Beats(x, Ahead(x)[j])'
    BY <2>1, <2>2 DEF Beats, SameWait, SameFlags, Suspended
  <2>4. ASSUME NEW k \in Place(x)', k < j PROVE Ahead(x)'[k].code \notin AnswerCode
    <3>1. k < i
      BY <1>5, <2>4 DEF Place
    <3>2. Ahead(x)'[k].code \in AnswerCode =>
            f[k] \in Place(x) /\ f[k] < f[j] /\ Ahead(x)'[k] = Ahead(x)[f[k]]
      BY <1>1, <1>3, <1>5, <2>4, <3>1
    <3> QED BY <2>2, <3>2 DEF NoneBefore
  <2> QED BY <2>3, <2>4 DEF NoneBefore
<1>6. Committed(Peer(x))' \/ Short(x, i)'
  BY <1>2, ShortMoves DEF FnAt
<1> QED BY <1>4, <1>5, <1>6 DEF FnAt

(* So of the FNs in a queue that is kept ...                               *)
LEMMA KeptFn ==
    ASSUME Good, NEW x \in Side, FnKept(x), Kept(0, Ahead(x), Ahead(x)'), SameWait(x),
           \/ Committed(Peer(x)) => Committed(Peer(x))'
           \/ \A i \in Place(x) : Ahead(x)[i].code = "FN" => Short(x, i),
           sb'[x].owned \subseteq sb[x].owned
    PROVE  FnKept(x)'
<1>1. PICK f : \A i \in Place(x)' : Ahead(x)'[i].code \in Tracked =>
          /\ f[i] \in Place(x) /\ f[i] > 0 /\ Ahead(x)'[i] = Ahead(x)[f[i]]
          /\ \A j \in Place(x)' : j > i /\ Ahead(x)'[j].code \in Tracked => f[j] > f[i]
  BY KeptTracked
<1> SUFFICES ASSUME NEW i \in Place(x)', Ahead(x)'[i].code = "FN"
             PROVE  FnAt(x, i)'
  BY DEF FnKept
<1>2. Traced(x, i, f)
  BY <1>1 DEF Traced
<1>3. f[i] \in Place(x) /\ Ahead(x)[f[i]].code = "FN"
  BY <1>1 DEF Tracked
<1> QED BY <1>2, <1>3, FnMoves

(* ... and of those that something joins.                                  *)
LEMMA JoinFn ==
    ASSUME Good, NEW x \in Side, FnKept(x), NEW m \in SpduSet, Joins(x, m), SameWait(x),
           Committed(Peer(x)) => Committed(Peer(x))',
           sb'[x].owned \subseteq sb[x].owned
    PROVE  \E l \in Place(x)' :
              /\ Ahead(x)'[l] = m
              /\ \A i \in Place(x)' : Ahead(x)'[i].code = "FN" /\ i # l => FnAt(x, i)'
<1>1. PICK f, l :
          /\ l \in Place(x)' /\ Ahead(x)'[l] = m /\ \A i \in Place(x)' : ~(i > l)
          /\ \A i \in Place(x)' : Ahead(x)'[i].code \in Tracked /\ i # l =>
              /\ f[i] \in Place(x) /\ Ahead(x)'[i] = Ahead(x)[f[i]] /\ i < l
              /\ \A j \in Place(x)' : j > i /\ j # l /\ Ahead(x)'[j].code \in Tracked
                   => f[j] > f[i]
  BY JoinTracked
<1>2. ASSUME NEW i \in Place(x)', Ahead(x)'[i].code = "FN", i # l
      PROVE  FnAt(x, i)'
  <2>1. i < l /\ i \in Int /\ l \in Int
    BY <1>1, <1>2 DEF Tracked, Place
  <2>2. \A k \in Place(x)' : ~(k > i) => k # l
    BY <2>1
  <2>3. Traced(x, i, f)
    BY <1>1, <2>2 DEF Traced
  <2> QED BY <1>2, <2>3, FnMoves
<1> QED BY <1>1, <1>2

(* A DN that was not sent in this step was there before.                   *)
LEMMA DnBefore ==
    ASSUME NEW x, \/ Kept(0, Ahead(x), Ahead(x)') \/ Kept(1, Ahead(x), Ahead(x)')
                  \/ \E m \in SpduSet : m.code # "DN" /\ Joins(x, m),
           NEW i \in Place(x)', Ahead(x)'[i].code = "DN"
    PROVE  \E j \in Place(x) : Ahead(x)[j].code = "DN"
<1>1. "DN" \in Tracked
  BY DEF Tracked
<1>2. ASSUME NEW n, Kept(n, Ahead(x), Ahead(x)')
      PROVE  \E j \in Place(x) : Ahead(x)[j].code = "DN"
  BY <1>1, <1>2, KeptTracked
<1>3. ASSUME NEW m \in SpduSet, m.code # "DN", Joins(x, m)
      PROVE  \E j \in Place(x) : Ahead(x)[j].code = "DN"
  BY <1>1, <1>3, JoinTracked
<1> QED BY <1>2, <1>3

(* It means what it meant.                                                 *)
LEMMA DnMoves ==
    ASSUME NEW x \in Side, DnKept(x),
           \/ Kept(0, Ahead(x), Ahead(x)') \/ Kept(1, Ahead(x), Ahead(x)')
           \/ \E m \in SpduSet : m.code # "DN" /\ Joins(x, m),
           /\ Committed(x) /\ Committed(Peer(x)) /\ Tokens = {}
                => Committed(x)' /\ Committed(Peer(x))'
    PROVE  DnKept(x)'
<1> SUFFICES ASSUME NEW i \in Place(x)', Ahead(x)'[i].code = "DN"
             PROVE  Committed(x)' /\ Committed(Peer(x))' /\ Tokens = {}
  BY DEF DnKept
<1>1. \E j \in Place(x) : Ahead(x)[j].code = "DN"
  BY DnBefore
<1> QED BY <1>1 DEF DnKept

-----------------------------------------------------------------------------
(* Each kind of step keeps it.                                             *)

(* What the steps do to the two ends.                                      *)
LEMMA SameFields ==
    ASSUME NEW x, SameTokens(x)
    PROVE  SameWait(x) /\ sb'[x].owned = sb[x].owned /\ (Suspended(x)' <=> Suspended(x))
BY DEF SameTokens, SameWait, SameFlags, Suspended

(* A side the step leaves as it was.                                       *)
LEMMA StillKept ==
    ASSUME NEW x \in Side, CommitKept(x), SameSide(x)
    PROVE  CommitKept(x)'
BY SameFields DEF SameSide, SameWord, CommitKept

LEMMA IdleRel ==
    ASSUME Good, RelGood, NEW s \in Side, Passes(s)
    PROVE  RelGood'
<1>1. \A x \in Side : Still(x)
  BY DEF Passes, Peer, Side
<1> SUFFICES ASSUME NEW x \in Side PROVE RelKept(x)'
  BY DEF RelGood
<1>2. /\ Peer(x) \in Side /\ SameTokens(x) /\ SameSide(x) /\ SameWord(x) /\ SameWord(Peer(x))
      /\ Kept(0, Ahead(x), Ahead(x)')
  BY <1>1, PeerSide DEF Still, SameSide
<1>3. RelKept(x)
  BY DEF RelGood
<1>4. CommitKept(x)'
  BY <1>2, <1>3, StillKept DEF RelKept
<1>5. FnKept(x)'
  BY <1>2, <1>3, SameFields, KeptFn DEF RelKept, SameWord
<1>6. DnKept(x)'
  BY <1>2, <1>3, DnMoves DEF RelKept, SameWord
<1> QED BY <1>4, <1>5, <1>6 DEF RelKept

(* Who gives, asks or answers has not asked for release.                   *)
LEMMA SendsRel ==
    ASSUME Good, RelGood, NEW s \in Side, NEW m \in SpduSet,
           m.code \notin {"FN", "DN"}, ~Committed(s), ~Committed(s)',
           Kept(0, Ahead(s), Ahead(s)'), SameSide(Peer(s)), Joins(Peer(s), m), FnKept(s)'
    PROVE  RelGood'
<1> DEFINE p == Peer(s)
<1>1. p \in Side /\ Peer(p) = s /\ Side = {s, p}
  BY DEF Peer, Side
<1>2. RelKept(s) /\ RelKept(p)
  BY <1>1 DEF RelGood
<1>3. SameTokens(p) /\ SameWord(p)
  BY DEF SameSide
<1> HIDE DEF p
<1>4. CommitKept(s)' /\ CommitKept(p)'
  BY <1>1, <1>2, StillKept DEF RelKept, CommitKept, p
<1>5. FnKept(p)'
  <2>1. SameWait(p) /\ sb'[p].owned \subseteq sb[p].owned
    BY <1>3, SameFields
  <2>2. PICK l \in Place(p)' :
          /\ Ahead(p)'[l] = m
          /\ \A i \in Place(p)' : Ahead(p)'[i].code = "FN" /\ i # l => FnAt(p, i)'
    BY <1>1, <1>2, <2>1, JoinFn DEF RelKept, p
  <2> QED BY <2>2 DEF FnKept
<1>6. DnKept(s)' /\ DnKept(p)'
  BY <1>1, <1>2, DnMoves DEF RelKept, p
<1> QED BY <1>1, <1>2, <1>4, <1>5, <1>6 DEF RelGood, RelKept

LEMMA GivesRel ==
    ASSUME Good, RelGood, NEW s \in Side, NEW m \in SpduSet, Gives(s, m)
    PROVE  RelGood'
<1>1. Peer(s) \in Side /\ SameWord(Peer(s)) /\ FnKept(s)
  BY PeerSide DEF Gives, SameSide, RelGood, RelKept
<1>2. FnKept(s)'
  <2>1. SameWait(s) /\ sb'[s].owned \subseteq sb[s].owned
    BY DEF Gives, SameWait
  <2> QED BY <1>1, <2>1, KeptFn DEF Gives, SameWord
<1> QED BY <1>2, SendsRel DEF Gives, GiftCode

(* Who asks has just become one that waits for an answer: it is short of   *)
(* its tokens until then, and has no ask of the peer's to read.            *)
LEMMA AsksRel ==
    ASSUME Good, RelGood, NEW s \in Side, NEW m \in SpduSet, Asks(s, m)
    PROVE  RelGood'
<1>1. Peer(s) \in Side /\ SameWord(Peer(s)) /\ FnKept(s)
  BY PeerSide DEF Asks, SameSide, RelGood, RelKept
<1>2. /\ NoneOf(s, AnswerCode)
      /\ Suspended(s)' /\ ~Asked(s)'
  <2>1. ~Flagged(s, "AIA")'
    BY DEF Asks, SameFlags, Flagged
  <2> QED BY <2>1, Unsuspended DEF Asks, StandsBy, Suspended, Flagged, Asked
<1>3. PICK f : \A i \in Place(s)' : Ahead(s)'[i].code \in Tracked =>
          /\ f[i] \in Place(s) /\ f[i] > 0 /\ Ahead(s)'[i] = Ahead(s)[f[i]]
          /\ \A j \in Place(s)' : j > i /\ Ahead(s)'[j].code \in Tracked => f[j] > f[i]
  BY KeptTracked DEF Asks
<1>4. NoneOf(s, AnswerCode)'
  BY <1>2, <1>3 DEF NoneOf, Tracked, Stirring
<1>5. ASSUME NEW i \in Place(s)', Ahead(s)'[i].code = "FN"
      PROVE  FnAt(s, i)'
  <2>1. Traced(s, i, f)
    BY <1>3 DEF Traced
  <2>2. /\ f[i] \in Place(s) /\ Ahead(s)[f[i]] = Ahead(s)'[i]
        /\ \A k \in Place(s)' : k < i /\ Ahead(s)'[k].code \in Tracked =>
              f[k] \in Place(s) /\ f[k] < f[i] /\ Ahead(s)'[k] = Ahead(s)[f[k]]
    BY <1>5, <2>1, TracedBefore
  <2>3. FnAt(s, f[i])
    BY <1>1, <1>5, <2>2 DEF FnKept
  <2>4. \A j \in Place(s)' : j < i => Ahead(s)'[j].code \notin AskCode
    BY <2>2, <2>3 DEF FnAt, Beats, Asks, Tracked, Stirring
  <2>5. Short(s, i)'
    BY <1>2, <1>4 DEF Short, NoneOf, NoneBefore
  <2> QED BY <1>2, <2>4, <2>5 DEF FnAt
<1>6. FnKept(s)'
  BY <1>5 DEF FnKept
<1> QED BY <1>6, SendsRel DEF Asks, AskCode

(* Who is asked has read all the peer sent that matters.                   *)
LEMMA RepliesRel ==
    ASSUME Good, RelGood, NEW s \in Side, NEW m \in SpduSet, Replies(s, m)
    PROVE  RelGood'
<1>1. Asked(s) /\ FnKept(s)
  BY DEF Replies, Asked, RelGood, RelKept
<1>2. \A i \in Place(s) : Ahead(s)[i].code # "FN"
  BY <1>1 DEF FnKept, FnAt
<1>3. FnKept(s)'
  <2>1. \A i \in Place(s)' : Ahead(s)'[i].code # "FN"
    BY <1>2, KeptTracked DEF Replies, Tracked
  <2> QED BY <2>1 DEF FnKept
<1> QED BY <1>3, SendsRel DEF Replies

(* Reading changes one end and takes the head of its queue.                *)
LEMMA ReadsRel ==
    ASSUME Good, RelGood, NEW s \in Side, NEW m \in SpduSet, ReadsOff(s, m),
           SameWord(s), Still(Peer(s)), CommitKept(s)', FnKept(s)'
    PROVE  RelGood'
<1> DEFINE p == Peer(s)
<1>1. p \in Side /\ Peer(p) = s /\ Side = {s, p}
  BY DEF Peer, Side
<1>2. RelKept(s) /\ RelKept(p)
  BY <1>1 DEF RelGood
<1>3. SameSide(p) /\ SameTokens(p) /\ SameWord(p) /\ Kept(0, Ahead(p), Ahead(p)')
  BY DEF Still, SameSide
<1> HIDE DEF p
<1>4. CommitKept(p)'
  BY <1>1, <1>2, <1>3, StillKept DEF RelKept
<1>5. FnKept(p)'
  BY <1>1, <1>2, <1>3, SameFields, KeptFn DEF RelKept, SameWord
<1>6. DnKept(s)' /\ DnKept(p)'
  BY <1>1, <1>2, <1>3, DnMoves DEF RelKept, ReadsOff, SameWord, p
<1> QED BY <1>1, <1>2, <1>4, <1>5, <1>6 DEF RelGood, RelKept

(* The head of the queue, and where the rest was.                          *)
LEMMA ReadsTracked ==
    ASSUME TypeOK, NEW s \in Side, NEW m \in SpduSet, ReadsOff(s, m)
    PROVE  /\ 1 \in Place(s) /\ Ahead(s)[1] = m
           /\ \E f : \A i \in Place(s)' : Ahead(s)'[i].code \in Tracked =>
                 /\ f[i] \in Place(s) /\ 1 < f[i] /\ Ahead(s)'[i] = Ahead(s)[f[i]]
                 /\ \A j \in Place(s)' : j > i /\ Ahead(s)'[j].code \in Tracked => f[j] > f[i]
<1>1. Ahead(s) \in Seq(SpduSet) /\ Ahead(s) # <<>> /\ Ahead(s)[1] = m
  BY AheadTyped DEF ReadsOff
<1>2. 1 \in Place(s)
  BY <1>1 DEF Place
<1>3. PICK f : \A i \in Place(s)' : Ahead(s)'[i].code \in Tracked =>
          /\ f[i] \in Place(s) /\ f[i] > 1 /\ Ahead(s)'[i] = Ahead(s)[f[i]]
          /\ \A j \in Place(s)' : j > i /\ Ahead(s)'[j].code \in Tracked => f[j] > f[i]
  BY KeptTracked DEF ReadsOff
<1>4. \A i \in Place(s) : i > 1 => 1 < i
  BY DEF Place
<1> QED BY <1>1, <1>2, <1>3, <1>4

(* A gift that is read was one the FN behind it was waiting for.           *)
LEMMA GainsRel ==
    ASSUME TypeOK, Good, RelGood, NEW s \in Side, NEW m \in SpduSet, Gains(s, m)
    PROVE  RelGood'
<1>1. Peer(s) \in Side /\ SameWord(Peer(s)) /\ FnKept(s) /\ CommitKept(s)
  BY PeerSide DEF Gains, Still, SameSide, RelGood, RelKept
<1>2. SameWait(s) /\ (Suspended(s)' <=> Suspended(s))
  BY DEF Gains, SameWait, SameFlags, Suspended
<1>3. CommitKept(s)'
  BY <1>1, <1>2 DEF Gains, CommitKept, SameWord
<1>4. ASSUME NEW i \in Place(s)', Ahead(s)'[i].code = "FN"
      PROVE  FnAt(s, i)'
  <2>1. 1 \in Place(s) /\ Ahead(s)[1] = m
    BY ReadsTracked DEF Gains
  <2>2. PICK f : \A k \in Place(s)' : Ahead(s)'[k].code \in Tracked =>
          /\ f[k] \in Place(s) /\ 1 < f[k] /\ Ahead(s)'[k] = Ahead(s)[f[k]]
          /\ \A j \in Place(s)' : j > k /\ Ahead(s)'[j].code \in Tracked => f[j] > f[k]
    BY ReadsTracked DEF Gains
  <2>3. Traced(s, i, f) /\ 1 < f[i]
    BY <1>4, <2>2 DEF Traced, Tracked
  <2>4. \A t \in sb'[s].owned : \/ t \in sb[s].owned
                                \/ \E j \in Place(s) : j < f[i] /\ Carries(Ahead(s)[j], t)
    BY <2>1, <2>3 DEF Gains
  <2> QED BY <1>1, <1>2, <1>4, <2>3, <2>4, FnMoves DEF SameWord
<1>5. FnKept(s)'
  BY <1>4 DEF FnKept
<1> QED BY <1>3, <1>5, ReadsRel DEF Gains

(* No FN is behind an ask that is accepted.                                *)
LEMMA AcceptsRel ==
    ASSUME TypeOK, Good, RelGood, NEW s \in Side, NEW m \in SpduSet, Accepts(s, m)
    PROVE  RelGood'
<1>1. FnKept(s) /\ CommitKept(s)
  BY DEF RelGood, RelKept
<1>2. CommitKept(s)'
  BY <1>1 DEF Accepts, CommitKept, SameWord, Suspended, SameFlags, Flagged
<1>3. ASSUME NEW i \in Place(s)' PROVE Ahead(s)'[i].code # "FN"
  <2>1. 1 \in Place(s) /\ Ahead(s)[1] = m
    BY ReadsTracked DEF Accepts
  <2>2. PICK f : \A k \in Place(s)' : Ahead(s)'[k].code \in Tracked =>
          f[k] \in Place(s) /\ 1 < f[k] /\ Ahead(s)'[k] = Ahead(s)[f[k]]
    BY ReadsTracked DEF Accepts
  <2>3. Ahead(s)'[i].code = "FN" => FnAt(s, f[i]) /\ 1 < f[i]
    BY <1>1, <2>2 DEF FnKept, Tracked
  <2> QED BY <2>1, <2>3 DEF FnAt, Accepts
<1>4. FnKept(s)'
  BY <1>3 DEF FnKept
<1> QED BY <1>2, <1>4, ReadsRel DEF Accepts

(* The answer leaves its reader short of the token it was to lack.         *)
LEMMA SettlesRel ==
    ASSUME TypeOK, Good, RelGood, NEW s \in Side, NEW m \in SpduSet, Settles(s, m)
    PROVE  RelGood'
<1> DEFINE p == Peer(s)
<1>1. p \in Side /\ SameWord(p) /\ FnKept(s) /\ CommitKept(s) /\ TokenKept(s)
  BY PeerSide DEF Settles, Still, SameSide, RelGood, RelKept, Good
<1> HIDE DEF p
<1>2. 1 \in Place(s) /\ Ahead(s)[1] = m
  BY ReadsTracked DEF Settles
<1>3. PICK f : \A k \in Place(s)' : Ahead(s)'[k].code \in Tracked =>
          /\ f[k] \in Place(s) /\ 1 < f[k] /\ Ahead(s)'[k] = Ahead(s)[f[k]]
          /\ \A j \in Place(s)' : j > k /\ Ahead(s)'[j].code \in Tracked => f[j] > f[k]
  BY ReadsTracked DEF Settles
<1>4. /\ m.code \in AnswerCode /\ NoneAfter(s, 1, AnswerCode) /\ Suspended(s)
      /\ m.code = "RA" => m.settings \in FinalSettings
  <2>1. m.code \in AnswerCode
    BY DEF Settles, AnswerCode
  <2> QED BY <1>1, <1>2, <2>1 DEF TokenKept, AnswerKept, Suspended, Flagged, AnswerCode
<1>5. CommitKept(s)'
  BY <1>1, <1>4 DEF Settles, CommitKept, SameWord
<1>6. ASSUME NEW i \in Place(s)', Ahead(s)'[i].code = "FN"
      PROVE  FnAt(s, i)'
  <2>1. Traced(s, i, f)
    BY <1>3 DEF Traced
  <2>2. /\ f[i] \in Place(s) /\ Ahead(s)[f[i]] = Ahead(s)'[i]
        /\ \A k \in Place(s)' : k < i /\ Ahead(s)'[k].code \in Tracked =>
              f[k] \in Place(s) /\ f[k] < f[i] /\ Ahead(s)'[k] = Ahead(s)[f[k]]
    BY <1>6, <2>1, TracedBefore
  <2>3. FnAt(s, f[i]) /\ 1 < f[i]
    BY <1>1, <1>3, <1>6, <2>2 DEF FnKept, Tracked
  <2>4. ~Asked(s)'
    <3>1. ~Asked(s)
      BY <2>3 DEF FnAt
    <3> QED BY <3>1 DEF Settles, SameFlags, Asked, Flagged
  <2>5. ASSUME NEW j \in Place(s)', j < i PROVE Ahead(s)'[j].code \notin AskCode
    <3>1. SUFFICES ASSUME Ahead(s)'[j].code \in AskCode PROVE FALSE
      OBVIOUS
    <3>2. f[j] \in Place(s) /\ f[j] < f[i] /\ 1 < f[j] /\ Ahead(s)[f[j]].code \in AskCode
      BY <1>3, <2>2, <2>5, <3>1 DEF Tracked, Stirring
    <3>3. NoneBefore(s, f[j], AnswerCode)
      BY <2>3, <3>2 DEF FnAt
    <3> QED BY <1>2, <1>4, <3>2, <3>3 DEF NoneBefore
  <2>6. ASSUME ~Committed(p) PROVE Short(s, i)'
    <3>1. Short(s, f[i])
      BY <2>3, <2>6 DEF FnAt, p
    <3>2. ~NoneBefore(s, f[i], AnswerCode)
      BY <1>2, <1>4, <2>3 DEF NoneBefore
    <3>3. PICK t \in Tokens, j \in Place(s) :
            /\ j < f[i] /\ Ahead(s)[j].code = "RA" /\ Ahead(s)[j].settings[t] # s
            /\ \A k \in Place(s) : j < k /\ k < f[i] => ~Carries(Ahead(s)[k], t)
      BY <1>4, <3>1, <3>2 DEF Short
    <3>4. j = 1
      <4>1. ~(j > 1)
        BY <1>4, <3>3 DEF NoneAfter, AnswerCode
      <4> QED BY <4>1 DEF Place
    <3>5. m.code = "RA" /\ m.settings[t] # s /\ t \notin sb'[s].owned
      BY <1>2, <1>4, <3>3, <3>4 DEF Settles
    <3>6. ~Suspended(s)'
      BY <1>1, <1>2, <1>4, <3>5
         DEF Settles, TokenKept, AnswerKept, FlagsApart, Suspended, SameFlags, Flagged
    <3>7. \A k \in Place(s)' : k < i => ~Carries(Ahead(s)'[k], t)
      BY <1>3, <2>2, <3>3, <3>4 DEF Carries, Tracked, Stirring, GiftCode
    <3> QED BY <3>5, <3>6, <3>7 DEF Short
  <2> QED BY <1>1, <2>4, <2>5, <2>6 DEF FnAt, SameWord, p
<1>7. FnKept(s)'
  BY <1>6 DEF FnKept
<1> QED BY <1>5, <1>7, ReadsRel DEF Settles

(* A request for release comes from who holds all tokens: no ask of its    *)
(* own is left that could matter.                                          *)
LEMMA FinishesRel ==
    ASSUME Good, RelGood, NEW s \in Side, NEW m \in SpduSet, Finishes(s, m)
    PROVE  RelGood'
<1> DEFINE p == Peer(s)
<1>1. p \in Side /\ Peer(p) = s /\ Side = {s, p}
  BY DEF Peer, Side
<1>2. RelKept(s) /\ RelKept(p)
  BY <1>1 DEF RelGood
<1>3. /\ SameTokens(p) /\ SameWord(p) /\ SameTokens(s) /\ SameSide(p)
      /\ SameWait(p) /\ SameWait(s)
  BY SameFields DEF Finishes, SameSide
<1>4. /\ ~Asked(p)
      /\ \A i \in Place(p) : Ahead(p)[i].code \in AskCode =>
            Beats(p, Ahead(p)[i]) /\ NoneBefore(p, i, AnswerCode)
  BY Unsuspended DEF Finishes
<1> HIDE DEF p
<1>5. CommitKept(s)' /\ CommitKept(p)'
  BY <1>1, <1>2, <1>3, SameFields, StillKept DEF RelKept, CommitKept, Finishes
<1>6. FnKept(s)'
  <2>1. sb'[s].owned \subseteq sb[s].owned
    BY <1>3, SameFields
  <2>2. Committed(Peer(s)) => Committed(Peer(s))'
    BY <1>3 DEF SameWord, p
  <2> QED BY <1>1, <1>2, <1>3, <2>1, <2>2, KeptFn DEF RelKept, Finishes
<1>7. ASSUME NEW i \in Place(p)', Ahead(p)'[i].code = "FN"
      PROVE  FnAt(p, i)'
  <2>1. PICK f, l :
          /\ l \in Place(p)' /\ Ahead(p)'[l] = m /\ \A h \in Place(p)' : ~(h > l)
          /\ \A h \in Place(p)' : Ahead(p)'[h].code \in Tracked /\ h # l =>
              /\ f[h] \in Place(p) /\ Ahead(p)'[h] = Ahead(p)[f[h]] /\ h < l
              /\ \A j \in Place(p)' : j > h /\ j # l /\ Ahead(p)'[j].code \in Tracked
                   => f[j] > f[h]
    BY JoinTracked DEF Finishes, p
  <2>2. ~Asked(p)'
    BY <1>3, <1>4 DEF Asked, Flagged, SameWait, SameFlags
  <2>3. ASSUME NEW j \in Place(p)', j < i, Ahead(p)'[j].code \in AskCode
        PROVE  Beats(p, Ahead(p)[j])' /\ NoneBefore(p, j, AnswerCode)'
    <3>1. j # l
      BY <2>1, <2>3 DEF Finishes, AskCode
    <3>2. f[j] \in Place(p) /\ Ahead(p)'[j] = Ahead(p)[f[j]] /\ j < l
      BY <2>1, <2>3, <3>1 DEF Tracked, Stirring
    <3>3. Beats(p, Ahead(p)[f[j]]) /\ NoneBefore(p, f[j], AnswerCode)
      BY <1>4, <2>3, <3>2
    <3>4. Beats(p, Ahead(p)[j])'
      BY <1>3, <3>2, <3>3 DEF Beats, SameWait, SameFlags, Suspended
    <3>5. ASSUME NEW k \in Place(p)', k < j PROVE Ahead(p)'[k].code \notin AnswerCode
      <4>1. j > k /\ k # l
        BY <3>2, <3>5 DEF Place
      <4>2. Ahead(p)'[k].code \in AnswerCode =>
              f[k] \in Place(p) /\ f[j] > f[k] /\ Ahead(p)'[k] = Ahead(p)[f[k]]
        BY <2>1, <2>3, <3>1, <4>1 DEF Tracked, Stirring
      <4>3. \A h \in Place(p) : f[j] > h => h < f[j]
        BY <3>2 DEF Place
      <4> QED BY <3>3, <4>2, <4>3 DEF NoneBefore
    <3> QED BY <3>4, <3>5 DEF NoneBefore
  <2> QED BY <1>1, <2>2, <2>3 DEF FnAt, Finishes
<1>8. FnKept(p)'
  BY <1>7 DEF FnKept
<1>9. DnKept(s)' /\ DnKept(p)'
  BY <1>1, <1>2, DnMoves DEF RelKept, Finishes, p
<1> QED BY <1>1, <1>2, <1>5, <1>6, <1>8, <1>9 DEF RelGood, RelKept

(* An FN read by who waits for the answer to its own finds a reader that   *)
(* is not short: its sender has asked for release, and no token was        *)
(* negotiated, or both would hold it.                                      *)
LEMMA ConfirmsRel ==
    ASSUME TypeOK, Good, RelGood, NEW s \in Side, NEW m \in SpduSet, Confirms(s, m)
    PROVE  RelGood'
<1> DEFINE p == Peer(s)
<1>1. p \in Side /\ Peer(p) = s /\ Side = {s, p}
  BY DEF Peer, Side
<1>2. RelKept(s) /\ RelKept(p) /\ TokenKept(s)
  BY <1>1 DEF RelGood, Good
<1>3. /\ SameTokens(p) /\ SameWord(p) /\ SameTokens(s) /\ SameWord(s)
      /\ SameSide(p) /\ SameSide(s)
  BY DEF Confirms, SameSide
<1>4. SameWait(p) /\ SameWait(s) /\ sb'[s].owned = sb[s].owned /\ sb'[p].owned = sb[p].owned
  BY <1>3, SameFields
<1> HIDE DEF p
<1>5. 1 \in Place(s) /\ \A j \in Place(s) : ~(j < 1)
  <2>1. Ahead(s) \in Seq(SpduSet) /\ Ahead(s) # <<>>
    BY AheadTyped DEF Confirms
  <2> QED BY <2>1 DEF Place
<1>6. Committed(p)
  <2>1. FnAt(s, 1)
    BY <1>2, <1>5 DEF RelKept, FnKept, Confirms
  <2>2. ~Short(s, 1)
    BY <1>2, <1>5 DEF RelKept, CommitKept, Short, Confirms
  <2> QED BY <2>1, <2>2 DEF FnAt, p
<1>7. Tokens = {}
  <2>1. ~Suspended(s) /\ ~Suspended(p) /\ sb[s].owned = Tokens /\ sb[p].owned = Tokens
    BY <1>2, <1>6 DEF RelKept, CommitKept, Confirms
  <2> QED BY <1>2, <2>1 DEF TokenKept, Once, p
<1>8. CommitKept(s)' /\ CommitKept(p)'
  BY <1>1, <1>2, <1>3, StillKept DEF RelKept
<1>9. FnKept(s)'
  BY <1>1, <1>2, <1>3, <1>4, KeptFn DEF RelKept, Confirms, SameWord, p
<1>10. FnKept(p)'
  <2>1. PICK l \in Place(p)' :
          /\ Ahead(p)'[l] = m
          /\ \A i \in Place(p)' : Ahead(p)'[i].code = "FN" /\ i # l => FnAt(p, i)'
    BY <1>1, <1>2, <1>3, <1>4, JoinFn DEF RelKept, Confirms, SameWord, p
  <2> QED BY <2>1 DEF FnKept, Confirms
<1>11. DnKept(s)' /\ DnKept(p)'
  BY <1>1, <1>3, <1>6, <1>7 DEF DnKept, SameWord, Confirms, p
<1> QED BY <1>1, <1>8, <1>9, <1>10, <1>11 DEF RelGood, RelKept

(* Who is refused holds the release token, which the reader of its FN is   *)
(* then short of.                                                          *)
LEMMA ResumesRel ==
    ASSUME TypeOK, Good, RelGood, NEW s \in Side, Resumes(s)
    PROVE  RelGood'
<1> DEFINE p == Peer(s)
<1>1. p \in Side /\ Peer(p) = s /\ Side = {s, p}
  BY DEF Peer, Side
<1>2. RelKept(s) /\ RelKept(p) /\ TokenKept(s) /\ TokenKept(p)
  BY <1>1 DEF RelGood, Good
<1>3. /\ SameTokens(p) /\ SameWord(p) /\ SameTokens(s) /\ SameSide(p)
      /\ Kept(0, Ahead(s), Ahead(s)') /\ Kept(0, Ahead(p), Ahead(p)')
  BY DEF Resumes, Still, SameSide
<1>4. SameWait(p) /\ SameWait(s) /\ sb'[s].owned = sb[s].owned /\ sb'[p].owned = sb[p].owned
      /\ (Suspended(s)' <=> Suspended(s))
  BY <1>3, SameFields
<1> HIDE DEF p
<1>5. ~Suspended(s) /\ sb[s].owned = Tokens /\ "rls" \in Tokens
  BY <1>2 DEF RelKept, CommitKept, Resumes
<1>6. CommitKept(s)' /\ CommitKept(p)'
  BY <1>1, <1>2, <1>3, <1>4, <1>5, StillKept DEF RelKept, CommitKept
<1>7. FnKept(s)'
  BY <1>1, <1>2, <1>3, <1>4, KeptFn DEF RelKept, SameWord, p
<1>8. ASSUME NEW i \in Place(p), Ahead(p)[i].code = "FN" PROVE Short(p, i)
  <2>1. CASE ~Suspended(p)
    BY <1>1, <1>2, <1>5, <2>1 DEF TokenKept, Once, Short, p
  <2>2. CASE Suspended(p) /\ ~NoneBefore(p, i, AnswerCode)
    <3>1. PICK j \in Place(p) : j < i /\ Ahead(p)[j].code \in AnswerCode
      BY <2>2 DEF NoneBefore
    <3>2. Ahead(p)[j].code = "RA"
      BY <1>1, <1>2, <1>5, <3>1 DEF TokenKept, AnswerKept, AnswerCode
    <3>3. /\ Ahead(p)[j].settings["rls"] = s
          /\ \A k \in Place(p) : k > j => ~Carries(Ahead(p)[k], "rls")
      BY <1>1, <1>2, <1>5, <3>2 DEF TokenKept, NothingUnsettled
    <3>4. p # s /\ \A k \in Place(p) : j < k => k > j
      BY DEF Peer, Side, Place, p
    <3> QED BY <1>5, <2>2, <3>1, <3>2, <3>3, <3>4 DEF Short
  <2> QED BY <2>1, <2>2 DEF Short
<1>9. FnKept(p)'
  BY <1>1, <1>2, <1>3, <1>4, <1>8, KeptFn DEF RelKept
<1>10. DnKept(s)' /\ DnKept(p)'
  BY <1>1, <1>2, <1>3, <1>5, DnMoves DEF RelKept, p
<1> QED BY <1>1, <1>6, <1>7, <1>9, <1>10 DEF RelGood, RelKept

(* Who finds a resynchronization in place of the answer has a peer that    *)
(* waits for the end of it, and will not confirm the FN before.            *)
LEMMA StopsRel ==
    ASSUME TypeOK, Good, RelGood, NEW s \in Side, Stops(s)
    PROVE  RelGood'
<1> DEFINE p == Peer(s)
<1>1. p \in Side /\ Peer(p) = s /\ Side = {s, p}
  BY DEF Peer, Side
<1>2. RelKept(s) /\ RelKept(p) /\ TokenKept(s)
  BY <1>1 DEF RelGood, Good
<1>3. /\ SameTokens(p) /\ SameWord(p) /\ SameTokens(s) /\ SameSide(p)
      /\ Kept(0, Ahead(s), Ahead(s)') /\ Kept(0, Ahead(p), Ahead(p)')
  BY DEF Stops, Still, SameSide
<1>4. SameWait(p) /\ SameWait(s) /\ sb'[s].owned = sb[s].owned /\ sb'[p].owned = sb[p].owned
      /\ (Suspended(s)' <=> Suspended(s))
  BY <1>3, SameFields
<1> HIDE DEF p
<1>5. ~Suspended(s) /\ sb[s].owned = Tokens
  BY <1>2 DEF RelKept, CommitKept, Stops
<1>6. Suspended(p) /\ NoneOf(p, AnswerCode)
  <2>1. 1 \in Place(s)
    <3>1. Ahead(s) \in Seq(SpduSet) /\ Ahead(s) # <<>>
      BY AheadTyped DEF Stops
    <3> QED BY <3>1 DEF Place
  <2>2. StandsBy(p, Ahead(s)[1]) /\ NoneOf(p, AnswerCode)
    BY <1>2, <1>5, <2>1 DEF TokenKept, AskKept, AskCode, Beats, Stops, p
  <2> QED BY <2>2 DEF StandsBy, Suspended, Flagged
<1>7. CommitKept(s)' /\ CommitKept(p)'
  BY <1>1, <1>2, <1>3, <1>4, <1>5, StillKept DEF RelKept, CommitKept
<1>8. FnKept(s)'
  BY <1>1, <1>2, <1>3, <1>4, KeptFn DEF RelKept, SameWord, p
<1>9. FnKept(p)'
  <2>1. \A i \in Place(p) : Short(p, i)
    BY <1>6 DEF Short, NoneOf, NoneBefore
  <2> QED BY <1>1, <1>2, <1>3, <1>4, <2>1, KeptFn DEF RelKept
<1>10. DnKept(s)' /\ DnKept(p)'
  <2>1. ~Committed(p)
    BY <1>2, <1>6 DEF RelKept, CommitKept
  <2> QED BY <1>1, <1>2, <1>3, <2>1, DnMoves DEF RelKept, p
<1> QED BY <1>1, <1>7, <1>8, <1>9, <1>10 DEF RelGood, RelKept

-----------------------------------------------------------------------------
(* A new connection has nothing on its way and nobody that asked for       *)
(* release.                                                                *)
LEMMA RelInvInit == Init => RelInv
<1> SUFFICES ASSUME Init, NEW x \in Side PROVE RelKept(x)
  BY DEF RelInv
<1>1. sb[x].flags = {} /\ sb[x].mode = "open" /\ sb[x].spdu = <<>> /\ net[x] = <<>>
  BY DEF Init, newsblk
<1>2. Place(x) = {}
  <2>1. <<>> \o <<>> = <<>> /\ Len(<<>>) = 0
    OBVIOUS
  <2>2. Len(Ahead(x)) = 0
    BY <1>1, <2>1 DEF Ahead
  <2> QED BY <2>2 DEF Place
<1>3. ~Committed(x)
  BY <1>1 DEF Committed, Flagged
<1> QED BY <1>2, <1>3 DEF RelKept, CommitKept, FnKept, DnKept

(* Every kind of step keeps it, given what holds of the tokens.            *)
LEMMA StepRel ==
    ASSUME TypeOK, Good, RelGood, NEW s \in Side, Step(s)
    PROVE  RelGood'
<1>1. CASE Passes(s)
  BY <1>1, IdleRel
<1>2. CASE Resumes(s)
  BY <1>2, ResumesRel
<1>3. CASE Stops(s)
  BY <1>3, StopsRel
<1>4. ASSUME NEW m \in SpduSet, Gives(s, m) PROVE RelGood'
  BY <1>4, GivesRel
<1>5. ASSUME NEW m \in SpduSet, Gains(s, m) PROVE RelGood'
  BY <1>5, GainsRel
<1>6. ASSUME NEW m \in SpduSet, Asks(s, m) PROVE RelGood'
  BY <1>6, AsksRel
<1>7. ASSUME NEW m \in SpduSet, Replies(s, m) PROVE RelGood'
  BY <1>7, RepliesRel
<1>8. ASSUME NEW m \in SpduSet, Accepts(s, m) PROVE RelGood'
  BY <1>8, AcceptsRel
<1>9. ASSUME NEW m \in SpduSet, Settles(s, m) PROVE RelGood'
  BY <1>9, SettlesRel
<1>10. ASSUME NEW m \in SpduSet, Finishes(s, m) PROVE RelGood'
  BY <1>10, FinishesRel
<1>11. ASSUME NEW m \in SpduSet, Confirms(s, m) PROVE RelGood'
  BY <1>11, ConfirmsRel
<1> QED BY <1>1, <1>2, <1>3, <1>4, <1>5, <1>6, <1>7, <1>8, <1>9, <1>10, <1>11 DEF Step

LEMMA RelInvNext == TypeOK /\ TokenInv /\ RelInv /\ [Next]_vars => RelInv'
<1> SUFFICES ASSUME TypeOK, TokenInv, RelInv, [Next]_vars, BothLive' PROVE RelGood'
  BY DEF RelInv, RelGood
<1>1. CASE UNCHANGED vars
  <2>1. BothLive /\ Good /\ RelGood
    BY <1>1 DEF vars, BothLive, Live, TokenInv, Good, RelInv, RelGood
  <2> QED BY <1>1, <2>1, StutterIdle, IdleRel DEF Side
<1>2. CASE Next
  <2>1. BothLive /\ Good /\ RelGood
    BY <1>2, LiveBefore DEF TokenInv, Good, RelInv, RelGood
  <2>2. PICK s \in Side : UserRequest(s) \/ UserResponse(s) \/ Read(s) \/ Timer(s)
    BY <1>2 DEF Next
  <2>3. Step(s)
    BY <2>1, <2>2, RequestSteps, ResponseSteps, TimerSteps, ReadSteps
  <2> QED BY <2>1, <2>3, StepRel
<1> QED BY <1>1, <1>2

(* A release that is waited for ends by a DN only.                         *)
LEMMA ReleasedByDN ==
    ASSUME TypeOK, Next, NEW s \in Side, sb[s].mode = "waiting", sb'[s].mode = "released"
    PROVE  RelDN(s)
<1>1. PICK a \in Side : UserRequest(a) \/ UserResponse(a) \/ Read(a) \/ Timer(a)
  BY DEF Next
<1>2. a = s
  <2>1. sb'[Peer(a)] = sb[Peer(a)]
    BY <1>1, OwnBlock
  <2> QED BY <2>1 DEF Peer, Side
<1>3. ~UserRequest(s) /\ ~UserResponse(s)
  BY DEF UserRequest, UserResponse,
         SDataRequest, STypedRequest, SExpdRequest, SGTokenRequest, SPTokenRequest,
         SGControlRequest, SCapdRequest, SMinSyncRequest, SMinSyncResponse, SMajSyncRequest,
         SReSyncRequest, SUReportRequest, SActStartRequest, SActResumeRequest,
         SActIntrRequest, SActEndRequest, SUAbortRequest, SRelRequest, SMajSyncRequestAux,
         SCapdResponse, SMajSyncResponse, SReSyncResponse, SActIntrResponse, SRelResponse,
         SRelRetryRequest, ssapPsig, ssapXsig, ssapRsig, ssapAsig, ssapFsig
<1>4. ~Timer(s)
  BY DEF Timer, SRelTimeout, DrainTimeout, TypeOK, Ssapblk
<1>5. /\ sb[s] \in Ssapblk
      /\ \A b : sb' = [sb EXCEPT ![s] = b] => b.mode = "released"
  BY DEF TypeOK
<1>6. /\ sb2spkt(sb[s]).mode = "waiting"
      /\ [sb2spkt(sb[s]) EXCEPT !.mode = "open"].mode = "open"
      /\ [sb2spkt(sb[s]) EXCEPT !.mode = "open", !.spdu = <<Incoming(s)>>].mode = "open"
      /\ Freed("aborted").mode = "aborted"
  BY <1>5 DEF sb2spkt, Freed, newsblk, Ssapblk
<1>7. ~RelFN(s) /\ ~RelNF(s) /\ ~RelRS(s) /\ ~RelAB(s) /\ ~RelUnexpected(s)
  <2>1. ~RelFN(s)
    <3> SUFFICES ASSUME sb' = [sb EXCEPT ![s] = sb2spkt(@)] PROVE FALSE
      BY DEF RelFN
    <3> QED BY <1>5, <1>6
  <2>2. ~RelNF(s) /\ ~RelRS(s)
    BY <1>5, <1>6 DEF RelNF, RelRS, Done
  <2>3. ~RelAB(s) /\ ~RelUnexpected(s)
    BY <1>5, <1>6 DEF RelAB, RelUnexpected, ProtocolAbort, freesblk
  <2> QED BY <2>1, <2>2, <2>3
<1>8. ~Reads(s) /\ ~Drain(s)
  BY DEF Reads, Drain
<1> QED BY <1>1, <1>2, <1>3, <1>4, <1>7, <1>8
        DEF Read, Arrives, Drop, RecvData, RecvGT, RecvEX, RecvCD, RecvGTC, RecvGTA,
            RecvMAP, RecvMAA, RecvMIP, RecvMIA, RecvRS, RecvRA, RecvPR, RecvED, RecvAS,
            RecvAI, RecvAIA, RecvFN, RecvAB, RecvUnexpected, RecvTDISC

(* S-RELEASE.CONFIRM says yes only to a user whose peer accepted, or asked *)
(* for release itself: a user that goes on is never left, whatever was     *)
(* resynchronized, refused or given up meanwhile.                          *)
THEOREM ReleaseAlwaysAgreed == Spec => ReleaseAgreed
<1>1. Init => TokenInv /\ RelInv
  BY TokenInvInit, RelInvInit
<1>2. TypeOK /\ TokenInv /\ RelInv /\ [Next]_vars => TokenInv' /\ RelInv'
  BY TokenInvNext, RelInvNext
<1>3. TypeOK /\ RelInv /\ [Next]_vars =>
        [\A s \in Side : sb[s].mode = "waiting" /\ sb'[s].mode = "released" =>
              \/ sb[Peer(s)].mode # "open"
              \/ Flagged(Peer(s), "RELEASE")]_vars
  <2> SUFFICES ASSUME TypeOK, RelInv, Next, NEW s \in Side,
                      sb[s].mode = "waiting", sb'[s].mode = "released",
                      sb[Peer(s)].mode = "open"
               PROVE  Flagged(Peer(s), "RELEASE")
    OBVIOUS
  <2>1. BothLive
    BY DEF BothLive, Live, Peer, Side
  <2>2. RelDN(s)
    BY ReleasedByDN
  <2>3. Ahead(s) # <<>> /\ Ahead(s)[1].code = "DN"
    <3>1. Readable(s) /\ Incoming(s).code = "DN"
      BY <2>2 DEF RelDN, Waits
    <3> QED BY <3>1, HeadRead
  <2>4. 1 \in Place(s)
    <3>1. Ahead(s) \in Seq(SpduSet)
      BY AheadTyped
    <3> QED BY <2>3, <3>1 DEF Place
  <2>5. Committed(Peer(s))
    BY <2>1, <2>3, <2>4 DEF RelInv, RelKept, DnKept
  <2> QED BY <2>5 DEF Committed
<1> QED BY <1>1, <1>2, <1>3, Typing, PTL DEF Spec, ReleaseAgreed

=============================================================================
