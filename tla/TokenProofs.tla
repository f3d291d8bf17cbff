----------------------------- MODULE TokenProofs -----------------------------
(***************************************************************************)
(* No token of a session connection is ever held twice, for every choice   *)
(* of functional units, transport, bounds and calls; and none is lost      *)
(* between users that neither report exceptions nor give control away.     *)
(*                                                                         *)
(* A token is only ever held once because no answer arrives that its       *)
(* receiver is not waiting for, and because nothing that gives tokens away *)
(* is sent between an ask and its answer: the invariant says where asks,   *)
(* answers and gifts may be.                                               *)
(*                                                                         *)
(* None is lost because no GT is discarded.  A provider discards whatever  *)
(* it reads while it prepares for an SPDU; the second part shows that this *)
(* SPDU is then ahead of it, and the last one that somebody then waits for *)
(* an answer, which settles the tokens.                                    *)
(***************************************************************************)
EXTENDS SessionSteps

(* A side does not wait for an answer and owe one, unless both ends have   *)
(* interrupted the activity.                                               *)
FlagsApart(s) ==
    /\ Flagged(s, "RA") => ~Suspended(s) /\ ~Flagged(s, "AIA")
    /\ Flagged(s, "AIA") => ~Flagged(s, "RS") /\ sb[s].rs = "intr"
    /\ Flagged(s, "AI") => ~Flagged(s, "RS") /\ sb[s].rs \in {"intr", "disc"}

(* An ask on its way to s is the last word of a peer that waits for its    *)
(* answer, or s will drop it for one of its own that beats it.             *)
AskKept(s) == \A i \in Place(s) : Ahead(s)[i].code \in AskCode =>
    /\ ~Asked(s)
    /\ NoneOf(Peer(s), AnswerCode)
    /\ \/ StandsBy(Peer(s), Ahead(s)[i]) /\ NoneAfter(s, i, Stirring)
       \/ Beats(s, Ahead(s)[i]) /\ NoneBefore(s, i, AnswerCode)

(* Both ends have stored the same resynchronization.                       *)
SameAsk(s) == /\ sb[Peer(s)].rs = sb[s].rs /\ sb[Peer(s)].rsn = sb[s].rsn
              /\ sb[Peer(s)].rsettings = sb[s].rsettings

(* Whoever owes an answer owes it to a peer that waits for it, and nothing *)
(* that matters is on its way from there.                                  *)
AskedKept(s) == Asked(s) =>
    /\ Flagged(s, "RA") => Flagged(Peer(s), "RS") /\ SameAsk(s)
    /\ Flagged(s, "AIA") => Flagged(Peer(s), "AI")
    /\ NoneOf(s, Stirring)
    /\ NoneOf(Peer(s), AnswerCode)

(* An answer on its way to s is the only one, and s waits for it.          *)
AnswerKept(s) == \A i \in Place(s) : Ahead(s)[i].code \in AnswerCode =>
    /\ ~Asked(Peer(s)) /\ NoneOf(Peer(s), Stirring)
    /\ NoneAfter(s, i, AnswerCode)
    /\ Ahead(s)[i].code = "RA" => Flagged(s, "RS") /\ Ahead(s)[i].settings \in FinalSettings
    /\ Ahead(s)[i].code = "AIA" =>
          Flagged(s, "AI") /\ sb[Peer(s)].owned = {} /\ NoneAfter(s, i, GiftCode)

(* Since it answered a resynchronization the peer of s has held and given  *)
(* away, once, what the answer leaves it.                                  *)
NothingUnsettled(s) == \A i \in Place(s) : Ahead(s)[i].code = "RA" /\ ~Suspended(Peer(s)) =>
    \A t \in Tokens :
      /\ t \in sb[Peer(s)].owned =>
            /\ Ahead(s)[i].settings[t] = Peer(s)
            /\ \A j \in Place(s) : j > i => ~Carries(Ahead(s)[j], t)
      /\ \A j \in Place(s) : j > i /\ Carries(Ahead(s)[j], t) =>
            /\ Ahead(s)[i].settings[t] = Peer(s)
            /\ \A k \in Place(s) : k > j => ~Carries(Ahead(s)[k], t)

(* When nobody waits for an answer each token is in one place: owned at    *)
(* one end, or in one gift on its way.                                     *)
Once(s) == ~Suspended(s) /\ ~Suspended(Peer(s)) => \A t \in Tokens :
    /\ t \in sb[s].owned =>
          /\ t \notin sb[Peer(s)].owned
          /\ \A j \in Place(s) : ~Carries(Ahead(s)[j], t)
          /\ \A j \in Place(Peer(s)) : ~Carries(Ahead(Peer(s))[j], t)
    /\ \A j \in Place(s) : Carries(Ahead(s)[j], t) =>
          /\ \A k \in Place(s) : k > j => ~Carries(Ahead(s)[k], t)
          /\ \A k \in Place(Peer(s)) : ~Carries(Ahead(Peer(s))[k], t)

TokenKept(s) ==
    FlagsApart(s) /\ AskKept(s) /\ AskedKept(s) /\ AnswerKept(s) /\ NothingUnsettled(s) /\ Once(s)

TokenInv == BothLive => \A s \in Side : TokenKept(s)

-----------------------------------------------------------------------------
(* Each of them preserves the invariant.                                   *)

Good == \A x \in Side : TokenKept(x)

(* What matters to the tokens is as it was.                                *)
Undisturbed(x) ==
    /\ SameTokens(x)
    /\ \E f : \A i \in Place(x)' : Ahead(x)'[i].code \in Stirring =>
            /\ f[i] \in Place(x) /\ f[i] > 0 /\ Ahead(x)'[i] = Ahead(x)[f[i]]
            /\ \A j \in Place(x)' : j > i /\ Ahead(x)'[j].code \in Stirring => f[j] > f[i]

(* A step that neither gives, asks nor answers.                            *)
LEMMA IdleKeeps ==
    ASSUME TypeOK, Good, \A x \in Side : Undisturbed(x)
    PROVE  Good'
<1> SUFFICES ASSUME NEW x \in Side PROVE TokenKept(x)'
  BY DEF Good
<1> DEFINE p == Peer(x)
<1>2. p \in Side /\ SameTokens(x) /\ SameTokens(p) /\ Peer(p) = x
  BY PeerSide DEF Peer, Side, Undisturbed
<1>3. PICK f : \A i \in Place(x)' : Ahead(x)'[i].code \in Stirring =>
              /\ f[i] \in Place(x) /\ f[i] > 0 /\ Ahead(x)'[i] = Ahead(x)[f[i]]
              /\ \A j \in Place(x)' : j > i /\ Ahead(x)'[j].code \in Stirring => f[j] > f[i]
  BY DEF Undisturbed
<1>4. PICK g : \A i \in Place(p)' : Ahead(p)'[i].code \in Stirring =>
              /\ g[i] \in Place(p) /\ g[i] > 0 /\ Ahead(p)'[i] = Ahead(p)[g[i]]
              /\ \A j \in Place(p)' : j > i /\ Ahead(p)'[j].code \in Stirring => g[j] > g[i]
  BY <1>2 DEF Undisturbed
<1> HIDE DEF p
<1>5. FlagsApart(x)'
  BY <1>2 DEF Good, TokenKept, FlagsApart, SameTokens, SameFlags, Flagged, Suspended
<1> USE DEF SameTokens, SameFlags, Flagged, Suspended, Asked, Stirring, NoneOf, NoneAfter, p
<1>6. AskKept(x)'
  BY <1>2, <1>3, <1>4 DEF Good, TokenKept, AskKept, NoneBefore, StandsBy, Beats
<1>7. AskedKept(x)'
  BY <1>2, <1>3, <1>4 DEF Good, TokenKept, SameAsk, AskedKept
<1>8. AnswerKept(x)'
  BY <1>2, <1>3, <1>4 DEF Good, TokenKept, AnswerKept
<1>9. NothingUnsettled(x)'
  BY <1>2, <1>3, <1>4 DEF Good, TokenKept, NothingUnsettled, Carries, AnswerCode, GiftCode
<1>10. Once(x)'
  <2>1. \A y \in Side : \A i \in Place(y)', t \in Tokens :
            Carries(Ahead(y)'[i], t) => Ahead(y)'[i].code \in Stirring
    BY DEF Carries, GiftCode
  <2> QED BY <1>2, <1>3, <1>4, <2>1 DEF Good, TokenKept, Once
<1> QED BY <1>5, <1>6, <1>7, <1>8, <1>9, <1>10 DEF TokenKept

(* What keeps a queue, and an SPDU that only joins it, disturb nothing.    *)
LEMMA KeptUndisturbed ==
    ASSUME NEW x, SameTokens(x), Kept(0, Ahead(x), Ahead(x)')
    PROVE  Undisturbed(x)
BY KeptPlaces DEF Undisturbed

LEMMA JoinUndisturbed ==
    ASSUME NEW x, NEW m \in SpduSet, m.code \notin Stirring, SameTokens(x), Joins(x, m)
    PROVE  Undisturbed(x)
<1>1. PICK f, l :
          /\ l \in Place(x)' /\ Ahead(x)'[l] = m /\ \A i \in Place(x)' : ~(i > l)
          /\ \A i \in Place(x)' : Ahead(x)'[i].code \in Stirring /\ i # l =>
              /\ f[i] \in Place(x) /\ Ahead(x)'[i] = Ahead(x)[f[i]] /\ i < l
              /\ \A j \in Place(x)' : j > i /\ j # l /\ Ahead(x)'[j].code \in Stirring
                   => f[j] > f[i]
  BY JoinPlaces
<1>2. \A i \in Place(x)' : Ahead(x)'[i].code \in Stirring => i # l
  BY <1>1
<1>3. \A i \in Place(x) : i > 0
  BY DEF Place
<1> QED BY <1>1, <1>2, <1>3 DEF Undisturbed

(* Nothing a release does disturbs the tokens.                             *)
LEMMA ReleaseUndisturbed ==
    ASSUME NEW s \in Side,
           \/ Passes(s) \/ Resumes(s) \/ Stops(s)
           \/ \E m \in SpduSet : Finishes(s, m) \/ Confirms(s, m)
    PROVE  \A x \in Side : Undisturbed(x)
<1>1. SUFFICES Undisturbed(s) /\ Undisturbed(Peer(s))
  BY DEF Peer, Side
<1>2. CASE Passes(s) \/ Resumes(s) \/ Stops(s)
  BY <1>2, KeptUndisturbed DEF Passes, Resumes, Stops, Still, SameSide
<1>3. ASSUME NEW m \in SpduSet, Finishes(s, m) \/ Confirms(s, m)
      PROVE  Undisturbed(s) /\ Undisturbed(Peer(s))
  <2>1. m.code \notin Stirring
    BY <1>3 DEF Finishes, Confirms, Stirring, AskCode, AnswerCode, GiftCode
  <2> QED BY <1>3, <2>1, KeptUndisturbed, JoinUndisturbed DEF Finishes, Confirms, SameSide
<1> QED BY <1>2, <1>3

(* Who waits for nothing gets no answer and owes none, and what it asked   *)
(* before is beaten.                                                       *)
LEMMA Unsuspended ==
    ASSUME Good, NEW s \in Side, ~Suspended(s)
    PROVE  /\ NoneOf(s, AnswerCode) /\ ~Asked(Peer(s))
           /\ \A i \in Place(Peer(s)) : Ahead(Peer(s))[i].code \in AskCode =>
                /\ Beats(Peer(s), Ahead(Peer(s))[i])
                /\ NoneBefore(Peer(s), i, AnswerCode)
           /\ \A i \in Place(s) : Ahead(s)[i].code \in AskCode =>
                /\ StandsBy(Peer(s), Ahead(s)[i])
                /\ NoneAfter(s, i, Stirring)
<1> DEFINE p == Peer(s)
<1>1. p \in Side /\ Peer(p) = s
  BY DEF Peer, Side
<1>2. TokenKept(s) /\ TokenKept(p)
  BY <1>1 DEF Good
<1> HIDE DEF p
<1>3. NoneOf(s, AnswerCode)
  BY <1>2 DEF TokenKept, AnswerKept, NoneOf, AnswerCode, Suspended, Flagged
<1>4. ~Asked(p)
  BY <1>1, <1>2 DEF TokenKept, SameAsk, AskedKept, Asked, Suspended, Flagged
<1>5. \A i \in Place(p) : Ahead(p)[i].code \in AskCode =>
          Beats(p, Ahead(p)[i]) /\ NoneBefore(p, i, AnswerCode)
  BY <1>1, <1>2 DEF TokenKept, AskKept, StandsBy, Suspended, Flagged
<1>6. \A i \in Place(s) : Ahead(s)[i].code \in AskCode =>
          StandsBy(p, Ahead(s)[i]) /\ NoneAfter(s, i, Stirring)
  BY <1>2 DEF TokenKept, AskKept, Beats, p
<1> QED BY <1>3, <1>4, <1>5, <1>6 DEF p

(* Tokens are given by who neither waits for an answer nor owes one.       *)
LEMMA GivesKeeps ==
    ASSUME TypeOK, Good, NEW s \in Side, NEW m \in SpduSet, Gives(s, m)
    PROVE  Good'
<1> DEFINE p == Peer(s)
<1>1. p \in Side /\ p # s /\ Peer(p) = s /\ Side = {s, p}
  BY DEF Peer, Side
<1>2. TokenKept(s) /\ TokenKept(p)
  BY <1>1 DEF Good
<1>3. PICK f : \A i \in Place(s)' : Ahead(s)'[i].code \in Stirring =>
          /\ f[i] \in Place(s) /\ f[i] > 0 /\ Ahead(s)'[i] = Ahead(s)[f[i]]
          /\ \A j \in Place(s)' : j > i /\ Ahead(s)'[j].code \in Stirring => f[j] > f[i]
  BY KeptPlaces DEF Gives
<1>4. PICK g, l :
          /\ l \in Place(p)' /\ Ahead(p)'[l] = m /\ \A i \in Place(p)' : ~(i > l)
          /\ \A i \in Place(p)' : Ahead(p)'[i].code \in Stirring /\ i # l =>
              /\ g[i] \in Place(p) /\ Ahead(p)'[i] = Ahead(p)[g[i]] /\ i < l
              /\ \A j \in Place(p)' : j > i /\ j # l /\ Ahead(p)'[j].code \in Stirring
                   => g[j] > g[i]
  BY JoinPlaces DEF Gives
<1>5. m.code \in Stirring /\ m.code \notin AskCode \cup AnswerCode
  BY DEF Gives, Stirring, AskCode, AnswerCode, GiftCode
<1>6. SameSide(p)
  BY DEF Gives
<1>7. /\ NoneOf(s, AnswerCode) /\ ~Asked(p)
      /\ \A i \in Place(p) : Ahead(p)[i].code \in AskCode =>
            Beats(p, Ahead(p)[i]) /\ NoneBefore(p, i, AnswerCode)
      /\ \A i \in Place(s) : Ahead(s)[i].code \in AskCode =>
            StandsBy(p, Ahead(s)[i]) /\ NoneAfter(s, i, Stirring)
  BY Unsuspended DEF Gives
<1> HIDE DEF p
<1>8. /\ \A i \in Place(s)', t \in Tokens :
            Carries(Ahead(s)'[i], t) => Ahead(s)'[i].code \in Stirring
      /\ \A i \in Place(p)', t \in Tokens :
            Carries(Ahead(p)'[i], t) => Ahead(p)'[i].code \in Stirring
      /\ "RA" \in AnswerCode
  BY DEF Carries, Stirring, GiftCode, AnswerCode
<1> USE DEF SameSide, SameTokens, SameFlags, Flagged, Suspended, Asked, Stirring, NoneOf,
            NoneAfter, p
<1>11. FlagsApart(s)'
  BY <1>1, <1>2, <1>3, <1>4, <1>5, <1>6, <1>7
     DEF TokenKept, FlagsApart, Gives
<1>12. FlagsApart(p)'
  BY <1>1, <1>2, <1>3, <1>4, <1>5, <1>6, <1>7
     DEF TokenKept, FlagsApart, Gives
<1>13. AskKept(s)'
  BY <1>1, <1>2, <1>3, <1>4, <1>5, <1>6, <1>7
     DEF TokenKept, AskKept, NoneBefore, StandsBy, Beats, Gives
<1>14. AskKept(p)'
  BY <1>1, <1>2, <1>3, <1>4, <1>5, <1>6, <1>7
     DEF TokenKept, AskKept, NoneBefore, StandsBy, Beats, Gives
<1>15. AskedKept(s)'
  BY <1>1, <1>2, <1>3, <1>4, <1>5, <1>6, <1>7
     DEF TokenKept, SameAsk, AskedKept, Gives
<1>16. AskedKept(p)'
  BY <1>1, <1>2, <1>3, <1>4, <1>5, <1>6, <1>7
     DEF TokenKept, SameAsk, AskedKept, Gives
<1>17. AnswerKept(s)'
  BY <1>1, <1>2, <1>3, <1>4, <1>5, <1>6, <1>7
     DEF TokenKept, AnswerKept, FlagsApart, Gives
<1>18. AnswerKept(p)'
  BY <1>1, <1>2, <1>3, <1>4, <1>5, <1>6, <1>7
     DEF TokenKept, AnswerKept, FlagsApart, Gives
<1>19. NothingUnsettled(s)'
  BY <1>1, <1>2, <1>3, <1>4, <1>5, <1>6, <1>7, <1>8
     DEF TokenKept, NothingUnsettled, Gives
<1>20. NothingUnsettled(p)'
  BY <1>1, <1>2, <1>3, <1>4, <1>5, <1>6, <1>7, <1>8
     DEF TokenKept, NothingUnsettled, Gives
<1>21. Once(s)'
  BY <1>1, <1>2, <1>3, <1>4, <1>5, <1>6, <1>7, <1>8
     DEF TokenKept, Once, Gives
<1>22. Once(p)'
  BY <1>1, <1>2, <1>3, <1>4, <1>5, <1>6, <1>7, <1>8
     DEF TokenKept, Once, Gives
<1>30. TokenKept(s)' /\ TokenKept(p)'
  BY <1>11, <1>12, <1>13, <1>14, <1>15, <1>16, <1>17,
     <1>18, <1>19, <1>20, <1>21, <1>22 DEF TokenKept
<1> QED BY <1>1, <1>30 DEF Good

(* Whoever asks has nothing left to ask, so the peer owes no answer yet.   *)
LEMMA AsksKeeps ==
    ASSUME TypeOK, Good, NEW s \in Side, NEW m \in SpduSet, Asks(s, m)
    PROVE  Good'
<1> DEFINE p == Peer(s)
<1>1. p \in Side /\ p # s /\ Peer(p) = s /\ Side = {s, p}
  BY DEF Peer, Side
<1>2. TokenKept(s) /\ TokenKept(p)
  BY <1>1 DEF Good
<1>3. PICK f : \A i \in Place(s)' : Ahead(s)'[i].code \in Stirring =>
          /\ f[i] \in Place(s) /\ f[i] > 0 /\ Ahead(s)'[i] = Ahead(s)[f[i]]
          /\ \A j \in Place(s)' : j > i /\ Ahead(s)'[j].code \in Stirring => f[j] > f[i]
  BY KeptPlaces DEF Asks
<1>4. PICK g, l :
          /\ l \in Place(p)' /\ Ahead(p)'[l] = m /\ \A i \in Place(p)' : ~(i > l)
          /\ \A i \in Place(p)' : Ahead(p)'[i].code \in Stirring /\ i # l =>
              /\ g[i] \in Place(p) /\ Ahead(p)'[i] = Ahead(p)[g[i]] /\ i < l
              /\ \A j \in Place(p)' : j > i /\ j # l /\ Ahead(p)'[j].code \in Stirring
                   => g[j] > g[i]
  BY JoinPlaces DEF Asks
<1>5. m.code \in Stirring /\ m.code \notin AnswerCode \cup GiftCode
  BY DEF Asks, Stirring, AskCode, AnswerCode, GiftCode
<1>6. SameSide(p)
  BY DEF Asks
<1>7. /\ NoneOf(s, AnswerCode) /\ ~Asked(p)
      /\ \A i \in Place(p) : Ahead(p)[i].code \in AskCode =>
            Beats(p, Ahead(p)[i]) /\ NoneBefore(p, i, AnswerCode)
      /\ \A i \in Place(s) : Ahead(s)[i].code \in AskCode =>
            StandsBy(p, Ahead(s)[i]) /\ NoneAfter(s, i, Stirring)
  BY Unsuspended DEF Asks
<1> HIDE DEF p
<1>8. /\ \A i \in Place(s)', t \in Tokens :
            Carries(Ahead(s)'[i], t) => Ahead(s)'[i].code \in Stirring
      /\ \A i \in Place(p)', t \in Tokens :
            Carries(Ahead(p)'[i], t) => Ahead(p)'[i].code \in Stirring
      /\ "RA" \in AnswerCode
  BY DEF Carries, Stirring, GiftCode, AnswerCode
<1> USE DEF SameSide, SameTokens, SameFlags, Flagged, Suspended, Asked, Stirring, NoneOf,
            NoneAfter, p
<1>9. Suspended(s)' /\ ~Asked(s)'
  BY DEF Asks, StandsBy
<1>10. m.code # "RS" => Op(m) \in {"intr", "disc"}
  BY DEF Op, Asks, AskCode
<1>11. FlagsApart(s)'
  BY <1>9, <1>10 DEF FlagsApart, Asks, StandsBy
<1>12. FlagsApart(p)'
  BY <1>1, <1>2, <1>3, <1>4, <1>5, <1>6, <1>7, <1>9
     DEF TokenKept, FlagsApart, Asks
<1>13. AskKept(s)'
  BY <1>1, <1>2, <1>3, <1>4, <1>5, <1>6, <1>7, <1>9
     DEF TokenKept, AskKept, NoneBefore, StandsBy, Beats, Asks
<1>14. AskKept(p)'
  BY <1>1, <1>2, <1>3, <1>4, <1>5, <1>6, <1>7, <1>9
     DEF TokenKept, AskKept, NoneBefore, StandsBy, Beats, Asks
<1>15. AskedKept(s)'
  BY <1>1, <1>2, <1>3, <1>4, <1>5, <1>6, <1>7, <1>9
     DEF TokenKept, SameAsk, AskedKept, Asks
<1>16. AskedKept(p)'
  BY <1>1, <1>2, <1>3, <1>4, <1>5, <1>6, <1>7, <1>9
     DEF TokenKept, SameAsk, AskedKept, Asks
<1>17. AnswerKept(s)'
  BY <1>1, <1>2, <1>3, <1>4, <1>5, <1>6, <1>7, <1>9
     DEF TokenKept, AnswerKept, FlagsApart, Asks
<1>18. AnswerKept(p)'
  BY <1>1, <1>2, <1>3, <1>4, <1>5, <1>6, <1>7, <1>9
     DEF TokenKept, AnswerKept, FlagsApart, Asks
<1>19. NothingUnsettled(s)'
  BY <1>1, <1>2, <1>3, <1>4, <1>5, <1>6, <1>7, <1>9, <1>8
     DEF TokenKept, NothingUnsettled, Asks
<1>20. NothingUnsettled(p)'
  BY <1>1, <1>2, <1>3, <1>4, <1>5, <1>6, <1>7, <1>9, <1>8
     DEF TokenKept, NothingUnsettled, Asks
<1>21. Once(s)'
  BY <1>1, <1>2, <1>3, <1>4, <1>5, <1>6, <1>7, <1>9, <1>8
     DEF TokenKept, Once, Asks
<1>22. Once(p)'
  BY <1>1, <1>2, <1>3, <1>4, <1>5, <1>6, <1>7, <1>9, <1>8
     DEF TokenKept, Once, Asks
<1>30. TokenKept(s)' /\ TokenKept(p)'
  BY <1>11, <1>12, <1>13, <1>14, <1>15, <1>16, <1>17,
     <1>18, <1>19, <1>20, <1>21, <1>22 DEF TokenKept
<1> QED BY <1>1, <1>30 DEF Good

(* An answer goes to a peer that waits for it and sent nothing since.      *)
LEMMA RepliesKeeps ==
    ASSUME TypeOK, Good, NEW s \in Side, NEW m \in SpduSet, Replies(s, m)
    PROVE  Good'
<1> DEFINE p == Peer(s)
<1>1. p \in Side /\ p # s /\ Peer(p) = s /\ Side = {s, p}
  BY DEF Peer, Side
<1>2. TokenKept(s) /\ TokenKept(p)
  BY <1>1 DEF Good
<1>3. PICK f : \A i \in Place(s)' : Ahead(s)'[i].code \in Stirring =>
          /\ f[i] \in Place(s) /\ f[i] > 0 /\ Ahead(s)'[i] = Ahead(s)[f[i]]
          /\ \A j \in Place(s)' : j > i /\ Ahead(s)'[j].code \in Stirring => f[j] > f[i]
  BY KeptPlaces DEF Replies
<1>4. PICK g, l :
          /\ l \in Place(p)' /\ Ahead(p)'[l] = m /\ \A i \in Place(p)' : ~(i > l)
          /\ \A i \in Place(p)' : Ahead(p)'[i].code \in Stirring /\ i # l =>
              /\ g[i] \in Place(p) /\ Ahead(p)'[i] = Ahead(p)[g[i]] /\ i < l
              /\ \A j \in Place(p)' : j > i /\ j # l /\ Ahead(p)'[j].code \in Stirring
                   => g[j] > g[i]
  BY JoinPlaces DEF Replies
<1>5. m.code \in Stirring /\ m.code \notin AskCode \cup GiftCode
  BY DEF Replies, Stirring, AskCode, AnswerCode, GiftCode
<1>6. SameSide(p)
  BY DEF Replies
<1>7. /\ NoneOf(s, AnswerCode) /\ ~Asked(p)
      /\ \A i \in Place(p) : Ahead(p)[i].code \in AskCode =>
            Beats(p, Ahead(p)[i]) /\ NoneBefore(p, i, AnswerCode)
      /\ \A i \in Place(s) : Ahead(s)[i].code \in AskCode =>
            StandsBy(p, Ahead(s)[i]) /\ NoneAfter(s, i, Stirring)
  BY Unsuspended DEF Replies
<1> HIDE DEF p
<1>8. /\ \A i \in Place(s)', t \in Tokens :
            Carries(Ahead(s)'[i], t) => Ahead(s)'[i].code \in Stirring
      /\ \A i \in Place(p)', t \in Tokens :
            Carries(Ahead(p)'[i], t) => Ahead(p)'[i].code \in Stirring
      /\ "RA" \in AnswerCode
  BY DEF Carries, Stirring, GiftCode, AnswerCode
<1> USE DEF SameSide, SameTokens, SameFlags, Flagged, Suspended, Asked, Stirring, NoneOf,
            NoneAfter, p
<1>9. ~Suspended(s)' /\ ~Asked(s)'
  BY <1>2 DEF TokenKept, FlagsApart, Replies
<1>10. /\ NoneOf(s, Stirring) /\ NoneOf(p, AnswerCode) /\ Suspended(p)
       /\ m.code = "RA" => Flagged(p, "RS")
       /\ m.code = "AIA" => Flagged(p, "AI")
  BY <1>2 DEF TokenKept, SameAsk, AskedKept, Replies
<1>11. FlagsApart(s)'
  BY <1>1, <1>2, <1>3, <1>4, <1>5, <1>6, <1>7, <1>9, <1>10
     DEF TokenKept, FlagsApart, Replies
<1>12. FlagsApart(p)'
  BY <1>1, <1>2, <1>3, <1>4, <1>5, <1>6, <1>7, <1>9, <1>10
     DEF TokenKept, FlagsApart, Replies
<1>13. AskKept(s)'
  BY <1>1, <1>2, <1>3, <1>4, <1>5, <1>6, <1>7, <1>9, <1>10
     DEF TokenKept, AskKept, NoneBefore, StandsBy, Beats, Replies
<1>14. AskKept(p)'
  BY <1>1, <1>2, <1>3, <1>4, <1>5, <1>6, <1>7, <1>9, <1>10
     DEF TokenKept, AskKept, NoneBefore, StandsBy, Beats, Replies
<1>15. AskedKept(s)'
  BY <1>1, <1>2, <1>3, <1>4, <1>5, <1>6, <1>7, <1>9, <1>10
     DEF TokenKept, SameAsk, AskedKept, Replies
<1>16. AskedKept(p)'
  BY <1>1, <1>2, <1>3, <1>4, <1>5, <1>6, <1>7, <1>9, <1>10
     DEF TokenKept, SameAsk, AskedKept, Replies
<1>17. AnswerKept(s)'
  BY <1>1, <1>2, <1>3, <1>4, <1>5, <1>6, <1>7, <1>9, <1>10
     DEF TokenKept, AnswerKept, FlagsApart, Replies
<1>18. AnswerKept(p)'
  BY <1>1, <1>2, <1>3, <1>4, <1>5, <1>6, <1>7, <1>9, <1>10
     DEF TokenKept, AnswerKept, FlagsApart, Replies
<1>19. NothingUnsettled(s)'
  BY <1>1, <1>2, <1>3, <1>4, <1>5, <1>6, <1>7, <1>9, <1>10, <1>8
     DEF TokenKept, NothingUnsettled, Replies
<1>20. NothingUnsettled(p)'
  BY <1>1, <1>2, <1>3, <1>4, <1>5, <1>6, <1>7, <1>9, <1>10, <1>8
     DEF TokenKept, NothingUnsettled, Replies
<1>21. Once(s)'
  BY <1>1, <1>2, <1>3, <1>4, <1>5, <1>6, <1>7, <1>9, <1>10, <1>8
     DEF TokenKept, Once, Replies
<1>22. Once(p)'
  BY <1>1, <1>2, <1>3, <1>4, <1>5, <1>6, <1>7, <1>9, <1>10, <1>8
     DEF TokenKept, Once, Replies
<1>30. TokenKept(s)' /\ TokenKept(p)'
  BY <1>11, <1>12, <1>13, <1>14, <1>15, <1>16, <1>17,
     <1>18, <1>19, <1>20, <1>21, <1>22 DEF TokenKept
<1> QED BY <1>1, <1>30 DEF Good

(* A gift that is read has left the queue.                                 *)
LEMMA GainsKeeps ==
    ASSUME TypeOK, Good, NEW s \in Side, NEW m \in SpduSet, Gains(s, m)
    PROVE  Good'
<1> DEFINE p == Peer(s)
<1>1. p \in Side /\ p # s /\ Peer(p) = s /\ Side = {s, p}
  BY DEF Peer, Side
<1>2. TokenKept(s) /\ TokenKept(p)
  BY <1>1 DEF Good
<1>3. PICK f : \A i \in Place(s)' : Ahead(s)'[i].code \in Stirring =>
          /\ f[i] \in Place(s) /\ f[i] > 1 /\ Ahead(s)'[i] = Ahead(s)[f[i]]
          /\ \A j \in Place(s)' : j > i /\ Ahead(s)'[j].code \in Stirring => f[j] > f[i]
  BY KeptPlaces DEF Gains, ReadsOff
<1>4. PICK g : \A i \in Place(p)' : Ahead(p)'[i].code \in Stirring =>
          /\ g[i] \in Place(p) /\ g[i] > 0 /\ Ahead(p)'[i] = Ahead(p)[g[i]]
          /\ \A j \in Place(p)' : j > i /\ Ahead(p)'[j].code \in Stirring => g[j] > g[i]
  BY KeptPlaces DEF Gains, Still
<1>5. m.code \in Stirring /\ 1 \in Place(s) /\ Ahead(s)[1] = m
  <2>1. Ahead(s) \in Seq(SpduSet) /\ Ahead(s) # <<>> /\ Ahead(s)[1] = m
    BY AheadTyped DEF Gains, ReadsOff
  <2>2. 1 \in Place(s)
    BY <2>1 DEF Place
  <2> QED BY <2>1, <2>2 DEF Gains, Stirring, AskCode, AnswerCode, GiftCode
<1>6. SameSide(p)
  BY DEF Gains, Still
<1> HIDE DEF p
<1>8. /\ \A i \in Place(s)', t \in Tokens :
            Carries(Ahead(s)'[i], t) => Ahead(s)'[i].code \in Stirring
      /\ \A i \in Place(p)', t \in Tokens :
            Carries(Ahead(p)'[i], t) => Ahead(p)'[i].code \in Stirring
      /\ "RA" \in AnswerCode
  BY DEF Carries, Stirring, GiftCode, AnswerCode
<1> USE DEF SameSide, SameTokens, SameFlags, Flagged, Suspended, Asked, Stirring, NoneOf,
            NoneAfter, p
<1>9. NoneOf(p, AnswerCode)
  BY <1>1, <1>2, <1>5 DEF TokenKept, AnswerKept
<1>11. FlagsApart(s)'
  BY <1>1, <1>2, <1>3, <1>4, <1>5, <1>6, <1>9
     DEF TokenKept, FlagsApart, Gains
<1>12. FlagsApart(p)'
  BY <1>1, <1>2, <1>3, <1>4, <1>5, <1>6, <1>9
     DEF TokenKept, FlagsApart, Gains
<1>13. AskKept(s)'
  BY <1>1, <1>2, <1>3, <1>4, <1>5, <1>6, <1>9
     DEF TokenKept, AskKept, NoneBefore, StandsBy, Beats, Gains
<1>14. AskKept(p)'
  BY <1>1, <1>2, <1>3, <1>4, <1>5, <1>6, <1>9
     DEF TokenKept, AskKept, NoneBefore, StandsBy, Beats, Gains
<1>15. AskedKept(s)'
  BY <1>1, <1>2, <1>3, <1>4, <1>5, <1>6, <1>9
     DEF TokenKept, SameAsk, AskedKept, Gains
<1>16. AskedKept(p)'
  BY <1>1, <1>2, <1>3, <1>4, <1>5, <1>6, <1>9
     DEF TokenKept, SameAsk, AskedKept, Gains
<1>17. AnswerKept(s)'
  BY <1>1, <1>2, <1>3, <1>4, <1>5, <1>6, <1>9
     DEF TokenKept, AnswerKept, FlagsApart, Gains
<1>18. AnswerKept(p)'
  BY <1>1, <1>2, <1>3, <1>4, <1>5, <1>6, <1>9
     DEF TokenKept, AnswerKept, FlagsApart, Gains
<1>19. NothingUnsettled(s)'
  BY <1>1, <1>2, <1>3, <1>4, <1>5, <1>6, <1>9, <1>8
     DEF TokenKept, NothingUnsettled, Gains
<1>20. NothingUnsettled(p)'
  BY <1>1, <1>2, <1>3, <1>4, <1>5, <1>6, <1>9, <1>8
     DEF TokenKept, NothingUnsettled, Gains
<1>21. Once(s)'
  BY <1>1, <1>2, <1>3, <1>4, <1>5, <1>6, <1>9, <1>8
     DEF TokenKept, Once, Gains
<1>22. Once(p)'
  BY <1>1, <1>2, <1>3, <1>4, <1>5, <1>6, <1>9, <1>8
     DEF TokenKept, Once, Gains
<1>30. TokenKept(s)' /\ TokenKept(p)'
  BY <1>11, <1>12, <1>13, <1>14, <1>15, <1>16, <1>17,
     <1>18, <1>19, <1>20, <1>21, <1>22 DEF TokenKept
<1> QED BY <1>1, <1>30 DEF Good

(* Of two asks that cross one stands: who gives its own up for the peer's  *)
(* has sent an ask the peer will drop.                                     *)
LEMMA Beaten ==
    ASSUME TypeOK, NEW s \in Side, NEW a \in SpduSet, NEW m \in SpduSet,
           a.code \in AskCode, m.code \in AskCode,
           StandsBy(s, a), StandsBy(Peer(s), m), ~Beats(s, m)
    PROVE  Beats(Peer(s), a)
<1> DEFINE p == Peer(s)
<1>1. p \in Side /\ ((p = "init") <=> ~(s = "init"))
  BY DEF Peer, Side
<1>2. Suspended(s) /\ Suspended(p) /\ sb[s].rs = Op(a) /\ sb[p].rs = Op(m)
  BY DEF StandsBy, Suspended, Flagged
<1>3. /\ Op(a) = "restart" => sb[s].rsn = OpSsn(a)
      /\ Op(m) = "restart" => sb[p].rsn = OpSsn(m)
  BY DEF StandsBy, Op, OpSsn
<1>4. ~SDoCollideAux(s = "init", Op(a), sb[s].rsn, Op(m), OpSsn(m))
  BY <1>2 DEF Beats
<1>5. OpSsn(a) \in Int /\ OpSsn(m) \in Int
  BY DEF OpSsn, SpduSet, SpduShape
<1>6. Op(a) \in SyncType /\ Op(m) \in SyncType
  BY DEF Op, AskCode, SpduSet, SyncType
<1>7. /\ Rank[Op(a)] \in Int /\ Rank[Op(m)] \in Int
      /\ Rank[Op(a)] = Rank[Op(m)] => Op(a) = Op(m)
  BY <1>6 DEF Rank, SyncType, ReSync
<1> HIDE DEF p
<1>8. SDoCollideAux(p = "init", Op(m), sb[p].rsn, Op(a), OpSsn(a))
  <2>1. CASE Op(a) # Op(m)
    BY <1>4, <1>7, <2>1 DEF SDoCollideAux
  <2>2. CASE Op(a) = Op(m) /\ Op(a) \in {"intr", "disc"}
    BY <1>4, <2>2 DEF SDoCollideAux
  <2>3. CASE Op(a) = Op(m) /\ Op(a) \in {"set", "abandon"}
    BY <1>1, <1>4, <2>3 DEF SDoCollideAux
  <2>4. CASE Op(a) = Op(m) /\ Op(a) = "restart"
    BY <1>1, <1>3, <1>4, <1>5, <2>4 DEF SDoCollideAux
  <2> QED BY <1>6, <2>1, <2>2, <2>3, <2>4 DEF SyncType, ReSync
<1> QED BY <1>2, <1>8 DEF Beats, p

(* An ask that is accepted is the peer's last word, and the only one.      *)
LEMMA AcceptsKeeps ==
    ASSUME TypeOK, Good, NEW s \in Side, NEW m \in SpduSet, Accepts(s, m)
    PROVE  Good'
<1> DEFINE p == Peer(s)
<1>1. p \in Side /\ p # s /\ Peer(p) = s /\ Side = {s, p}
  BY DEF Peer, Side
<1>2. TokenKept(s) /\ TokenKept(p)
  BY <1>1 DEF Good
<1>3. PICK f : \A i \in Place(s)' : Ahead(s)'[i].code \in Stirring =>
          /\ f[i] \in Place(s) /\ f[i] > 1 /\ Ahead(s)'[i] = Ahead(s)[f[i]]
          /\ \A j \in Place(s)' : j > i /\ Ahead(s)'[j].code \in Stirring => f[j] > f[i]
  BY KeptPlaces DEF Accepts, ReadsOff
<1>4. PICK g : \A i \in Place(p)' : Ahead(p)'[i].code \in Stirring =>
          /\ g[i] \in Place(p) /\ g[i] > 0 /\ Ahead(p)'[i] = Ahead(p)[g[i]]
          /\ \A j \in Place(p)' : j > i /\ Ahead(p)'[j].code \in Stirring => g[j] > g[i]
  BY KeptPlaces DEF Accepts, Still
<1>5. m.code \in Stirring /\ 1 \in Place(s) /\ Ahead(s)[1] = m
  <2>1. Ahead(s) \in Seq(SpduSet) /\ Ahead(s) # <<>> /\ Ahead(s)[1] = m
    BY AheadTyped DEF Accepts, ReadsOff
  <2>2. 1 \in Place(s)
    BY <2>1 DEF Place
  <2> QED BY <2>1, <2>2 DEF Accepts, Stirring, AskCode, AnswerCode, GiftCode
<1>6. SameSide(p)
  BY DEF Accepts, Still
<1> HIDE DEF p
<1>8. /\ \A i \in Place(s)', t \in Tokens :
            Carries(Ahead(s)'[i], t) => Ahead(s)'[i].code \in Stirring
      /\ \A i \in Place(p)', t \in Tokens :
            Carries(Ahead(p)'[i], t) => Ahead(p)'[i].code \in Stirring
      /\ "RA" \in AnswerCode
  BY DEF Carries, Stirring, GiftCode, AnswerCode
<1> USE DEF SameSide, SameTokens, SameFlags, Flagged, Suspended, Asked, Stirring, NoneOf,
            NoneAfter, p
<1>9. /\ ~Asked(s) /\ ~Asked(p) /\ Suspended(p) /\ StandsBy(p, m)
      /\ NoneOf(p, AnswerCode) /\ NoneAfter(s, 1, Stirring)
  <2>1. /\ ~Asked(s) /\ NoneOf(p, AnswerCode)
        /\ StandsBy(p, m) /\ NoneAfter(s, 1, Stirring)
    BY <1>2, <1>5 DEF TokenKept, AskKept, Accepts
  <2>2. ~Asked(p)
    <3>1. CASE Flagged(p, "RA")
      BY <1>2, <2>1, <3>1 DEF TokenKept, FlagsApart, StandsBy
    <3>2. CASE Flagged(p, "AIA")
      <4>1. m.code # "RS" /\ Op(m) = "intr"
        BY <1>2, <2>1, <3>2 DEF TokenKept, FlagsApart, StandsBy
      <4>2. Flagged(s, "AI") /\ sb[s].rs \in {"intr", "disc"}
        BY <1>1, <1>2, <3>2 DEF TokenKept, FlagsApart, SameAsk, AskedKept
      <4>3. Beats(s, m)
        BY <4>1, <4>2 DEF Beats, SDoCollideAux, Rank
      <4> QED BY <4>3 DEF Accepts
    <3> QED BY <3>1, <3>2
  <2> QED BY <2>1, <2>2 DEF StandsBy
<1>10. NoneOf(s, Stirring)'
  BY <1>3, <1>9
<1>a. \A i \in Place(p) : Ahead(p)[i].code \in AskCode => Beats(p, Ahead(p)[i])
  <2> TAKE i \in Place(p)
  <2> HAVE Ahead(p)[i].code \in AskCode
  <2>1. Ahead(p)[i] \in SpduSet
    BY <1>1, AheadTyped DEF Place
  <2>2. CASE StandsBy(s, Ahead(p)[i])
    BY <1>9, <2>1, <2>2, Beaten DEF Accepts
  <2>3. CASE Beats(p, Ahead(p)[i])
    BY <2>3
  <2> QED BY <1>1, <1>2, <2>2, <2>3 DEF TokenKept, AskKept
<1>b. m.code = "RS" => ~Flagged(s, "AI")
  <2> SUFFICES ASSUME m.code = "RS", Flagged(s, "AI") PROVE Beats(s, m)
    BY DEF Accepts
  <2>1. sb[s].rs \in {"intr", "disc"} /\ Op(m) \in ReSync
    BY <1>2 DEF TokenKept, FlagsApart, Op, SpduSet
  <2> QED BY <2>1 DEF Beats, SDoCollideAux, Rank, ReSync
<1>11. FlagsApart(s)'
  BY <1>1, <1>2, <1>3, <1>4, <1>5, <1>6, <1>9, <1>10, <1>a, <1>b
     DEF TokenKept, FlagsApart, Accepts
<1>12. FlagsApart(p)'
  BY <1>1, <1>2, <1>3, <1>4, <1>5, <1>6, <1>9, <1>10, <1>a, <1>b
     DEF TokenKept, FlagsApart, Accepts
<1>13. AskKept(s)'
  BY <1>1, <1>2, <1>3, <1>4, <1>5, <1>6, <1>9, <1>10, <1>a, <1>b
     DEF TokenKept, AskKept, NoneBefore, StandsBy, Beats, Accepts
<1>14. AskKept(p)'
  BY <1>1, <1>2, <1>3, <1>4, <1>5, <1>6, <1>9, <1>10, <1>a, <1>b
     DEF TokenKept, AskKept, NoneBefore, StandsBy, Beats, Accepts
<1>15. AskedKept(s)'
  BY <1>1, <1>4, <1>6, <1>9, <1>10 DEF SameAsk, AskedKept, StandsBy, Accepts
<1>16. AskedKept(p)'
  BY <1>1, <1>2, <1>3, <1>4, <1>5, <1>6, <1>9, <1>10, <1>a, <1>b
     DEF TokenKept, SameAsk, AskedKept, Accepts
<1>17. AnswerKept(s)'
  BY <1>1, <1>2, <1>3, <1>4, <1>5, <1>6, <1>9, <1>10, <1>a, <1>b
     DEF TokenKept, AnswerKept, FlagsApart, Accepts
<1>18. AnswerKept(p)'
  BY <1>1, <1>2, <1>3, <1>4, <1>5, <1>6, <1>9, <1>10, <1>a, <1>b
     DEF TokenKept, AnswerKept, FlagsApart, Accepts
<1>19. NothingUnsettled(s)'
  BY <1>1, <1>2, <1>3, <1>4, <1>5, <1>6, <1>9, <1>10, <1>a, <1>b, <1>8
     DEF TokenKept, NothingUnsettled, Accepts
<1>20. NothingUnsettled(p)'
  BY <1>1, <1>2, <1>3, <1>4, <1>5, <1>6, <1>9, <1>10, <1>a, <1>b, <1>8
     DEF TokenKept, NothingUnsettled, Accepts
<1>21. Once(s)'
  BY <1>1, <1>2, <1>3, <1>4, <1>5, <1>6, <1>9, <1>10, <1>a, <1>b, <1>8
     DEF TokenKept, Once, Accepts
<1>22. Once(p)'
  BY <1>1, <1>2, <1>3, <1>4, <1>5, <1>6, <1>9, <1>10, <1>a, <1>b, <1>8
     DEF TokenKept, Once, Accepts
<1>30. TokenKept(s)' /\ TokenKept(p)'
  BY <1>11, <1>12, <1>13, <1>14, <1>15, <1>16, <1>17,
     <1>18, <1>19, <1>20, <1>21, <1>22 DEF TokenKept
<1> QED BY <1>1, <1>30 DEF Good

(* An answer settles who holds what, the gifts behind it included.         *)
LEMMA SettlesKeeps ==
    ASSUME TypeOK, Good, NEW s \in Side, NEW m \in SpduSet, Settles(s, m)
    PROVE  Good'
<1> DEFINE p == Peer(s)
<1>1. p \in Side /\ p # s /\ Peer(p) = s /\ Side = {s, p}
  BY DEF Peer, Side
<1>2. TokenKept(s) /\ TokenKept(p)
  BY <1>1 DEF Good
<1>3. PICK f : \A i \in Place(s)' : Ahead(s)'[i].code \in Stirring =>
          /\ f[i] \in Place(s) /\ f[i] > 1 /\ Ahead(s)'[i] = Ahead(s)[f[i]]
          /\ \A j \in Place(s)' : j > i /\ Ahead(s)'[j].code \in Stirring => f[j] > f[i]
  BY KeptPlaces DEF Settles, ReadsOff
<1>4. PICK g : \A i \in Place(p)' : Ahead(p)'[i].code \in Stirring =>
          /\ g[i] \in Place(p) /\ g[i] > 0 /\ Ahead(p)'[i] = Ahead(p)[g[i]]
          /\ \A j \in Place(p)' : j > i /\ Ahead(p)'[j].code \in Stirring => g[j] > g[i]
  BY KeptPlaces DEF Settles, Still
<1>5. m.code \in Stirring /\ 1 \in Place(s) /\ Ahead(s)[1] = m
  <2>1. Ahead(s) \in Seq(SpduSet) /\ Ahead(s) # <<>> /\ Ahead(s)[1] = m
    BY AheadTyped DEF Settles, ReadsOff
  <2>2. 1 \in Place(s)
    BY <2>1 DEF Place
  <2> QED BY <2>1, <2>2 DEF Settles, Stirring, AskCode, AnswerCode, GiftCode
<1>6. SameSide(p)
  BY DEF Settles, Still
<1> HIDE DEF p
<1>8. /\ \A i \in Place(s)', t \in Tokens :
            Carries(Ahead(s)'[i], t) => Ahead(s)'[i].code \in Stirring
      /\ \A i \in Place(p)', t \in Tokens :
            Carries(Ahead(p)'[i], t) => Ahead(p)'[i].code \in Stirring
      /\ "RA" \in AnswerCode
  BY DEF Carries, Stirring, GiftCode, AnswerCode
<1> USE DEF SameSide, SameTokens, SameFlags, Flagged, Suspended, Asked, Stirring, NoneOf,
            NoneAfter, p
<1>9. /\ ~Asked(s) /\ ~Asked(p) /\ NoneOf(p, Stirring) /\ NoneAfter(s, 1, AnswerCode)
      /\ m.code \in AnswerCode
      /\ m.code = "RA" => Flagged(s, "RS") /\ m.settings \in FinalSettings
      /\ m.code = "AIA" =>
            Flagged(s, "AI") /\ sb[p].owned = {} /\ NoneAfter(s, 1, GiftCode)
  <2>1. m.code \in AnswerCode
    BY DEF Settles, AnswerCode
  <2> QED BY <1>2, <1>5, <2>1 DEF TokenKept, AnswerKept, AskedKept
<1>10. ~Suspended(s)' /\ ~Asked(s)'
  BY <1>2, <1>9 DEF TokenKept, FlagsApart, Settles
<1>a. ASSUME NEW t \in Tokens, ~Suspended(p)
      PROVE  /\ t \in sb'[s].owned \/ t \in sb[p].owned =>
                    \A j \in Place(s) : j > 1 => ~Carries(Ahead(s)[j], t)
             /\ t \in sb'[s].owned => t \notin sb[p].owned
             /\ \A j \in Place(s) : j > 1 /\ Carries(Ahead(s)[j], t) =>
                    \A k \in Place(s) : k > j => ~Carries(Ahead(s)[k], t)
  <2>1. CASE m.code = "RA"
    BY <1>1, <1>2, <1>5, <1>9, <1>a, <2>1 DEF TokenKept, NothingUnsettled, Settles
  <2>2. CASE m.code = "AIA"
    BY <1>9, <2>2 DEF Carries, GiftCode
  <2> QED BY <2>1, <2>2 DEF Settles
<1>b. \A j \in Place(p), t \in Tokens : ~Carries(Ahead(p)[j], t)
  BY <1>9 DEF Carries, GiftCode
<1>11. FlagsApart(s)'
  BY <1>1, <1>2, <1>3, <1>4, <1>5, <1>6, <1>9, <1>10
     DEF TokenKept, FlagsApart, Settles
<1>12. FlagsApart(p)'
  BY <1>1, <1>2, <1>3, <1>4, <1>5, <1>6, <1>9, <1>10
     DEF TokenKept, FlagsApart, Settles
<1>13. AskKept(s)'
  BY <1>1, <1>2, <1>3, <1>4, <1>5, <1>6, <1>9, <1>10
     DEF TokenKept, AskKept, NoneBefore, StandsBy, Beats, Settles
<1>14. AskKept(p)'
  BY <1>1, <1>2, <1>3, <1>4, <1>5, <1>6, <1>9, <1>10
     DEF TokenKept, AskKept, NoneBefore, StandsBy, Beats, Settles
<1>15. AskedKept(s)'
  BY <1>1, <1>2, <1>3, <1>4, <1>5, <1>6, <1>9, <1>10
     DEF TokenKept, SameAsk, AskedKept, Settles
<1>16. AskedKept(p)'
  BY <1>1, <1>2, <1>3, <1>4, <1>5, <1>6, <1>9, <1>10
     DEF TokenKept, SameAsk, AskedKept, Settles
<1>17. AnswerKept(s)'
  BY <1>1, <1>2, <1>3, <1>4, <1>5, <1>6, <1>9, <1>10
     DEF TokenKept, AnswerKept, FlagsApart, Settles
<1>18. AnswerKept(p)'
  BY <1>1, <1>2, <1>3, <1>4, <1>5, <1>6, <1>9, <1>10
     DEF TokenKept, AnswerKept, FlagsApart, Settles
<1>19. NothingUnsettled(s)'
  BY <1>1, <1>2, <1>3, <1>4, <1>5, <1>6, <1>9, <1>10, <1>8
     DEF TokenKept, NothingUnsettled, Settles
<1>20. NothingUnsettled(p)'
  BY <1>1, <1>2, <1>3, <1>4, <1>5, <1>6, <1>9, <1>10, <1>8
     DEF TokenKept, NothingUnsettled, Settles
<1>21. Once(s)'
  BY <1>1, <1>3, <1>4, <1>6, <1>8, <1>10, <1>a, <1>b DEF Once, Settles
<1>22. Once(p)'
  BY <1>1, <1>3, <1>4, <1>6, <1>8, <1>10, <1>a, <1>b DEF Once, Settles
<1>30. TokenKept(s)' /\ TokenKept(p)'
  BY <1>11, <1>12, <1>13, <1>14, <1>15, <1>16, <1>17,
     <1>18, <1>19, <1>20, <1>21, <1>22 DEF TokenKept
<1> QED BY <1>1, <1>30 DEF Good

-----------------------------------------------------------------------------
(* A new connection: no SPDU on its way and nothing asked, each token at   *)
(* the one end connection establishment gave it to.                        *)
LEMMA TokenInvInit == Init => TokenInv
<1> SUFFICES ASSUME Init PROVE Good
  BY DEF TokenInv, Good
<1>1. PICK share \in [Tokens -> Side], isn \in {0, 1} :
        /\ sb = [s \in Side |-> newsblk({t \in Tokens : share[t] = s}, isn)]
        /\ net = [s \in Side |-> <<>>]
  BY DEF Init
<1> SUFFICES ASSUME NEW s \in Side PROVE TokenKept(s)
  BY DEF Good
<1>2. Peer(s) \in Side /\ Peer(s) # s
  BY DEF Peer, Side
<1>3. \A x \in Side : /\ sb[x].flags = {} /\ sb[x].spdu = <<>> /\ net[x] = <<>>
                      /\ sb[x].owned = {t \in Tokens : share[t] = x}
  BY <1>1 DEF newsblk
<1>4. \A x \in Side : Place(x) = {} /\ ~Suspended(x)
                      /\ \A f \in {"RS", "RA", "AI", "AIA"} : ~Flagged(x, f)
  <2> SUFFICES ASSUME NEW x \in Side
               PROVE  /\ Place(x) = {} /\ ~Suspended(x)
                      /\ \A f \in {"RS", "RA", "AI", "AIA"} : ~Flagged(x, f)
    OBVIOUS
  <2>1. <<>> \o <<>> = <<>> /\ Len(<<>>) = 0
    OBVIOUS
  <2>2. Len(Ahead(x)) = 0
    BY <1>3, <2>1 DEF Ahead
  <2>3. Place(x) = {}
    BY <2>2 DEF Place
  <2> QED BY <1>3, <2>3 DEF Suspended, Flagged
<1>5. \A t \in sb[s].owned : t \notin sb[Peer(s)].owned
  BY <1>2, <1>3
<1>6. FlagsApart(s) /\ AskKept(s) /\ AskedKept(s) /\ AnswerKept(s) /\ NothingUnsettled(s)
  BY <1>4 DEF FlagsApart, AskKept, AskedKept, AnswerKept, NothingUnsettled, Asked
<1>7. Once(s)
  BY <1>2, <1>4, <1>5 DEF Once
<1> QED BY <1>6, <1>7 DEF TokenKept

(* Every kind of step keeps it.                                            *)
LEMMA StepKeeps ==
    ASSUME TypeOK, Good, NEW s \in Side, Step(s)
    PROVE  Good'
<1>1. CASE \/ Passes(s) \/ Resumes(s) \/ Stops(s)
           \/ \E m \in SpduSet : Finishes(s, m) \/ Confirms(s, m)
  BY <1>1, ReleaseUndisturbed, IdleKeeps
<1>2. ASSUME NEW m \in SpduSet, Gives(s, m) PROVE Good'
  BY <1>2, GivesKeeps
<1>3. ASSUME NEW m \in SpduSet, Gains(s, m) PROVE Good'
  BY <1>3, GainsKeeps
<1>4. ASSUME NEW m \in SpduSet, Asks(s, m) PROVE Good'
  BY <1>4, AsksKeeps
<1>5. ASSUME NEW m \in SpduSet, Replies(s, m) PROVE Good'
  BY <1>5, RepliesKeeps
<1>6. ASSUME NEW m \in SpduSet, Accepts(s, m) PROVE Good'
  BY <1>6, AcceptsKeeps
<1>7. ASSUME NEW m \in SpduSet, Settles(s, m) PROVE Good'
  BY <1>7, SettlesKeeps
<1> QED BY <1>1, <1>2, <1>3, <1>4, <1>5, <1>6, <1>7 DEF Step

(* The invariant is inductive: while both ends are in use every step is    *)
(* one of the kinds above, and an end that is closing is not used again.   *)
LEMMA TokenInvNext == TypeOK /\ TokenInv /\ [Next]_vars => TokenInv'
<1> SUFFICES ASSUME TypeOK, TokenInv, [Next]_vars, BothLive' PROVE Good'
  BY DEF TokenInv, Good
<1>1. CASE UNCHANGED vars
  <2>1. BothLive /\ Good
    BY <1>1 DEF vars, BothLive, Live, TokenInv, Good
  <2> QED BY <1>1, <2>1, StutterIdle, StepKeeps DEF Step, Side
<1>2. CASE Next
  <2>1. BothLive /\ Good
    BY <1>2, LiveBefore DEF TokenInv, Good
  <2>2. PICK s \in Side : UserRequest(s) \/ UserResponse(s) \/ Read(s) \/ Timer(s)
    BY <1>2 DEF Next
  <2>3. Step(s)
    BY <2>1, <2>2, RequestSteps, ResponseSteps, TimerSteps, ReadSteps
  <2> QED BY <2>1, <2>3, StepKeeps
<1> QED BY <1>1, <1>2

(* It implies that no token is held twice.                                 *)
LEMMA TokenInvHolds == TokenInv => TokenHeldOnce
<1> SUFFICES ASSUME TokenInv, BothLive, NEW t \in Tokens, Holds("init", t), Holds("resp", t),
                    \A s \in Side : ~Suspended(s)
             PROVE  FALSE
  BY DEF TokenHeldOnce
<1>1. /\ "init" \in Side /\ "resp" \in Side
      /\ Peer("init") = "resp" /\ Peer("resp") = "init"
  BY DEF Side, Peer
<1>2. Once("init") /\ Once("resp")
  BY <1>1 DEF TokenInv, TokenKept
<1>3. \A s \in Side : t \in sb[s].owned \/ \E j \in Place(s) : Carries(Ahead(s)[j], t)
  BY DEF Holds, Place, Carries, Side
<1> QED BY <1>1, <1>2, <1>3 DEF Once

(* For every choice of functional units, transport, bounds and calls, no   *)
(* token is held at both ends of a connection, in a block or in a GT on    *)
(* its way, unless a resynchronization or an interrupt is still open.      *)
THEOREM TokenAlwaysHeldOnce == Spec => []TokenHeldOnce
<1>1. Init => TokenInv
  BY TokenInvInit
<1>2. TypeOK /\ TokenInv /\ [Next]_vars => TokenInv'
  BY TokenInvNext
<1>3. TokenInv => TokenHeldOnce
  BY TokenInvHolds
<1> QED BY <1>1, <1>2, <1>3, Typing, PTL DEF Spec

(* Whatever resynchronizations, interrupts and discards crossed, a user    *)
(* that is asked to answer a resynchronization is asked about the one its  *)
(* peer waits on: type, serial number and token settings.                  *)
THEOREM ResyncAlwaysAgreed == Spec => []ResyncAgreed
<1>1. Init => TokenInv
  BY TokenInvInit
<1>2. TypeOK /\ TokenInv /\ [Next]_vars => TokenInv'
  BY TokenInvNext
<1>3. TokenInv => ResyncAgreed
  <2> SUFFICES ASSUME TokenInv, BothLive, NEW s \in Side, Flagged(s, "RA")
               PROVE  Flagged(Peer(s), "RS") /\ SameAsk(s)
    BY DEF ResyncAgreed, SameAsk
  <2>1. AskedKept(s)
    BY DEF TokenInv, TokenKept
  <2> QED BY <2>1 DEF AskedKept, Asked
<1> QED BY <1>1, <1>2, <1>3, Typing, PTL DEF Spec

-----------------------------------------------------------------------------
(* Preparation.                                                            *)

(* The SPDU that ends preparation t is in q, on the normal flow.           *)
Comes(t, q) == \E j \in 1..Len(q) : ~q[j].xpd /\ EndsPreparation(t, q[j])

(* Each PR is followed by the SPDU it announces.                           *)
FollowedAt(q, i) == \E j \in 1..Len(q) : j > i /\ ~q[j].xpd /\ EndsPreparation(q[i].type, q[j])
Announced(q)     == \A i \in 1..Len(q) : q[i].code = "PR" => FollowedAt(q, i)

NoAbort(q) == \A i \in 1..Len(q) : q[i].code # "AB"

(* What a side put back is one RS.                                         *)
PutBack(q) == Len(q) <= 1 /\ \A i \in 1..Len(q) : q[i].code = "RS"

Prepared(s) ==
    /\ Announced(net[s]) /\ NoAbort(net[s]) /\ PutBack(sb[s].spdu)
    /\ sb[s].pr # "PR" => Comes(sb[s].pr, net[s]) \/ Comes(sb[s].pr, sb[s].spdu)

PrepInv == BothLive => \A s \in Side : Prepared(s)

(* Everything of q is in r, in the same order: g says where.               *)
Embedded(q, r, g) ==
    \A i \in 1..Len(q) : /\ g[i] \in 1..Len(r) /\ r[g[i]] = q[i]
                         /\ \A j \in 1..Len(q) : j > i => g[j] > g[i]

Stays(q, r) == \E g : Embedded(q, r, g)

(* r is q with SPDUs added that leave no preparation open.                 *)
Grown(q, r) ==
    /\ Announced(q) /\ NoAbort(q) => Announced(r) /\ NoAbort(r)
    /\ \A t : Comes(t, q) => Comes(t, r)
    /\ Stays(q, r)

(* Everything of q is in r, in the same order, and what is new there is    *)
(* neither an abort nor a PR without what it announces.                    *)
LEMMA GrownBy ==
    ASSUME NEW q \in Seq(SpduSet), NEW r \in Seq(SpduSet),
           NEW g \in [1..Len(q) -> 1..Len(r)],
           \A i \in 1..Len(q) : r[g[i]] = q[i],
           \A i, j \in 1..Len(q) : j > i => g[j] > g[i],
           \A k \in 1..Len(r) : \/ \E i \in 1..Len(q) : k = g[i]
                                \/ r[k].code \notin {"PR", "AB"}
                                \/ r[k].code = "PR" /\ FollowedAt(r, k)
    PROVE  Grown(q, r)
<1>1. ASSUME NEW t, Comes(t, q) PROVE Comes(t, r)
  BY <1>1 DEF Comes
<1>2. ASSUME Announced(q), NEW i \in 1..Len(q), q[i].code = "PR"
      PROVE  FollowedAt(r, g[i])
  <2>1. PICK j \in 1..Len(q) : j > i /\ ~q[j].xpd /\ EndsPreparation(q[i].type, q[j])
    BY <1>2 DEF Announced, FollowedAt
  <2>2. g[j] \in 1..Len(r) /\ g[j] > g[i] /\ r[g[j]] = q[j] /\ r[g[i]] = q[i]
    BY <2>1
  <2> QED BY <2>1, <2>2 DEF FollowedAt
<1>3. ASSUME Announced(q) PROVE Announced(r)
  BY <1>2, <1>3 DEF Announced
<1>4. ASSUME NoAbort(q) PROVE NoAbort(r)
  BY <1>4 DEF NoAbort
<1>5. Embedded(q, r, g)
  BY DEF Embedded
<1>6. Stays(q, r)
  BY <1>5, Zenon DEF Stays
<1> QED BY <1>1, <1>3, <1>4, <1>6 DEF Grown

(* Nothing joins.                                                          *)
LEMMA GrownSame == \A q : Grown(q, q)
<1> TAKE q
<1> DEFINE g == [i \in 1..Len(q) |-> i]
<1>1. Embedded(q, q, g)
  BY DEF Embedded
<1>2. Stays(q, q)
  BY <1>1, Zenon DEF Stays
<1> QED BY <1>2 DEF Grown

(* An SPDU that is not prepared for joins at the end,                      *)
LEMMA GrownAppend ==
    ASSUME NEW q \in Seq(SpduSet), NEW m \in SpduSet, m.code \notin {"PR", "AB"}
    PROVE  Grown(q, Append(q, m))
<1> DEFINE r == Append(q, m)
           g == [i \in 1..Len(q) |-> i]
<1>1. /\ r \in Seq(SpduSet) /\ Len(r) = Len(q) + 1 /\ Len(q) \in Nat
      /\ r[Len(q) + 1] = m /\ \A i \in 1..Len(q) : r[i] = q[i]
  OBVIOUS
<1> HIDE DEF r
<1>2. /\ g \in [1..Len(q) -> 1..Len(r)]
      /\ \A i \in 1..Len(q) : r[g[i]] = q[i]
      /\ \A i, j \in 1..Len(q) : j > i => g[j] > g[i]
  BY <1>1
<1>3. \A k \in 1..Len(r) : (\E i \in 1..Len(q) : k = g[i]) \/ r[k].code \notin {"PR", "AB"}
  BY <1>1
<1> HIDE DEF g
<1>4. Grown(q, r)
  BY <1>1, <1>2, <1>3, GrownBy
<1> QED BY <1>4 DEF r

(* an expedited one somewhere,                                             *)
LEMMA GrownInsert ==
    ASSUME NEW q \in Seq(SpduSet), NEW n \in 0..Len(q), NEW m \in SpduSet,
           m.code \notin {"PR", "AB"}
    PROVE  Grown(q, InsertAfter(q, n, m))
<1> DEFINE r == InsertAfter(q, n, m)
           g == [i \in 1..Len(q) |-> IF i <= n THEN i ELSE i + 1]
<1>1. /\ r \in Seq(SpduSet) /\ Len(r) = Len(q) + 1
      /\ \A i \in 1..n : r[i] = q[i]
      /\ r[n + 1] = m
      /\ \A i \in 1..Len(q) + 1 : i > n + 1 => r[i] = q[i - 1]
  BY Inserted, InsertAfterTyped
<1>n. Len(q) \in Nat /\ n \in Nat /\ n <= Len(q)
  OBVIOUS
<1> HIDE DEF r
<1>2. /\ g \in [1..Len(q) -> 1..Len(r)]
      /\ \A i, j \in 1..Len(q) : j > i => g[j] > g[i]
  BY <1>1, <1>n
<1>3. ASSUME NEW i \in 1..Len(q) PROVE r[g[i]] = q[i]
  <2>1. CASE i <= n
    BY <1>1, <1>n, <2>1
  <2>2. CASE i > n
    <3>1. i + 1 \in 1..Len(q) + 1 /\ i + 1 > n + 1 /\ (i + 1) - 1 = i /\ g[i] = i + 1
      BY <1>n, <2>2
    <3> QED BY <1>1, <3>1
  <2> QED BY <1>n, <2>1, <2>2
<1>4. ASSUME NEW k \in 1..Len(r), k # n + 1 PROVE \E i \in 1..Len(q) : k = g[i]
  <2>1. CASE k <= n
    <3>1. k \in 1..Len(q) /\ g[k] = k
      BY <1>n, <2>1
    <3> QED BY <3>1
  <2>2. CASE k > n + 1
    <3>1. k - 1 \in 1..Len(q) /\ g[k - 1] = k
      BY <1>1, <1>n, <2>2
    <3> QED BY <3>1
  <2> QED BY <1>1, <1>4, <1>n, <2>1, <2>2
<1>5. \A k \in 1..Len(r) : (\E i \in 1..Len(q) : k = g[i]) \/ r[k].code \notin {"PR", "AB"}
  BY <1>1, <1>4
<1> HIDE DEF g
<1>6. Grown(q, r)
  BY <1>1, <1>2, <1>3, <1>5, GrownBy
<1> QED BY <1>6 DEF r

(* and a PR somewhere with what it announces at the end.                   *)
LEMMA GrownPrepared ==
    ASSUME NEW q \in Seq(SpduSet), NEW n \in 0..Len(q), NEW x \in SpduSet, x.code = "PR",
           NEW m \in SpduSet, ~m.xpd, m.code \notin {"PR", "AB"}, EndsPreparation(x.type, m)
    PROVE  Grown(q, Append(InsertAfter(q, n, x), m))
<1> DEFINE a == InsertAfter(q, n, x)
<1>1. /\ a \in Seq(SpduSet) /\ Len(a) = Len(q) + 1
      /\ \A i \in 1..n : a[i] = q[i]
      /\ a[n + 1] = x
      /\ \A i \in 1..Len(q) + 1 : i > n + 1 => a[i] = q[i - 1]
  <2>1. a \in Seq(SpduSet)
    BY InsertAfterTyped
  <2>2. /\ Len(a) = Len(q) + 1
        /\ \A i \in 1..n : a[i] = q[i]
        /\ a[n + 1] = x
        /\ \A i \in 1..Len(q) + 1 : i > n + 1 => a[i] = q[i - 1]
    BY Inserted
  <2> QED BY <2>1, <2>2
<1>n. Len(q) \in Nat /\ n \in Nat /\ n <= Len(q)
  OBVIOUS
<1> DEFINE r == Append(a, m)
           g == [i \in 1..Len(q) |-> IF i <= n THEN i ELSE i + 1]
<1> HIDE DEF a
<1>2. /\ r \in Seq(SpduSet) /\ Len(r) = Len(a) + 1
      /\ r[Len(a) + 1] = m /\ \A i \in 1..Len(a) : r[i] = a[i]
  BY <1>1
<1> HIDE DEF r
<1>l. Len(r) = Len(q) + 2 /\ r[Len(q) + 2] = m
  BY <1>1, <1>2, <1>n
<1>3. \A i \in 1..Len(q) + 1 : r[i] = a[i]
  BY <1>1, <1>2
<1>4. /\ g \in [1..Len(q) -> 1..Len(r)]
      /\ \A i, j \in 1..Len(q) : j > i => g[j] > g[i]
  BY <1>l, <1>n
<1>5. ASSUME NEW i \in 1..Len(q) PROVE r[g[i]] = q[i]
  <2>1. CASE i <= n
    BY <1>1, <1>3, <1>n, <2>1
  <2>2. CASE i > n
    <3>1. i + 1 \in 1..Len(q) + 1 /\ i + 1 > n + 1 /\ (i + 1) - 1 = i /\ g[i] = i + 1
      BY <1>n, <2>2
    <3> QED BY <1>1, <1>3, <3>1
  <2> QED BY <1>n, <2>1, <2>2
<1>6. ASSUME NEW k \in 1..Len(r), k # n + 1, k # Len(q) + 2
      PROVE  \E i \in 1..Len(q) : k = g[i]
  <2>1. CASE k <= n
    <3>1. k \in 1..Len(q) /\ g[k] = k
      BY <1>n, <2>1
    <3> QED BY <3>1
  <2>2. CASE k > n + 1
    <3>1. k - 1 \in 1..Len(q) /\ g[k - 1] = k
      BY <1>l, <1>n, <1>6, <2>2
    <3> QED BY <3>1
  <2> QED BY <1>6, <1>n, <2>1, <2>2
<1>7. r[n + 1] = x /\ FollowedAt(r, n + 1)
  <2>1. n + 1 \in 1..Len(q) + 1 /\ Len(q) + 2 \in 1..Len(r) /\ Len(q) + 2 > n + 1
    BY <1>l, <1>n
  <2>2. r[n + 1] = x
    BY <1>1, <1>3, <2>1
  <2> QED BY <1>l, <2>1, <2>2 DEF FollowedAt
<1>8. \A k \in 1..Len(r) : \/ \E i \in 1..Len(q) : k = g[i]
                           \/ r[k].code \notin {"PR", "AB"}
                           \/ r[k].code = "PR" /\ FollowedAt(r, k)
  BY <1>6, <1>7, <1>l
<1> HIDE DEF g
<1>9. Grown(q, r)
  BY <1>2, <1>4, <1>5, <1>8, GrownBy
<1> QED BY <1>9 DEF r, a

(* What a user sends, other than an abort, leaves no preparation open.     *)
LEMMA SentGrows ==
    ASSUME TypeOK, NEW s \in Side, Live(Peer(s)),
           NEW m \in SpduSet, m.code \notin {"PR", "AB"},
           spkt2sd(s, m) \/ (~m.xpd /\ SWriteRequestAux(s, m))
    PROVE  Grown(net[Peer(s)], net'[Peer(s)]) /\ net'[s] = net[s]
<1> DEFINE p == Peer(s)
           q == net[p]
<1>1. p \in Side /\ p # s /\ q \in Seq(SpduSet) /\ ~Closed(sb[p])
  BY LiveOpen DEF Peer, Side, TypeOK
<1>2. ASSUME NEW r \in Queued(q, m) PROVE Grown(q, r)
  <2>1. CASE m.xpd
    <3>1. PICK i \in 0..Len(q) : r = InsertAfter(q, i, m)
      BY <1>2, <2>1 DEF Queued, ExpeditedSlots
    <3> QED BY <1>1, <3>1, GrownInsert
  <2>2. CASE ~m.xpd
    BY <1>1, <1>2, <2>2, GrownAppend DEF Queued
  <2> QED BY <2>1, <2>2
<1>3. ASSUME NEW r \in Written(q, m), ~m.xpd PROVE Grown(q, r)
  <2>1. CASE Expd /\ Preparation(m.code) # "none"
    <3> DEFINE t == Preparation(m.code)
               x == Prepare(t)
    <3>1. t \in PrType /\ EndsPreparation(t, m)
      BY <2>1 DEF Preparation, PrType, EndsPreparation
    <3>2. x \in SpduSet /\ x.code = "PR" /\ x.type = t /\ x.xpd
      BY <3>1, MessagesTyped DEF Prepare, Spdu
    <3> HIDE DEF x
    <3>3. PICK a \in Queued(q, x) : r = Append(a, m)
      BY <1>3, <2>1 DEF Written, x
    <3>4. PICK i \in 0..Len(q) : a = InsertAfter(q, i, x)
      BY <3>2, <3>3 DEF Queued, ExpeditedSlots
    <3> QED BY <1>1, <1>3, <3>1, <3>2, <3>3, <3>4, GrownPrepared
  <2>2. CASE ~(Expd /\ Preparation(m.code) # "none")
    <3>1. r = Append(q, m)
      BY <1>3, <2>2 DEF Written
    <3> QED BY <1>1, <3>1, GrownAppend
  <2> QED BY <2>1, <2>2
<1>4. PICK r : /\ r \in Queued(q, m) \/ (~m.xpd /\ r \in Written(q, m))
               /\ net' = [net EXCEPT ![p] = Arriving(p, r)]
  BY Zenon DEF spkt2sd, SWriteRequestAux
<1>5. net'[p] = r /\ net'[s] = net[s]
  BY <1>1, <1>4 DEF Arriving, TypeOK
<1> QED BY <1>2, <1>3, <1>4, <1>5

-----------------------------------------------------------------------------
(* The steps of Session, seen from preparations.                           *)

SamePrep(s) == sb'[s].pr = sb[s].pr /\ sb'[s].spdu = sb[s].spdu

(* s sends, if anything, an SPDU that leaves no preparation open.          *)
Speaks(s) ==
    SamePrep(s) /\ net'[s] = net[s] /\ Grown(net[Peer(s)], net'[Peer(s)])

(* s reads an SPDU: outside of a release, ...                              *)
ReadsIt(s) ==
    /\ sb'[s].spdu = sb2spkt(sb[s]).spdu
    /\ \/ sb'[s].pr = Taken(s).pr
       \/ /\ Incoming(s).code = "PR" /\ ~PrAfterPr(s)
          /\ sb'[s].pr = Incoming(s).type

(* ... or waiting for the answer to one, when an RS is put back.           *)
AwaitsIt(s) ==
    /\ sb'[s].pr = sb[s].pr
    /\ \/ Incoming(s).code \in {"FN", "NF"} /\ sb'[s].spdu = sb2spkt(sb[s]).spdu
       \/ Incoming(s).code = "RS" /\ sb'[s].spdu = <<Incoming(s)>>

Hears(s) ==
    /\ Readable(s) /\ net'[s] = Rest(s) /\ Grown(net[Peer(s)], net'[Peer(s)])
    /\ ReadsIt(s) \/ AwaitsIt(s)

(* Sending that changes no preparation of the sender.                      *)
LEMMA SpeaksBy ==
    ASSUME TypeOK, BothLive, NEW s \in Side, SamePrep(s)
    PROVE  /\ net' = net => Speaks(s)
           /\ \A m \in SpduSet :
                m.code \notin {"PR", "AB"} /\ (spkt2sd(s, m) \/ (~m.xpd /\ SWriteRequestAux(s, m)))
                    => Speaks(s)
<1>1. Live(Peer(s)) /\ Peer(s) \in Side
  BY DEF BothLive, Peer, Side
<1>2. net' = net => Speaks(s)
  BY GrownSame DEF Speaks
<1>3. ASSUME NEW m \in SpduSet, m.code \notin {"PR", "AB"},
             spkt2sd(s, m) \/ (~m.xpd /\ SWriteRequestAux(s, m))
      PROVE  Speaks(s)
  BY <1>1, <1>3, SentGrows DEF Speaks
<1> QED BY <1>2, <1>3

(* The SPDUs users send in their requests and responses.                   *)
Said == { m \in SpduSet : m.code \notin {"PR", "AB"} /\ ~m.xpd }

(* They are such SPDUs.                                                    *)
LEMMA SaidSpdus ==
    /\ \A c \in Code \ {"RS", "PR", "AB"} : Spdu(c) \in Said
    /\ \A ts \in SUBSET Tokens : /\ [Spdu("GT") EXCEPT !.tokens = ts] \in Said
                                 /\ [Spdu("PT") EXCEPT !.tokens = ts] \in Said
    /\ \A c \in {"MIP", "MIA", "MAA", "AR"}, n \in Int : [Spdu(c) EXCEPT !.ssn = n] \in Said
    /\ \A n \in Int, x \in {"end", "noend"} :
           [Spdu("MAP") EXCEPT !.ssn = n, !.type = x] \in Said
    /\ \A x \in ReSync, n \in Int, z \in Settings :
           [Spdu("RS") EXCEPT !.type = x, !.ssn = n, !.settings = z] \in Said
    /\ \A n \in Int, z \in Settings :
           [Spdu("RA") EXCEPT !.ssn = n, !.settings = z] \in Said
<1>1. \A c \in Code \ {"RS", "PR", "AB"} : Spdu(c) \in Said
  BY PlainSpdu DEF Said, Spdu
<1>2. \A ts \in SUBSET Tokens : /\ [Spdu("GT") EXCEPT !.tokens = ts] \in Said
                                /\ [Spdu("PT") EXCEPT !.tokens = ts] \in Said
  BY MessagesTyped DEF Said, Spdu
<1>3. \A c \in {"MIP", "MIA", "MAA", "AR"}, n \in Int : [Spdu(c) EXCEPT !.ssn = n] \in Said
  BY MessagesTyped DEF Said, Spdu
<1>4. \A n \in Int, x \in {"end", "noend"} :
         [Spdu("MAP") EXCEPT !.ssn = n, !.type = x] \in Said
  BY MessagesTyped DEF Said, Spdu
<1>5. \A x \in ReSync, n \in Int, z \in Settings :
         [Spdu("RS") EXCEPT !.type = x, !.ssn = n, !.settings = z] \in Said
  BY MessagesTyped DEF Said, Spdu
<1>6. \A n \in Int, z \in Settings : [Spdu("RA") EXCEPT !.ssn = n, !.settings = z] \in Said
  BY MessagesTyped DEF Said, Spdu
<1> QED BY <1>1, <1>2, <1>3, <1>4, <1>5, <1>6

(* Every request of a user speaks.                                         *)
LEMMA RequestSpeaks ==
    ASSUME TypeOK, BothLive, BothLive', NEW s \in Side, UserRequest(s)
    PROVE  Speaks(s)
<1> DEFINE b == sb[s]
<1>b. b \in Ssapblk /\ sb \in [Side -> Ssapblk]
  BY DEF TypeOK
<1>f. b.flags \in SUBSET Flag /\ b.V_A \in Int /\ b.V_M \in Int /\ b.V_R \in Int
        /\ b.owned \in SUBSET Tokens
  BY <1>b, BlockTyped
<1>i. \A m \in Said : (spkt2sd(s, m) \/ SWriteRequestAux(s, m)) /\ SamePrep(s) => Speaks(s)
  BY SpeaksBy DEF Said
<1>u. sb' = sb => SamePrep(s)
  BY DEF SamePrep
<1>c. \A c \in Code \ {"RS", "PR", "AB"} :
         (spkt2sd(s, Spdu(c)) \/ SWriteRequestAux(s, Spdu(c))) /\ SamePrep(s) => Speaks(s)
  BY <1>i, SaidSpdus
<1>1. CASE SDataRequest(s) \/ STypedRequest(s)
  BY <1>1, <1>c, <1>u DEF SDataRequest, STypedRequest, Code
<1>2. CASE SExpdRequest(s)
  <2> DEFINE m == [Spdu("EX") EXCEPT !.xpd = TRUE]
  <2>1. m \in SpduSet /\ m.code \notin {"PR", "AB"}
    BY MessagesTyped DEF Spdu
  <2>2. spkt2sd(s, m) /\ SamePrep(s)
    BY <1>2, <1>u DEF SExpdRequest
  <2> HIDE DEF m
  <2> QED BY <2>1, <2>2, SpeaksBy
<1>3. CASE SGTokenRequest(s)
  <2>1. PICK ts \in SUBSET b.owned :
          /\ spkt2sd(s, [Spdu("GT") EXCEPT !.tokens = ts])
          /\ sb' = [sb EXCEPT ![s].owned = @ \ ts,
                              ![s].flags = IF "dat" \in ts THEN @ \ {"EDACK"} ELSE @]
    BY <1>3, Zenon DEF SGTokenRequest
  <2>2. SamePrep(s)
    BY <1>b, <2>1 DEF SamePrep, Ssapblk
  <2> QED BY <1>f, <1>i, <2>1, <2>2, SaidSpdus
<1>4. CASE SPTokenRequest(s)
  <2>1. PICK ts \in SUBSET Tokens : spkt2sd(s, [Spdu("PT") EXCEPT !.tokens = ts])
    BY <1>4 DEF SPTokenRequest
  <2> QED BY <1>4, <1>i, <1>u, <2>1, SaidSpdus DEF SPTokenRequest
<1>5. CASE SGControlRequest(s) \/ SCapdRequest(s) \/ SUReportRequest(s)
  <2>1. SamePrep(s)
    BY <1>5, <1>b DEF SGControlRequest, SCapdRequest, SUReportRequest, SamePrep, Ssapblk
  <2> QED BY <1>5, <1>c, <2>1 DEF SGControlRequest, SCapdRequest, SUReportRequest, Code
<1>6. CASE SMinSyncRequest(s)
  <2>1. SamePrep(s)
    BY <1>6, <1>b DEF SMinSyncRequest, SamePrep, Ssapblk
  <2>2. SWriteRequestAux(s, [Spdu("MIP") EXCEPT !.ssn = b.V_M])
    BY <1>6 DEF SMinSyncRequest
  <2> QED BY <1>f, <1>i, <2>1, <2>2, SaidSpdus
<1>7. CASE SMinSyncResponse(s)
  <2>1. PICK ssn \in b.V_A .. MaxSsn :
          /\ SWriteRequestAux(s, [Spdu("MIA") EXCEPT !.ssn = ssn])
          /\ sb' = [sb EXCEPT ![s].V_A = ssn + 1]
    BY <1>7, Zenon DEF SMinSyncResponse
  <2>2. ssn \in Int
    BY <1>f, MaxSsnAssumption
  <2>3. SamePrep(s)
    BY <1>b, <2>1 DEF SamePrep, Ssapblk
  <2> QED BY <1>i, <2>1, <2>2, <2>3, SaidSpdus
<1>8. CASE \E end \in BOOLEAN : SMajSyncRequestAux(s, end)
  <2>1. PICK end \in BOOLEAN : SMajSyncRequestAux(s, end)
    BY <1>8
  <2> DEFINE x == IF end THEN "end" ELSE "noend"
  <2>2. SWriteRequestAux(s, [Spdu("MAP") EXCEPT !.ssn = b.V_M, !.type = x])
    BY <2>1, Zenon DEF SMajSyncRequestAux
  <2>3. SamePrep(s)
    BY <1>b, <2>1 DEF SMajSyncRequestAux, SamePrep, Ssapblk
  <2>4. x \in {"end", "noend"}
    OBVIOUS
  <2> HIDE DEF x
  <2> QED BY <1>f, <1>i, <2>2, <2>3, <2>4, SaidSpdus
<1>9. CASE SReSyncRequest(s)
  <2>1. PICK type \in ReSync, settings \in Proposals :
          \E ssn \in ResyncPoints(sb[s], type) :
            /\ SWriteRequestAux(s, [Spdu("RS") EXCEPT !.type = type, !.ssn = ssn,
                                                      !.settings = settings])
            /\ sb' = [sb EXCEPT ![s].flags = (@ \cup {"RS"}) \ {"RA", "EDACK"},
                                ![s].rs = type, ![s].rsn = ssn,
                                ![s].rsettings = settings]
    BY <1>9, Zenon DEF SReSyncRequest
  <2>2. PICK ssn \in ResyncPoints(sb[s], type) :
            /\ SWriteRequestAux(s, [Spdu("RS") EXCEPT !.type = type, !.ssn = ssn,
                                                      !.settings = settings])
            /\ sb' = [sb EXCEPT ![s].flags = (@ \cup {"RS"}) \ {"RA", "EDACK"},
                                ![s].rs = type, ![s].rsn = ssn,
                                ![s].rsettings = settings]
    BY <2>1, Zenon
  <2>3. ssn \in Int /\ settings \in Settings
    BY <1>f, MaxSsnAssumption, ProposalsAssumption DEF ResyncPoints, ReSync
  <2>4. SamePrep(s)
    BY <1>b, <2>2 DEF SamePrep, Ssapblk
  <2> QED BY <1>i, <2>2, <2>3, <2>4, SaidSpdus
<1>10. CASE SActStartRequest(s)
  <2>1. SamePrep(s)
    BY <1>10, <1>b DEF SActStartRequest, InActivity, SamePrep, Ssapblk
  <2> QED BY <1>10, <1>c, <2>1 DEF SActStartRequest, Code
<1>11. CASE SActResumeRequest(s)
  <2>1. PICK ssn \in 0..MaxSsn :
          /\ SWriteRequestAux(s, [Spdu("AR") EXCEPT !.ssn = ssn])
          /\ sb' = [sb EXCEPT ![s] = InActivity(@, ssn + 1)]
    BY <1>11 DEF SActResumeRequest
  <2>2. ssn \in Int
    BY MaxSsnAssumption
  <2>3. SamePrep(s)
    BY <1>b, <2>1 DEF InActivity, SamePrep, Ssapblk
  <2> QED BY <1>i, <2>1, <2>2, <2>3, SaidSpdus
<1>12. CASE SActIntrRequest(s)
  <2>1. PICK how \in {"intr", "disc"} :
          /\ SWriteRequestAux(s, Spdu(IF how = "intr" THEN "AI" ELSE "AD"))
          /\ sb' = [sb EXCEPT ![s].flags = (@ \cup {"AI"}) \ {"RA", "EDACK"},
                              ![s].rs = how]
    BY <1>12, Zenon DEF SActIntrRequest
  <2>2. SamePrep(s)
    BY <1>b, <2>1 DEF SamePrep, Ssapblk
  <2>3. (IF how = "intr" THEN "AI" ELSE "AD") \in Code \ {"RS", "PR", "AB"}
    BY DEF Code
  <2> QED BY <1>c, <2>1, <2>2, <2>3
<1>13. CASE SUAbortRequest(s)
  <2>1. PICK qs : freesblk(s, "aborted", qs)
    BY <1>13, Zenon DEF SUAbortRequest
  <2> QED BY <2>1, FreedNotLive
<1>14. CASE SRelRequest(s)
  <2>1. SamePrep(s)
    BY <1>14, <1>b DEF SRelRequest, SamePrep, Ssapblk
  <2> QED BY <1>14, <1>c, <2>1 DEF SRelRequest, Code
<1> QED
  BY <1>1, <1>2, <1>3, <1>4, <1>5, <1>6, <1>7, <1>8, <1>9, <1>10, <1>11, <1>12, <1>13, <1>14
     DEF UserRequest, SMajSyncRequest, SActEndRequest

(* Every response does, and every timer.                                   *)
LEMMA ResponseSpeaks ==
    ASSUME TypeOK, BothLive, BothLive', NEW s \in Side, UserResponse(s) \/ Timer(s)
    PROVE  Speaks(s)
<1> DEFINE b == sb[s]
<1>b. b \in Ssapblk /\ sb \in [Side -> Ssapblk]
  BY DEF TypeOK
<1>f. b.flags \in SUBSET Flag /\ b.V_A \in Int /\ b.V_M \in Int /\ b.rsn \in Int
  BY <1>b, BlockTyped
<1>i. \A m \in Said : (spkt2sd(s, m) \/ SWriteRequestAux(s, m)) /\ SamePrep(s) => Speaks(s)
  BY SpeaksBy DEF Said
<1>c. \A c \in Code \ {"RS", "PR", "AB"} :
         (spkt2sd(s, Spdu(c)) \/ SWriteRequestAux(s, Spdu(c))) /\ SamePrep(s) => Speaks(s)
  BY <1>i, SaidSpdus
<1>1. CASE SCapdResponse(s) \/ SActIntrResponse(s)
  <2>1. SamePrep(s)
    BY <1>1, <1>b DEF SCapdResponse, SActIntrResponse, SamePrep, Ssapblk
  <2> QED BY <1>1, <1>c, <2>1 DEF SCapdResponse, SActIntrResponse, Code
<1>2. CASE SMajSyncResponse(s)
  <2>1. SamePrep(s)
    BY <1>2, <1>b DEF SMajSyncResponse, SamePrep, Ssapblk
  <2>2. SWriteRequestAux(s, [Spdu("MAA") EXCEPT !.ssn = b.V_M - 1])
    BY <1>2 DEF SMajSyncResponse
  <2>3. b.V_M - 1 \in Int
    BY <1>f
  <2> QED BY <1>i, <2>1, <2>2, <2>3, SaidSpdus
<1>3. CASE SReSyncResponse(s)
  <2> DEFINE x(settings, ssn) ==
                [Resynchronized(s, b, ssn, settings) EXCEPT !.flags = @ \ {"RA"}]
             y(settings, ssn) == [Spdu("RA") EXCEPT !.ssn = ssn, !.settings = settings]
  <2>1. PICK settings \in FinalSettings, ssn \in AcceptedPoints(b) :
          SWriteRequestAux(s, y(settings, ssn)) /\ sb' = [sb EXCEPT ![s] = x(settings, ssn)]
    BY <1>3, Zenon DEF SReSyncResponse
  <2>2. ssn \in Int /\ settings \in Settings
    BY <1>f, MaxSsnAssumption DEF AcceptedPoints, FinalSettings, Settings
  <2>3. x(settings, ssn).pr = b.pr /\ x(settings, ssn).spdu = b.spdu
    BY <1>b DEF Resynchronized, Ssapblk
  <2>4. y(settings, ssn) \in Said
    BY <2>2, SaidSpdus
  <2> HIDE DEF x, y
  <2>5. SamePrep(s)
    BY <1>b, <2>1, <2>3 DEF SamePrep
  <2> QED BY <1>i, <2>1, <2>4, <2>5
<1>4. CASE SRelResponse(s)
  <2>1. sb' # [sb EXCEPT ![s] = Freed("draining")]
    BY <1>b DEF Freed, newsblk, BothLive, Live
  <2>2. spkt2sd(s, Spdu("NF")) /\ sb' = [sb EXCEPT ![s].flags = @ \ {"FINN"}]
    BY <1>4, <2>1 DEF SRelResponse
  <2>3. SamePrep(s)
    BY <1>b, <2>2 DEF SamePrep, Ssapblk
  <2> QED BY <1>c, <2>2, <2>3 DEF Code
<1>5. CASE SRelRetryRequest(s) \/ SRelTimeout(s)
  <2>1. SamePrep(s) /\ net' = net
    BY <1>5, <1>b DEF SRelRetryRequest, SRelTimeout, SamePrep, Ssapblk
  <2> QED BY <2>1, SpeaksBy
<1>6. ~DrainTimeout(s)
  BY FreedNotLive DEF DrainTimeout
<1> QED BY <1>1, <1>2, <1>3, <1>4, <1>5, <1>6 DEF UserResponse, Timer

(* The SPDUs SReadRequestAux reads.                                        *)
LEMMA RecvHears ==
    ASSUME TypeOK, BothLive, BothLive', NEW s \in Side, Readable(s),
           \/ Drop(s) \/ RecvData(s) \/ RecvGT(s) \/ RecvEX(s) \/ RecvCD(s)
           \/ RecvGTC(s) \/ RecvGTA(s) \/ RecvMAP(s) \/ RecvMAA(s) \/ RecvMIP(s)
           \/ RecvMIA(s) \/ RecvRS(s) \/ RecvRA(s) \/ RecvPR(s) \/ RecvED(s)
           \/ RecvAS(s) \/ RecvAI(s) \/ RecvAIA(s) \/ RecvFN(s)
    PROVE  Hears(s)
<1> DEFINE m == Incoming(s)
           b == Taken(s)
           p == Peer(s)
<1>b. b \in Ssapblk /\ m \in SpduSet
  BY IncomingTyped
<1>t. b.spdu = sb2spkt(sb[s]).spdu
  BY TakenView
<1>p. p \in Side /\ p # s /\ ~Closed(sb[p])
  BY LiveOpen DEF BothLive, Peer, Side
<1>d. ASSUME NEW x, Done(s, x)
      PROVE  sb'[s] = x /\ net'[s] = Rest(s) /\ net'[p] = net[p]
  BY <1>d, <1>p DEF Done, TypeOK
<1>i. ASSUME NEW x, Done(s, x), x.spdu = b.spdu, x.pr = b.pr PROVE Hears(s)
  BY <1>d, <1>i, <1>t, GrownSame DEF Hears, ReadsIt
<1> HIDE DEF m, b, p
<1>1. Done(s, b) => Hears(s)
  BY <1>i
<1>2. CASE Drop(s) \/ RecvData(s)
  BY <1>1, <1>2 DEF Drop, RecvData, b
<1>3. CASE RecvGT(s)
  <2> DEFINE x == [b EXCEPT !.owned = @ \cup m.tokens,
                            !.flags = IF "dat" \in m.tokens THEN @ \ {"ED"} ELSE @]
  <2>1. Done(s, b) \/ Done(s, x)
    BY <1>3 DEF RecvGT, b, m
  <2>2. x.spdu = b.spdu /\ x.pr = b.pr
    BY <1>b DEF Ssapblk
  <2> HIDE DEF x
  <2> QED BY <1>1, <1>i, <2>1, <2>2
<1>4. CASE RecvEX(s)
  <2> DEFINE x == [b EXCEPT !.xspdu = TRUE]
  <2>1. Done(s, b) \/ Done(s, x)
    BY <1>4, AbortNotLive DEF RecvEX, b
  <2>2. x.spdu = b.spdu /\ x.pr = b.pr
    BY <1>b DEF Ssapblk
  <2> HIDE DEF x
  <2> QED BY <1>1, <1>i, <2>1, <2>2
<1>5. ASSUME NEW fs, Done(s, [b EXCEPT !.flags = fs]) PROVE Hears(s)
  <2> DEFINE x == [b EXCEPT !.flags = fs]
  <2>1. x.spdu = b.spdu /\ x.pr = b.pr
    BY <1>b DEF Ssapblk
  <2>2. Done(s, x)
    BY <1>5
  <2> HIDE DEF x
  <2> QED BY <1>i, <2>1, <2>2
<1>6. CASE RecvCD(s)
  <2> DEFINE fs == IF m.code = "CD" THEN b.flags \cup {"CDA"} ELSE b.flags \ {"CD"}
  <2>1. Done(s, [b EXCEPT !.flags = fs])
    BY <1>6, Zenon DEF RecvCD, b, m
  <2> QED BY <1>5, <2>1
<1>7. CASE RecvGTC(s)
  <2>1. CASE ~Done(s, b)
    <3> DEFINE x == [b EXCEPT !.owned = Tokens]
    <3>1. /\ sb' = [sb EXCEPT ![s] = x]
          /\ net' = [net EXCEPT ![s] = Rest(s), ![p] = Arriving(p, Append(@, Spdu("GTA")))]
      BY <1>7, <2>1 DEF RecvGTC, b, p
    <3>2. x.spdu = b.spdu /\ x.pr = b.pr
      BY <1>b DEF Ssapblk
    <3> HIDE DEF x
    <3>3. /\ sb'[s] = x /\ net'[s] = Rest(s) /\ net'[p] = Append(net[p], Spdu("GTA"))
      BY <1>p, <3>1 DEF TypeOK, Arriving
    <3>4. Grown(net[p], net'[p])
      <4>1. Spdu("GTA") \in SpduSet /\ Spdu("GTA").code = "GTA"
        BY PlainSpdu DEF Code, Spdu
      <4>2. net[p] \in Seq(SpduSet)
        BY <1>p DEF TypeOK
      <4> QED BY <3>3, <4>1, <4>2, GrownAppend
    <3> QED BY <1>t, <3>2, <3>3, <3>4 DEF Hears, ReadsIt, b, p
  <2> QED BY <1>1, <2>1
<1>8. CASE RecvGTA(s)
  <2>1. Done(s, [b EXCEPT !.flags = b.flags \ {"GTC"}])
    BY <1>8, Zenon DEF RecvGTA, b
  <2> QED BY <1>5, <2>1
<1>9. ASSUME NEW y \in Ssapblk, y.spdu = b.spdu, y.pr = b.pr, NEW fs,
             Done(s, [y EXCEPT !.flags = fs])
      PROVE  Hears(s)
  <2> DEFINE x == [y EXCEPT !.flags = fs]
  <2>1. x.spdu = b.spdu /\ x.pr = b.pr
    BY <1>9 DEF Ssapblk
  <2>2. Done(s, x)
    BY <1>9
  <2> HIDE DEF x
  <2> QED BY <1>i, <2>1, <2>2
<1>10. /\ SyncPointOfPeer(b) \in Ssapblk
       /\ SyncPointOfPeer(b).spdu = b.spdu /\ SyncPointOfPeer(b).pr = b.pr
  BY <1>b, SyncPointTyped DEF SyncPointOfPeer, Ssapblk
<1>11. CASE RecvMAP(s)
  <2> DEFINE y == SyncPointOfPeer(b)
             fs == (y.flags \ {"Vnextact"}) \cup {"MAA", "AE"}
             gs == y.flags \cup {"MAA"} \cup
                                      (IF Needs("ACTIVITY") THEN {"Vnextact"} ELSE {})
  <2>1. \/ Done(s, b) \/ Done(s, y)
        \/ Done(s, [y EXCEPT !.flags = fs]) \/ Done(s, [y EXCEPT !.flags = gs])
    BY <1>11 DEF RecvMAP, b, m
  <2> HIDE DEF fs, gs, y
  <2>2. y \in Ssapblk /\ y.spdu = b.spdu /\ y.pr = b.pr
    BY <1>10 DEF y
  <2> QED BY <1>1, <1>9, <1>i, <2>1, <2>2
<1>12. CASE RecvMAA(s)
  <2> DEFINE x == [b EXCEPT !.V_A = b.V_M, !.V_R = b.V_M,
                            !.flags = ActivityAfterMajor(@) \ {"MAP", "AE"}]
  <2>1. Done(s, b) \/ Done(s, x)
    BY <1>12 DEF RecvMAA, b
  <2>2. x.spdu = b.spdu /\ x.pr = b.pr
    BY <1>b DEF Ssapblk
  <2> HIDE DEF x
  <2> QED BY <1>1, <1>i, <2>1, <2>2
<1>13. CASE RecvMIP(s)
  <2> DEFINE y == SyncPointOfPeer(b)
             fs == y.flags \cup {"Vsc"}
  <2>1. Done(s, [y EXCEPT !.flags = fs])
    BY <1>13 DEF RecvMIP, b
  <2> HIDE DEF fs, y
  <2>2. y \in Ssapblk /\ y.spdu = b.spdu /\ y.pr = b.pr
    BY <1>10 DEF y
  <2> QED BY <1>9, <2>1, <2>2
<1>14. CASE RecvMIA(s)
  <2> DEFINE x == [b EXCEPT !.V_A = m.ssn]
  <2>1. Done(s, b) \/ Done(s, x)
    BY <1>14 DEF RecvMIA, b, m
  <2>2. x.spdu = b.spdu /\ x.pr = b.pr
    BY <1>b DEF Ssapblk
  <2> HIDE DEF x
  <2> QED BY <1>1, <1>i, <2>1, <2>2
<1>15. CASE RecvRS(s)
  <2> DEFINE x == [b EXCEPT !.flags = (@ \ {"RS"}) \cup {"RA"}, !.rs = m.type,
                            !.rsn = m.ssn, !.rsettings = m.settings]
  <2>1. Done(s, b) \/ Done(s, x)
    BY <1>15 DEF RecvRS, b, m
  <2>2. x.spdu = b.spdu /\ x.pr = b.pr
    BY <1>b DEF Ssapblk
  <2> HIDE DEF x
  <2> QED BY <1>1, <1>i, <2>1, <2>2
<1>16. CASE RecvRA(s)
  <2> DEFINE y == Resynchronized(s, b, m.ssn, m.settings)
             x == [y EXCEPT !.flags = @ \ {"RS"}, !.rsettings = m.settings]
  <2>1. Done(s, x)
    BY <1>16, Zenon DEF RecvRA, b, m
  <2>2. y \in Ssapblk
    BY <1>b, ResynchronizedTyped DEF SpduSet, SpduShape
  <2>3. y.spdu = b.spdu /\ y.pr = b.pr
    BY <1>b DEF Resynchronized, Ssapblk
  <2> HIDE DEF y
  <2>4. x.spdu = y.spdu /\ x.pr = y.pr
    BY <2>2 DEF Ssapblk
  <2> HIDE DEF x
  <2> QED BY <1>i, <2>1, <2>3, <2>4
<1>17. CASE RecvPR(s)
  <2> DEFINE x == [b EXCEPT !.pr = m.type,
                            !.flags = IF m.type = "RS" THEN @ \ {"ED"} ELSE @]
  <2>1. Done(s, x) /\ m.code = "PR" /\ ~PrAfterPr(s)
    BY <1>17 DEF RecvPR, Arrives, b, m
  <2>2. x.spdu = b.spdu /\ x.pr = m.type
    BY <1>b DEF Ssapblk
  <2> HIDE DEF x
  <2> QED BY <1>d, <1>t, <2>1, <2>2, GrownSame DEF Hears, ReadsIt, m, p
<1>18. CASE RecvED(s)
  <2> DEFINE fs == IF Owns(sb[s], "dat") THEN b.flags \cup {"EDACK"} ELSE b.flags
  <2>1. Done(s, [b EXCEPT !.flags = fs])
    BY <1>18, Zenon DEF RecvED, b
  <2> QED BY <1>5, <2>1
<1>19. CASE RecvAS(s)
  <2> DEFINE x == InActivity(b, m.ssn + 1)
  <2>1. Done(s, b) \/ Done(s, x)
    BY <1>19 DEF RecvAS, b, m
  <2>2. x.spdu = b.spdu /\ x.pr = b.pr
    BY <1>b DEF InActivity, Ssapblk
  <2> HIDE DEF x
  <2> QED BY <1>1, <1>i, <2>1, <2>2
<1>20. CASE RecvAI(s)
  <2> DEFINE x == [b EXCEPT !.flags = (@ \ {"RS", "RA"}) \cup {"AIA"}, !.rs = "intr"]
  <2>1. Done(s, b) \/ Done(s, x)
    BY <1>20 DEF RecvAI, b
  <2>2. x.spdu = b.spdu /\ x.pr = b.pr
    BY <1>b DEF Ssapblk
  <2> HIDE DEF x
  <2> QED BY <1>1, <1>i, <2>1, <2>2
<1>21. CASE RecvAIA(s)
  <2> DEFINE x == [b EXCEPT !.flags = @ \ {"AI", "Vact"}, !.owned = Tokens]
  <2>1. Done(s, b) \/ Done(s, x)
    BY <1>21 DEF RecvAIA, b
  <2>2. x.spdu = b.spdu /\ x.pr = b.pr
    BY <1>b DEF Ssapblk
  <2> HIDE DEF x
  <2> QED BY <1>1, <1>i, <2>1, <2>2
<1>22. CASE RecvFN(s)
  <2>1. Done(s, [b EXCEPT !.flags = b.flags \cup {"FINN"}])
    BY <1>22, Zenon DEF RecvFN, b
  <2> QED BY <1>5, <2>1
<1> QED
  BY <1>2, <1>3, <1>4, <1>6, <1>7, <1>8, <1>11, <1>12, <1>13, <1>14, <1>15, <1>16,
     <1>17, <1>18, <1>19, <1>20, <1>21, <1>22

(* The SPDUs read while waiting for the answer to a release.               *)
LEMMA RelHears ==
    ASSUME TypeOK, BothLive, BothLive', NEW s \in Side, RelFN(s) \/ RelNF(s) \/ RelRS(s)
    PROVE  Hears(s)
<1> DEFINE m == Incoming(s)
           c == sb2spkt(sb[s])
           p == Peer(s)
<1>r. Readable(s)
  BY DEF RelFN, RelNF, RelRS, Waits
<1>c. c \in Ssapblk /\ m \in SpduSet
  BY <1>r, IncomingTyped
<1>t. c.pr = sb[s].pr
  BY DEF sb2spkt, TypeOK, Ssapblk
<1>p. p \in Side /\ p # s /\ ~Closed(sb[p])
  BY LiveOpen DEF BothLive, Peer, Side
<1>d. ASSUME NEW x, Done(s, x)
      PROVE  sb'[s] = x /\ net'[s] = Rest(s) /\ net'[p] = net[p]
  BY <1>d, <1>p DEF Done, TypeOK
<1> HIDE DEF m, c, p
<1>1. CASE RelFN(s)
  <2>1. /\ sb' = [sb EXCEPT ![s] = c] /\ m.code = "FN"
        /\ net' = [net EXCEPT ![s] = Rest(s), ![p] = Arriving(p, Append(@, Spdu("DN")))]
    BY <1>1 DEF RelFN, Waits, c, m, p
  <2>2. /\ sb'[s] = c /\ net'[s] = Rest(s) /\ net'[p] = Append(net[p], Spdu("DN"))
    BY <1>p, <2>1 DEF TypeOK, Arriving
  <2>3. Grown(net[p], net'[p])
    <3>1. Spdu("DN") \in SpduSet /\ Spdu("DN").code = "DN"
      BY PlainSpdu DEF Code, Spdu
    <3>2. net[p] \in Seq(SpduSet)
      BY <1>p DEF TypeOK
    <3> QED BY <2>2, <3>1, <3>2, GrownAppend
  <2> QED BY <1>r, <1>t, <2>1, <2>2, <2>3 DEF Hears, AwaitsIt, c, m, p
<1>2. CASE RelNF(s)
  <2> DEFINE x == [c EXCEPT !.mode = "open"]
  <2>1. Done(s, x) /\ m.code = "NF"
    BY <1>2 DEF RelNF, Waits, c, m
  <2>2. x.spdu = c.spdu /\ x.pr = c.pr
    BY <1>c DEF Ssapblk
  <2> HIDE DEF x
  <2> QED BY <1>d, <1>r, <1>t, <2>1, <2>2, GrownSame DEF Hears, AwaitsIt, c, m, p
<1>3. CASE RelRS(s)
  <2> DEFINE x == [c EXCEPT !.mode = "open", !.spdu = <<m>>]
  <2>1. Done(s, x) /\ m.code = "RS"
    BY <1>3 DEF RelRS, Waits, c, m
  <2>2. x.spdu = <<m>> /\ x.pr = c.pr
    BY <1>c DEF Ssapblk
  <2> HIDE DEF x
  <2> QED BY <1>d, <1>r, <1>t, <2>1, <2>2, GrownSame DEF Hears, AwaitsIt, m, p
<1> QED BY <1>1, <1>2, <1>3

(* Whatever is read while both ends are in use is read like that.          *)
LEMMA ReadHears ==
    ASSUME TypeOK, BothLive, BothLive', NEW s \in Side, Read(s)
    PROVE  Hears(s)
<1>1. CASE Drain(s)
  BY <1>1 DEF Drain, BothLive, Live
<1>2. CASE RecvAB(s) \/ RelDN(s) \/ RelAB(s)
  BY <1>2, FreedNotLive DEF RecvAB, RelDN, RelAB
<1>3. CASE RecvUnexpected(s) \/ RelUnexpected(s)
  BY <1>3, AbortNotLive DEF RecvUnexpected, RelUnexpected
<1>4. CASE RecvTDISC(s)
  BY <1>4 DEF RecvTDISC, Freed, newsblk, TypeOK, BothLive, Live
<1>5. CASE RelFN(s) \/ RelNF(s) \/ RelRS(s)
  BY <1>5, RelHears
<1>6. CASE \/ Drop(s) \/ RecvData(s) \/ RecvGT(s) \/ RecvEX(s) \/ RecvCD(s)
           \/ RecvGTC(s) \/ RecvGTA(s) \/ RecvMAP(s) \/ RecvMAA(s) \/ RecvMIP(s)
           \/ RecvMIA(s) \/ RecvRS(s) \/ RecvRA(s) \/ RecvPR(s) \/ RecvED(s)
           \/ RecvAS(s) \/ RecvAI(s) \/ RecvAIA(s) \/ RecvFN(s)
  <2>1. Readable(s)
    BY <1>6 DEF Drop, RecvData, RecvGT, RecvEX, RecvCD, RecvGTC, RecvGTA, RecvMAP, RecvMAA,
         RecvMIP, RecvMIA, RecvRS, RecvRA, RecvPR, RecvED, RecvAS, RecvAI, RecvAIA, RecvFN,
         Arrives, Reads
  <2> QED BY <1>6, <2>1, RecvHears
<1> QED BY <1>1, <1>2, <1>3, <1>4, <1>5, <1>6 DEF Read

-----------------------------------------------------------------------------
(* Who speaks keeps its own preparation.                                   *)
LEMMA SpeaksPrepared ==
    ASSUME NEW s \in Side, Prepared(s), Speaks(s)
    PROVE  Prepared(s)'
BY DEF Prepared, Speaks, SamePrep

(* Whose queue grows keeps it too.                                         *)
LEMMA GrownStaysPrepared ==
    ASSUME NEW s \in Side, Prepared(s), Grown(net[s], net'[s]), sb'[s] = sb[s]
    PROVE  Prepared(s)'
BY DEF Prepared, Grown

(* A queue without its head.                                               *)
LEMMA TailPrepared ==
    ASSUME NEW q \in Seq(SpduSet), q # <<>>
    PROVE  /\ Announced(q) => Announced(Tail(q))
           /\ NoAbort(q) => NoAbort(Tail(q))
           /\ \A t : Comes(t, q) => \/ Comes(t, Tail(q))
                                    \/ ~Head(q).xpd /\ EndsPreparation(t, Head(q))
           /\ Announced(q) /\ Head(q).code = "PR" => Comes(Head(q).type, Tail(q))
<1> DEFINE r == Tail(q)
<1>1. /\ Len(q) \in Nat /\ Len(q) >= 1 /\ Len(r) = Len(q) - 1 /\ Head(q) = q[1]
      /\ \A i \in 1..Len(q) - 1 : r[i] = q[i + 1]
  OBVIOUS
<1> HIDE DEF r
<1>2. \A i \in 1..Len(q) : i # 1 => i - 1 \in 1..Len(r) /\ r[i - 1] = q[i]
  BY <1>1
<1>3. \A i \in 1..Len(r) : i + 1 \in 1..Len(q) /\ r[i] = q[i + 1]
  BY <1>1
<1>4. ASSUME NEW t, NEW j \in 1..Len(q), ~q[j].xpd, EndsPreparation(t, q[j]), j # 1
      PROVE  Comes(t, r)
  BY <1>2, <1>4 DEF Comes
<1>5. ASSUME NEW t, Comes(t, q)
      PROVE  Comes(t, r) \/ (~Head(q).xpd /\ EndsPreparation(t, Head(q)))
  BY <1>1, <1>4, <1>5 DEF Comes
<1>6. ASSUME Announced(q), Head(q).code = "PR" PROVE Comes(Head(q).type, r)
  <2>1. 1 \in 1..Len(q) /\ FollowedAt(q, 1)
    BY <1>1, <1>6 DEF Announced
  <2>2. PICK j \in 1..Len(q) : j > 1 /\ ~q[j].xpd /\ EndsPreparation(q[1].type, q[j])
    BY <2>1 DEF FollowedAt
  <2> QED BY <1>1, <1>4, <2>2
<1>7. ASSUME Announced(q) PROVE Announced(r)
  <2>1. SUFFICES ASSUME NEW i \in 1..Len(r), r[i].code = "PR" PROVE FollowedAt(r, i)
    BY DEF Announced
  <2>2. i + 1 \in 1..Len(q) /\ r[i] = q[i + 1]
    BY <1>3
  <2>3. PICK j \in 1..Len(q) : j > i + 1 /\ ~q[j].xpd /\ EndsPreparation(q[i + 1].type, q[j])
    BY <1>7, <2>1, <2>2 DEF Announced, FollowedAt
  <2>4. j - 1 \in 1..Len(r) /\ j - 1 > i /\ r[j - 1] = q[j]
    BY <1>1, <1>2, <2>3
  <2> QED BY <2>2, <2>3, <2>4 DEF FollowedAt
<1>8. ASSUME NoAbort(q) PROVE NoAbort(r)
  BY <1>3, <1>8 DEF NoAbort
<1> QED BY <1>5, <1>6, <1>7, <1>8 DEF r

(* Where the SPDU that is read comes from.                                 *)
LEMMA Source ==
    ASSUME TypeOK, NEW s \in Side, Readable(s), PutBack(sb[s].spdu)
    PROVE  \/ /\ Incoming(s).code = "EX" /\ sb[s].pr = "PR"
              /\ Rest(s) = net[s] /\ sb2spkt(sb[s]).spdu = sb[s].spdu
           \/ /\ sb[s].spdu # <<>> /\ Incoming(s) = sb[s].spdu[1] /\ Incoming(s).code = "RS"
              /\ Rest(s) = net[s] /\ sb2spkt(sb[s]).spdu = <<>>
           \/ /\ sb[s].spdu = <<>> /\ net[s] # <<>> /\ Incoming(s) = Head(net[s])
              /\ Rest(s) = Tail(net[s]) /\ sb2spkt(sb[s]).spdu = <<>>
<1>1. sb[s] \in Ssapblk /\ sb[s].spdu \in Seq(SpduSet) /\ net[s] \in Seq(SpduSet)
  BY BlockTyped DEF TypeOK
<1>2. CASE XsduReady(sb[s])
  <2>1. sb[s].pr = "PR" /\ Rest(s) = net[s] /\ Incoming(s).code = "EX"
    BY <1>2 DEF XsduReady, Rest, FromNet, Incoming, Spdu
  <2>2. sb2spkt(sb[s]).spdu = sb[s].spdu
    BY <1>1, <1>2 DEF sb2spkt, Ssapblk
  <2> QED BY <2>1, <2>2
<1>3. CASE ~XsduReady(sb[s])
  <2>1. sb2spkt(sb[s]).spdu = <<>>
    BY <1>1, <1>3 DEF sb2spkt, Ssapblk
  <2>2. CASE sb[s].spdu # <<>>
    <3>1. Incoming(s) = sb[s].spdu[1] /\ Rest(s) = net[s] /\ 1 \in 1..Len(sb[s].spdu)
      BY <1>1, <1>3, <2>2 DEF Incoming, Rest, FromNet
    <3> QED BY <2>1, <2>2, <3>1 DEF PutBack
  <2>3. CASE sb[s].spdu = <<>>
    <3>1. Incoming(s) = Head(net[s]) /\ Rest(s) = Tail(net[s]) /\ net[s] # <<>>
      BY <1>3, <2>3 DEF Incoming, Rest, FromNet, Readable
    <3> QED BY <2>1, <2>3, <3>1
  <2> QED BY <2>2, <2>3
<1> QED BY <1>2, <1>3

(* Who reads ends its preparation, or has the SPDU that will still ahead.  *)
LEMMA HearsPrepared ==
    ASSUME TypeOK, NEW s \in Side, Prepared(s), Hears(s)
    PROVE  Prepared(s)'
<1> DEFINE m == Incoming(s)
           q == net[s]
           h == sb[s].spdu
           t == sb[s].pr
           q2 == net'[s]
           h2 == sb'[s].spdu
           t2 == sb'[s].pr
<1>1. /\ Readable(s) /\ q2 = Rest(s) /\ m \in SpduSet /\ Taken(s) \in Ssapblk
      /\ sb2spkt(sb[s]) \in Ssapblk /\ q \in Seq(SpduSet) /\ h \in Seq(SpduSet)
  BY IncomingTyped, BlockTyped DEF Hears, TypeOK
<1>2. Announced(q) /\ NoAbort(q) /\ PutBack(h) /\ (t # "PR" => Comes(t, q) \/ Comes(t, h))
  BY DEF Prepared
<1>3. Taken(s).pr = IF ~m.xpd /\ EndsPreparation(t, m) THEN "PR" ELSE t
  <2>1. sb2spkt(sb[s]).pr = t
    BY DEF sb2spkt, TypeOK, Ssapblk
  <2> DEFINE c == sb2spkt(sb[s])
             x == IF ~m.xpd /\ EndsPreparation(c.pr, m) THEN "PR" ELSE c.pr
  <2>2. Taken(s) = [c EXCEPT !.pr = x]
    BY DEF Taken
  <2> HIDE DEF c
  <2>3. [c EXCEPT !.pr = x].pr = x
    BY <1>1 DEF Ssapblk, c
  <2> QED BY <2>1, <2>2, <2>3 DEF c
<1>4. \A u : ~Comes(u, <<>>)
  BY DEF Comes
<1>5. PutBack(<<>>) /\ (m.code = "RS" => PutBack(<<m>>))
  <2>1. Len(<<m>>) = 1 /\ <<m>>[1] = m
    OBVIOUS
  <2> QED BY <2>1 DEF PutBack
<1>6. \A u : Comes(u, <<m>>) <=> ~m.xpd /\ EndsPreparation(u, m)
  <2>1. Len(<<m>>) = 1 /\ <<m>>[1] = m
    OBVIOUS
  <2> QED BY <2>1 DEF Comes
<1>7. \A u : ~EndsPreparation(u, m) \/ m.code \notin {"EX", "FN", "NF", "PR"}
  BY DEF EndsPreparation
<1>8. \/ h2 = sb2spkt(sb[s]).spdu /\ t2 = Taken(s).pr
      \/ h2 = sb2spkt(sb[s]).spdu /\ m.code = "PR" /\ t = "PR" /\ t2 = m.type
      \/ h2 = sb2spkt(sb[s]).spdu /\ m.code \in {"FN", "NF"} /\ t2 = t
      \/ h2 = <<m>> /\ m.code = "RS" /\ t2 = t
  BY DEF Hears, ReadsIt, AwaitsIt, PrAfterPr
<1>9. CASE m.code = "EX" /\ t = "PR" /\ Rest(s) = q /\ sb2spkt(sb[s]).spdu = h
  <2>1. t2 = "PR" /\ h2 = h /\ q2 = q
    BY <1>1, <1>3, <1>8, <1>9
  <2> QED BY <1>2, <2>1 DEF Prepared
<1>10. CASE /\ h # <<>> /\ m = h[1] /\ m.code = "RS" /\ Rest(s) = q
            /\ sb2spkt(sb[s]).spdu = <<>>
  <2>1. Len(h) = 1 /\ 1 \in 1..Len(h)
    <3>1. \A x \in Seq(SpduSet) : x # <<>> => Len(x) \in Nat /\ Len(x) >= 1
      OBVIOUS
    <3>2. Len(h) \in Nat /\ Len(h) >= 1 /\ Len(h) <= 1
      BY <1>1, <1>2, <1>10, <3>1, Zenon DEF PutBack
    <3>3. \A n \in Nat : n >= 1 /\ n <= 1 => n = 1 /\ 1 \in 1..n
      OBVIOUS
    <3> HIDE DEF h
    <3>4. Len(h) = 1
      BY <3>2, <3>3, Zenon
    <3>5. 1 \in 1..Len(h)
      BY <3>2, <3>3, Zenon
    <3> QED BY <3>4, <3>5
  <2>2. \A u : Comes(u, h) => ~m.xpd /\ EndsPreparation(u, m)
    BY <1>10, <2>1 DEF Comes
  <2>3. q2 = q /\ PutBack(h2)
    BY <1>1, <1>5, <1>8, <1>10
  <2>4. t2 # "PR" => Comes(t2, q) \/ Comes(t2, h2)
    BY <1>2, <1>3, <1>6, <1>8, <1>10, <2>2
  <2> QED BY <1>2, <2>3, <2>4 DEF Prepared
<1>11. CASE /\ h = <<>> /\ q # <<>> /\ m = Head(q) /\ Rest(s) = Tail(q)
            /\ sb2spkt(sb[s]).spdu = <<>>
  <2>1. /\ Announced(Tail(q)) /\ NoAbort(Tail(q))
        /\ \A u : Comes(u, q) => Comes(u, Tail(q)) \/ (~m.xpd /\ EndsPreparation(u, m))
        /\ m.code = "PR" => Comes(m.type, Tail(q))
    BY <1>1, <1>2, <1>11, TailPrepared
  <2>2. q2 = Tail(q) /\ PutBack(h2)
    BY <1>1, <1>5, <1>8, <1>11
  <2>3. t # "PR" => Comes(t, Tail(q)) \/ (~m.xpd /\ EndsPreparation(t, m))
    BY <1>2, <1>4, <1>11, <2>1
  <2>4. t2 # "PR" => Comes(t2, Tail(q)) \/ Comes(t2, h2)
    BY <1>3, <1>6, <1>7, <1>8, <2>1, <2>3
  <2> QED BY <2>1, <2>2, <2>4 DEF Prepared
<1> QED BY <1>1, <1>2, <1>9, <1>10, <1>11, Source

(* A step leaves both ends prepared, as long as both are in use.           *)
LEMMA PrepKept == TypeOK /\ TypeOK' /\ PrepInv /\ [Next]_vars => PrepInv'
<1> SUFFICES ASSUME TypeOK, PrepInv, [Next]_vars, BothLive'
             PROVE  \A s \in Side : Prepared(s)'
  BY DEF PrepInv
<1>1. CASE UNCHANGED vars
  <2>1. sb' = sb /\ net' = net
    BY <1>1 DEF vars
  <2>2. BothLive
    BY <2>1 DEF BothLive, Live
  <2> QED BY <2>1, <2>2 DEF PrepInv, Prepared
<1>2. CASE Next
  <2>1. BothLive /\ \A s \in Side : Prepared(s)
    BY <1>2, LiveBefore DEF PrepInv
  <2>2. PICK s \in Side : UserRequest(s) \/ UserResponse(s) \/ Read(s) \/ Timer(s)
    BY <1>2 DEF Next
  <2>3. Side = {s, Peer(s)} /\ Peer(s) \in Side
    BY DEF Side, Peer
  <2>4. Speaks(s) \/ Hears(s)
    BY <2>1, <2>2, RequestSpeaks, ResponseSpeaks, ReadHears
  <2>5. Prepared(s)'
    BY <2>1, <2>4, SpeaksPrepared, HearsPrepared
  <2>6. Grown(net[Peer(s)], net'[Peer(s)])
    BY <2>4 DEF Speaks, Hears
  <2>7. sb'[Peer(s)] = sb[Peer(s)]
    BY <2>2, OwnBlock
  <2>8. Prepared(Peer(s))'
    BY <2>1, <2>3, <2>6, <2>7, GrownStaysPrepared
  <2> QED BY <2>3, <2>5, <2>8
<1> QED BY <1>1, <1>2

(* A connection starts with nothing to prepare for.                        *)
LEMMA PrepInit == Init => PrepInv
BY DEF Init, newsblk, PrepInv, Prepared, Announced, NoAbort, PutBack, Comes

(* A block that discards what it reads, because a PR announced an SPDU,    *)
(* has that SPDU ahead of it: the preparation ends (ssaprovider.c, the     *)
(* tests of sb_pr).                                                        *)
THEOREM PreparationAnnounced == Spec => []PrepInv
<1>1. TypeOK /\ PrepInv /\ [Next]_vars => TypeOK' /\ PrepInv'
  BY TypeStep, PrepKept
<1>2. Init => TypeOK /\ PrepInv
  BY TypeInit, PrepInit
<1> QED BY <1>1, <1>2, PTL DEF Spec

-----------------------------------------------------------------------------
(* No token is lost.                                                       *)

(* The users neither report exceptions nor give control away, or cannot:   *)
(* the one takes exceptions, the other activities.  A reporter discards    *)
(* what it reads until it is given the data token; who has given control   *)
(* ignores the tokens it is given; and a GTC is ignored by a side that     *)
(* knows of an activity whose start its peer has discarded.                *)
Plainly == /\ "report" \in Calls => ~Needs("EXCEPTIONS")
           /\ "control" \in Calls => ~Needs("ACTIVITY")

(* A GT with token t is behind the SPDU at i.                              *)
GivenBehind(x, i, t) ==
    \E j \in Place(x) : j > i /\ Ahead(x)[j].code = "GT" /\ t \in Ahead(x)[j].tokens

(* Each token is somewhere when nobody waits for an answer, ...            *)
Unlost == (\A x \in Side : ~Suspended(x)) => \A t \in Tokens : \E x \in Side : Holds(x, t)

(* ... and what an answer leaves who sent it, its sender has, or has given *)
(* since.                                                                  *)
Entitled(s) == ~Suspended(Peer(s)) => \A i \in Place(s) : Ahead(s)[i].code = "RA" =>
    \A t \in Tokens : Ahead(s)[i].settings[t] = Peer(s) =>
        t \in sb[Peer(s)].owned \/ GivenBehind(s, i, t)

(* Nobody discards or ignores a gift for good.                             *)
Unmarked(s) == sb[s].flags \cap {"ED", "GTC"} = {}

UnlostInv == BothLive => Unlost /\ \A s \in Side : Entitled(s) /\ Unmarked(s)

(* Reporting an exception and giving control are all that marks a side.    *)
LEMMA RequestMarks ==
    ASSUME TypeOK, Plainly, NEW s \in Side, UserRequest(s), BothLive'
    PROVE  sb'[s].flags \cap {"ED", "GTC"} \subseteq sb[s].flags
<1>b. sb[s] \in Ssapblk /\ sb \in [Side -> Ssapblk]
  BY DEF TypeOK
<1>1. CASE sb' = sb
  BY <1>1
<1>2. CASE SDataRequest(s) \/ STypedRequest(s) \/ SExpdRequest(s) \/ SPTokenRequest(s)
  BY <1>2 DEF SDataRequest, STypedRequest, SExpdRequest, SPTokenRequest
<1>3. CASE SGTokenRequest(s)
  <2>1. PICK ts \in SUBSET sb[s].owned :
          sb' = [sb EXCEPT ![s].owned = @ \ ts,
                           ![s].flags = IF "dat" \in ts THEN @ \ {"EDACK"} ELSE @]
    BY <1>3, Zenon DEF SGTokenRequest
  <2> QED BY <1>b, <2>1 DEF Ssapblk
<1>4. CASE SGControlRequest(s) \/ SUReportRequest(s)
  BY <1>4 DEF SGControlRequest, SUReportRequest, SDoActivityAux, Requests, Plainly
<1>5. CASE SCapdRequest(s)
  BY <1>5, <1>b DEF SCapdRequest, Ssapblk
<1>14. CASE SRelRequest(s)
  BY <1>14, <1>b DEF SRelRequest, Ssapblk
<1>13. CASE SMinSyncRequest(s)
  BY <1>13, <1>b DEF SMinSyncRequest, Ssapblk
<1>12. CASE SActStartRequest(s)
  BY <1>12, <1>b DEF SActStartRequest, InActivity, Ssapblk
<1>6. CASE SMinSyncResponse(s)
  <2>1. \E n : sb' = [sb EXCEPT ![s].V_A = n]
    BY <1>6, Zenon DEF SMinSyncResponse
  <2> QED BY <1>b, <2>1 DEF Ssapblk
<1>7. CASE \E end \in BOOLEAN : SMajSyncRequestAux(s, end)
  BY <1>7, <1>b DEF SMajSyncRequestAux, Ssapblk
<1>8. CASE SReSyncRequest(s)
  <2>1. PICK type \in ReSync, settings \in Proposals :
          \E ssn \in ResyncPoints(sb[s], type) :
            sb' = [sb EXCEPT ![s].flags = (@ \cup {"RS"}) \ {"RA", "EDACK"},
                             ![s].rs = type, ![s].rsn = ssn, ![s].rsettings = settings]
    BY <1>8, Zenon DEF SReSyncRequest
  <2>2. PICK ssn \in ResyncPoints(sb[s], type) :
            sb' = [sb EXCEPT ![s].flags = (@ \cup {"RS"}) \ {"RA", "EDACK"},
                             ![s].rs = type, ![s].rsn = ssn, ![s].rsettings = settings]
    BY <2>1, Zenon
  <2> QED BY <1>b, <2>2 DEF Ssapblk
<1>9. CASE SActResumeRequest(s)
  <2>1. \E n : sb' = [sb EXCEPT ![s] = InActivity(@, n)]
    BY <1>9, Zenon DEF SActResumeRequest
  <2> QED BY <1>b, <2>1 DEF InActivity, Ssapblk
<1>10. CASE SActIntrRequest(s)
  <2>1. \E how : sb' = [sb EXCEPT ![s].flags = (@ \cup {"AI"}) \ {"RA", "EDACK"},
                                  ![s].rs = how]
    BY <1>10, Zenon DEF SActIntrRequest
  <2> QED BY <1>b, <2>1 DEF Ssapblk
<1>11. CASE SUAbortRequest(s)
  BY <1>11, FreedNotLive DEF SUAbortRequest
<1> QED
  BY <1>2, <1>3, <1>4, <1>5, <1>6, <1>7, <1>8, <1>9, <1>10, <1>11, <1>12, <1>13,
     <1>14 DEF UserRequest, SMajSyncRequest, SActEndRequest

LEMMA ResponseMarks ==
    ASSUME TypeOK, NEW s \in Side, UserResponse(s) \/ Timer(s), BothLive'
    PROVE  sb'[s].flags \cap {"ED", "GTC"} \subseteq sb[s].flags
<1>b. sb[s] \in Ssapblk /\ sb \in [Side -> Ssapblk]
  BY DEF TypeOK
<1>1. CASE SCapdResponse(s) \/ SMajSyncResponse(s) \/ SActIntrResponse(s)
  BY <1>1, <1>b
     DEF SCapdResponse, SMajSyncResponse, SActIntrResponse, ActivityAfterMajor, Ssapblk
<1>2. CASE SReSyncResponse(s)
  <2>1. \E settings, ssn :
          sb' = [sb EXCEPT ![s] =
                    [Resynchronized(s, sb[s], ssn, settings) EXCEPT !.flags = @ \ {"RA"}]]
    BY <1>2, Zenon DEF SReSyncResponse
  <2> QED BY <1>b, <2>1 DEF Resynchronized, Ssapblk
<1>3. CASE SRelResponse(s)
  <2>1. CASE sb' = [sb EXCEPT ![s] = Freed("draining")]
    BY <1>b, <2>1 DEF Freed, newsblk
  <2>2. CASE sb' = [sb EXCEPT ![s].flags = @ \ {"FINN"}]
    BY <1>b, <2>2 DEF Ssapblk
  <2> QED BY <1>3, <2>1, <2>2 DEF SRelResponse
<1>4. CASE SRelRetryRequest(s) \/ SRelTimeout(s)
  BY <1>4, <1>b DEF SRelRetryRequest, SRelTimeout, Ssapblk
<1>5. CASE DrainTimeout(s)
  BY <1>5, FreedNotLive DEF DrainTimeout
<1> QED BY <1>1, <1>2, <1>3, <1>4, <1>5 DEF UserResponse, Timer

(* Nothing that is read marks a side, either.                              *)
LEMMA ReadMarks ==
    ASSUME TypeOK, BothLive, NEW s \in Side, Read(s), BothLive'
    PROVE  sb'[s].flags \cap {"ED", "GTC"} \subseteq sb[s].flags
<1> DEFINE b == Taken(s)
           c == sb2spkt(sb[s])
           m == Incoming(s)
           kept(x) == x.flags \cap {"ED", "GTC"} \subseteq sb[s].flags
<1>1. CASE Drain(s)
  BY <1>1 DEF Drain, BothLive, Live
<1>2. CASE RecvAB(s) \/ RelDN(s) \/ RelAB(s)
  BY <1>2, FreedNotLive DEF RecvAB, RelDN, RelAB
<1>3. CASE RecvUnexpected(s) \/ RelUnexpected(s)
  BY <1>3, AbortNotLive DEF RecvUnexpected, RelUnexpected
<1>4. CASE RecvTDISC(s)
  BY <1>4 DEF RecvTDISC, Freed, newsblk, TypeOK, BothLive, Live
<1>r. CASE ~Readable(s)
  BY <1>r, <1>1, <1>2, <1>3, <1>4
     DEF Read, Drop, RecvData, RecvGT, RecvEX, RecvCD, RecvGTC, RecvGTA, RecvMAP, RecvMAA,
         RecvMIP, RecvMIA, RecvRS, RecvRA, RecvPR, RecvED, RecvAS, RecvAI, RecvAIA, RecvFN,
         RelFN, RelNF, RelRS, Waits, Arrives, Reads
<1> SUFFICES ASSUME Readable(s) PROVE kept(sb'[s])
  BY <1>r
<1>b. b \in Ssapblk /\ b.flags = sb[s].flags /\ c \in Ssapblk /\ c.flags = sb[s].flags
  BY TakenView, IncomingTyped
<1>d. \A x : Done(s, x) => sb'[s] = x
  BY DEF Done, TypeOK
<1> HIDE DEF b, c, m
<1>5. ASSUME NEW fs, Done(s, [b EXCEPT !.flags = fs]), fs \cap {"ED", "GTC"} \subseteq b.flags
      PROVE  kept(sb'[s])
  BY <1>5, <1>b, <1>d DEF Ssapblk
<1>i. \A x : Done(s, x) /\ kept(x) => kept(sb'[s])
  BY <1>d
<1>e. /\ \A ts, fs : [b EXCEPT !.owned = ts, !.flags = fs].flags = fs
      /\ \A fs, x : [b EXCEPT !.flags = fs, !.rs = x].flags = fs
      /\ \A fs, x, y, z :
            [b EXCEPT !.flags = fs, !.rs = x, !.rsn = y, !.rsettings = z].flags = fs
      /\ \A x, y, z, fs : [b EXCEPT !.V_A = x, !.V_M = y, !.V_R = z, !.flags = fs].flags = fs
  BY <1>b DEF Ssapblk
<1>6. CASE Drop(s) \/ RecvData(s)
  BY <1>6, <1>b, <1>d DEF Drop, RecvData, b
<1>7. CASE RecvGT(s)
  <2> DEFINE fs == IF "dat" \in m.tokens THEN b.flags \ {"ED"} ELSE b.flags
             x == [b EXCEPT !.owned = @ \cup m.tokens, !.flags = fs]
  <2>1. Done(s, b) \/ Done(s, x)
    BY <1>7, Zenon DEF RecvGT, b, m
  <2>2. fs \cap {"ED", "GTC"} \subseteq b.flags
    OBVIOUS
  <2> HIDE DEF fs
  <2>3. x.flags = fs
    BY <1>e
  <2> HIDE DEF x
  <2> QED BY <1>b, <1>i, <2>1, <2>2, <2>3
<1>8. CASE RecvEX(s)
  <2>1. Done(s, b) \/ Done(s, [b EXCEPT !.xspdu = TRUE])
    BY <1>8, AbortNotLive DEF RecvEX, b
  <2> QED BY <1>b, <1>d, <2>1 DEF Ssapblk
<1>9. CASE RecvCD(s)
  <2>1. \E f : Done(s, [b EXCEPT !.flags = IF f THEN @ \cup {"CDA"} ELSE @ \ {"CD"}])
    BY <1>9, Zenon DEF RecvCD, b
  <2> QED BY <1>b, <1>d, <2>1 DEF Ssapblk
<1>10. CASE RecvGTC(s)
  <2>1. Done(s, b) \/ sb' = [sb EXCEPT ![s] = [b EXCEPT !.owned = Tokens]]
    BY <1>10, Zenon DEF RecvGTC, b
  <2>2. sb'[s] = b \/ sb'[s] = [b EXCEPT !.owned = Tokens]
    BY <1>d, <2>1 DEF TypeOK
  <2> QED BY <1>b, <2>2 DEF Ssapblk
<1>11. CASE RecvGTA(s)
  BY <1>11, <1>5 DEF RecvGTA, b
<1>12. CASE RecvMAP(s) \/ RecvMIP(s)
  <2> DEFINE y == SyncPointOfPeer(b)
           u == (y.flags \ {"Vnextact"}) \cup {"MAA", "AE"}
           v == y.flags \cup {"MAA"} \cup (IF Needs("ACTIVITY") THEN {"Vnextact"} ELSE {})
           w == y.flags \cup {"Vsc"}
  <2>1. \/ Done(s, b) \/ Done(s, y)
        \/ \E fs \in {u, v, w} : Done(s, [y EXCEPT !.flags = fs])
    <3>1. CASE RecvMIP(s)
      <4>1. Done(s, [y EXCEPT !.flags = w])
        BY <3>1, Zenon DEF RecvMIP, b
      <4> QED BY <4>1
    <3>2. CASE RecvMAP(s)
      <4>1. \/ Done(s, b) \/ Done(s, y)
            \/ Done(s, [y EXCEPT !.flags = u]) \/ Done(s, [y EXCEPT !.flags = v])
        BY <3>2, Zenon DEF RecvMAP, b
      <4> HIDE DEF u, v, w, y
      <4> QED BY <4>1
    <3> QED BY <1>12, <3>1, <3>2
  <2>2. y.flags = b.flags
    BY <1>b DEF SyncPointOfPeer, Ssapblk
  <2>3. \A fs : [y EXCEPT !.flags = fs].flags = fs
    <3>1. y \in Ssapblk
      BY <1>b, SyncPointTyped
    <3> HIDE DEF y
    <3> QED BY <3>1 DEF Ssapblk
  <2>4. \A fs \in {u, v, w} : fs \cap {"ED", "GTC"} \subseteq b.flags
    BY <2>2
  <2> HIDE DEF u, v, w, y
  <2> QED BY <1>b, <1>i, <2>1, <2>2, <2>3, <2>4
<1>13. CASE RecvMAA(s)
  <2> DEFINE fs == ActivityAfterMajor(b.flags) \ {"MAP", "AE"}
  <2>1. Done(s, b) \/ Done(s, [b EXCEPT !.V_A = b.V_M, !.V_R = b.V_M, !.flags = fs])
    BY <1>13, Zenon DEF RecvMAA, b
  <2>2. fs \cap {"ED", "GTC"} \subseteq b.flags
    BY DEF ActivityAfterMajor
  <2> HIDE DEF fs
  <2> QED BY <1>b, <1>d, <2>1, <2>2 DEF Ssapblk
<1>14. CASE RecvMIA(s)
  <2>1. Done(s, b) \/ \E n : Done(s, [b EXCEPT !.V_A = n])
    BY <1>14, Zenon DEF RecvMIA, b
  <2> QED BY <1>b, <1>d, <2>1 DEF Ssapblk
<1>15. CASE RecvRS(s)
  <2> DEFINE x == [b EXCEPT !.flags = (@ \ {"RS"}) \cup {"RA"}, !.rs = m.type,
                            !.rsn = m.ssn, !.rsettings = m.settings]
  <2>1. \/ Done(s, b)
        \/ Done(s, x)
    BY <1>15, Zenon DEF RecvRS, b, m
  <2>2. x.flags = (b.flags \ {"RS"}) \cup {"RA"}
    BY <1>e
  <2> HIDE DEF x
  <2> QED BY <1>b, <1>i, <2>1, <2>2
<1>16. CASE RecvRA(s)
  <2> DEFINE y == Resynchronized(s, b, m.ssn, m.settings)
           x == [y EXCEPT !.flags = @ \ {"RS"}, !.rsettings = m.settings]
  <2>1. Done(s, x)
    BY <1>16, Zenon DEF RecvRA, b, m
  <2>2. y \in Ssapblk /\ y.flags = b.flags
    <3>1. m \in SpduSet
      BY IncomingTyped DEF m
    <3>2. y \in Ssapblk
      BY <1>b, <3>1, ResynchronizedTyped DEF SpduSet, SpduShape
    <3> QED BY <1>b, <3>2 DEF Resynchronized, Ssapblk
  <2> HIDE DEF y
  <2>3. x.flags = y.flags \ {"RS"}
    BY <2>2 DEF Ssapblk
  <2> HIDE DEF x
  <2> QED BY <1>b, <1>i, <2>1, <2>2, <2>3
<1>17. CASE RecvPR(s)
  <2>1. \E t, f : Done(s, [b EXCEPT !.pr = t, !.flags = IF f THEN @ \ {"ED"} ELSE @])
    BY <1>17, Zenon DEF RecvPR, b
  <2> QED BY <1>b, <1>d, <2>1 DEF Ssapblk
<1>18. CASE RecvED(s)
  <2>1. \E f : Done(s, [b EXCEPT !.flags = IF f THEN @ \cup {"EDACK"} ELSE @])
    BY <1>18, Zenon DEF RecvED, b
  <2> QED BY <1>b, <1>d, <2>1 DEF Ssapblk
<1>19. CASE RecvAS(s)
  <2>1. Done(s, b) \/ \E n : Done(s, InActivity(b, n))
    BY <1>19, Zenon DEF RecvAS, b
  <2>2. \A n : InActivity(b, n).flags = b.flags \cup {"Vact"}
    BY <1>e DEF InActivity
  <2> QED BY <1>b, <1>i, <2>1, <2>2
<1>20. CASE RecvAI(s)
  <2> DEFINE x == [b EXCEPT !.flags = (@ \ {"RS", "RA"}) \cup {"AIA"}, !.rs = "intr"]
  <2>1. Done(s, b) \/ Done(s, x)
    BY <1>20, Zenon DEF RecvAI, b
  <2>2. x.flags = (b.flags \ {"RS", "RA"}) \cup {"AIA"}
    BY <1>e
  <2> HIDE DEF x
  <2> QED BY <1>b, <1>i, <2>1, <2>2
<1>21. CASE RecvAIA(s)
  <2>1. Done(s, b) \/ Done(s, [b EXCEPT !.flags = @ \ {"AI", "Vact"}, !.owned = Tokens])
    BY <1>21, Zenon DEF RecvAIA, b
  <2> QED BY <1>b, <1>d, <2>1 DEF Ssapblk
<1>22. CASE RecvFN(s)
  BY <1>22, <1>b, <1>d DEF RecvFN, b, Ssapblk
<1>23. CASE RelFN(s)
  <2>1. sb'[s] = c
    BY <1>23 DEF RelFN, c, TypeOK
  <2> QED BY <1>b, <2>1
<1>24. CASE RelNF(s) \/ RelRS(s)
  BY <1>24, <1>b, <1>d DEF RelNF, RelRS, c, Ssapblk
<1> QED
  BY <1>1, <1>2, <1>3, <1>4, <1>6, <1>7, <1>8, <1>9, <1>10, <1>11, <1>12, <1>13, <1>14, <1>15,
     <1>16, <1>17, <1>18, <1>19, <1>20, <1>21, <1>22, <1>23, <1>24 DEF Read

-----------------------------------------------------------------------------
(* What a step does to the queues, SPDU by SPDU.                           *)

(* What is put back before a queue stays, too.                             *)
LEMMA StaysBehind ==
    ASSUME NEW p \in Seq(SpduSet), NEW q \in Seq(SpduSet), NEW r \in Seq(SpduSet), Stays(q, r)
    PROVE  Stays(p \o q, p \o r)
<1> PICK g : Embedded(q, r, g)
  BY DEF Stays
<1> DEFINE n == Len(p)
           a == p \o q
           b == p \o r
           f == [i \in 1..Len(a) |-> IF i <= n THEN i ELSE g[i - n] + n]
<1>1. /\ n \in Nat /\ Len(q) \in Nat /\ Len(r) \in Nat
      /\ Len(a) = n + Len(q) /\ Len(b) = n + Len(r)
  OBVIOUS
<1>2. \A i \in 1..Len(a) : IF i <= n THEN a[i] = p[i] ELSE i - n \in 1..Len(q) /\ a[i] = q[i - n]
  OBVIOUS
<1>3. \A i \in 1..n : i \in 1..Len(b) /\ b[i] = p[i]
  OBVIOUS
<1>4. \A i \in 1..Len(r) : i + n \in 1..Len(b) /\ b[i + n] = r[i]
  OBVIOUS
<1> HIDE DEF n, a, b
<1>5. ASSUME NEW i \in 1..Len(a)
      PROVE  f[i] \in 1..Len(b) /\ b[f[i]] = a[i] /\ (i > n => f[i] > n)
  <2>1. CASE i <= n
    BY <1>1, <1>2, <1>3, <2>1
  <2>2. CASE i > n
    <3>1. i - n \in 1..Len(q) /\ a[i] = q[i - n]
      BY <1>1, <1>2, <2>2
    <3>2. g[i - n] \in 1..Len(r) /\ r[g[i - n]] = q[i - n]
      BY <3>1 DEF Embedded
    <3>3. f[i] = g[i - n] + n
      BY <1>1, <2>2
    <3> QED BY <1>1, <1>4, <2>2, <3>1, <3>2, <3>3
  <2> QED BY <1>1, <2>1, <2>2
<1>6. ASSUME NEW i \in 1..Len(a), NEW j \in 1..Len(a), j > i
      PROVE  f[j] > f[i]
  <2>1. CASE i > n
    <3>1. i - n \in 1..Len(q) /\ j - n \in 1..Len(q) /\ j - n > i - n
      BY <1>1, <1>2, <1>6, <2>1
    <3>2. g[j - n] > g[i - n] /\ g[i - n] \in 1..Len(r) /\ g[j - n] \in 1..Len(r)
      BY <3>1 DEF Embedded
    <3>3. f[i] = g[i - n] + n /\ f[j] = g[j - n] + n
      BY <1>1, <1>6, <2>1
    <3> QED BY <1>1, <3>2, <3>3
  <2>2. CASE i <= n
    BY <1>1, <1>5, <1>6, <2>2
  <2> QED BY <1>1, <2>1, <2>2
<1>7. Embedded(a, b, f)
  <2> HIDE DEF f
  <2> QED BY <1>5, <1>6 DEF Embedded
<1> QED BY <1>7, Zenon DEF Stays, a, b

(* A side reads the first SPDU ahead of it, or none of them.               *)
LEMMA HeadOrNone ==
    ASSUME TypeOK, NEW s \in Side, PutBack(sb[s].spdu), Hears(s)
    PROVE  \/ Ahead(s)' = Ahead(s)
           \/ /\ Ahead(s) # <<>> /\ Ahead(s)' = Tail(Ahead(s))
              /\ Incoming(s) = Ahead(s)[1]
<1> DEFINE h == sb[s].spdu
           n == net[s]
           m == Incoming(s)
<1>1. h \in Seq(SpduSet) /\ n \in Seq(SpduSet) /\ m \in SpduSet /\ Readable(s)
  BY AheadTyped, IncomingTyped DEF Hears
<1>2. /\ net'[s] = Rest(s) /\ Ahead(s) = h \o n /\ Ahead(s)' = sb'[s].spdu \o Rest(s)
      /\ sb'[s].spdu = sb2spkt(sb[s]).spdu \/ (m.code = "RS" /\ sb'[s].spdu = <<m>>)
  BY DEF Hears, ReadsIt, AwaitsIt, Ahead
<1>3. \A q \in Seq(SpduSet) : <<>> \o q = q
  OBVIOUS
<1>4. \A q \in Seq(SpduSet) : q # <<>> => <<Head(q)>> \o Tail(q) = q /\ Head(q) = q[1]
  OBVIOUS
<1>5. CASE m.code = "EX" /\ Rest(s) = n /\ sb2spkt(sb[s]).spdu = h
  BY <1>2, <1>5
<1>6. CASE h # <<>> /\ m = h[1] /\ Rest(s) = n /\ sb2spkt(sb[s]).spdu = <<>>
  <2>1. h = <<m>>
    BY <1>1, <1>6 DEF PutBack
  <2>2. <<m>> \o n # <<>> /\ Tail(<<m>> \o n) = n /\ (<<m>> \o n)[1] = m
    <3>1. \A x \in SpduSet, q \in Seq(SpduSet) :
            <<x>> \o q # <<>> /\ Tail(<<x>> \o q) = q /\ (<<x>> \o q)[1] = x
      OBVIOUS
    <3> HIDE DEF m, n
    <3> QED BY <1>1, <3>1, Zenon
  <2> QED BY <1>1, <1>2, <1>3, <1>6, <2>1, <2>2
<1>7. CASE /\ h = <<>> /\ n # <<>> /\ m = Head(n) /\ Rest(s) = Tail(n)
           /\ sb2spkt(sb[s]).spdu = <<>>
  <2>1. Tail(n) \in Seq(SpduSet)
    BY <1>1, <1>7
  <2>2. Ahead(s) = n /\ n[1] = m /\ <<m>> \o Tail(n) = n
    BY <1>1, <1>2, <1>3, <1>4, <1>7, Zenon
  <2>3. Ahead(s)' = <<>> \o Tail(n) \/ Ahead(s)' = <<m>> \o Tail(n)
    BY <1>2, <1>7, Zenon
  <2>4. <<>> \o Tail(n) = Tail(n)
    BY <1>3, <2>1, Zenon
  <2> HIDE DEF m, n
  <2> QED BY <1>7, <2>2, <2>3, <2>4, Zenon DEF m
<1> QED BY <1>1, <1>5, <1>6, <1>7, Source

(* Nobody but the peer adds to what a side has to read, and nothing of it  *)
(* is lost before it is read.                                              *)
LEMMA QueuesMove ==
    ASSUME TypeOK, TypeOK', PrepInv, BothLive, BothLive', NEW s \in Side,
           UserRequest(s) \/ UserResponse(s) \/ Read(s) \/ Timer(s)
    PROVE  /\ Stays(Ahead(Peer(s)), Ahead(Peer(s))')
           /\ \/ Ahead(s)' = Ahead(s)
              \/ /\ Read(s) /\ Ahead(s) # <<>> /\ Ahead(s)' = Tail(Ahead(s))
                 /\ Incoming(s) = Ahead(s)[1]
<1> DEFINE p == Peer(s)
<1>1. p \in Side
  BY PeerSide
<1>2. Prepared(s) /\ PutBack(sb[s].spdu)
  BY DEF PrepInv, Prepared
<1>3. (Speaks(s) /\ ~Read(s)) \/ (Hears(s) /\ Read(s))
  <2>1. CASE Read(s)
    BY <2>1, ReadHears
  <2>2. CASE ~Read(s)
    BY <2>2, RequestSpeaks, ResponseSpeaks
  <2> QED BY <2>1, <2>2
<1>4. Stays(Ahead(p), Ahead(p)')
  <2>1. Stays(net[p], net'[p])
    BY <1>3 DEF Speaks, Hears, Grown
  <2>2. sb'[p] = sb[p]
    BY OwnBlock
  <2>3. /\ sb[p].spdu \in Seq(SpduSet) /\ net[p] \in Seq(SpduSet) /\ net'[p] \in Seq(SpduSet)
    BY <1>1, AheadTyped DEF TypeOK
  <2>4. Ahead(p) = sb[p].spdu \o net[p] /\ Ahead(p)' = sb[p].spdu \o net'[p]
    BY <2>2 DEF Ahead
  <2> HIDE DEF p
  <2> QED BY <2>1, <2>3, <2>4, StaysBehind
<1>5. Speaks(s) => Ahead(s)' = Ahead(s)
  BY DEF Speaks, SamePrep, Ahead
<1> QED BY <1>2, <1>3, <1>4, <1>5, HeadOrNone

(* A provider only prepares for what ends an ask that somebody waits on.   *)
LEMMA PreparingSuspended ==
    ASSUME TypeOK, PrepInv, Good, BothLive, NEW s \in Side, sb[s].pr \in {"RS", "RA", "AB"}
    PROVE  \E x \in Side : Suspended(x)
<1> DEFINE h == sb[s].spdu
           n == net[s]
           t == sb[s].pr
<1>1. h \in Seq(SpduSet) /\ n \in Seq(SpduSet) /\ Ahead(s) = h \o n
  BY AheadTyped DEF Ahead
<1>2. /\ Len(h \o n) = Len(h) + Len(n) /\ Len(h) \in Nat /\ Len(n) \in Nat
      /\ \A i \in 1..Len(h) : (h \o n)[i] = h[i]
      /\ \A i \in 1..Len(n) : (h \o n)[Len(h) + i] = n[i]
  BY <1>1, Concatenated
<1>3. \E k \in Place(s) : EndsPreparation(t, Ahead(s)[k]) /\ Ahead(s)[k].code # "AB"
  <2>1. Prepared(s)
    BY DEF PrepInv
  <2>2. CASE Comes(t, h)
    <3>1. PICK j \in 1..Len(h) : EndsPreparation(t, h[j]) /\ h[j].code = "RS"
      BY <2>1, <2>2 DEF Comes, Prepared, PutBack
    <3>2. j \in Place(s) /\ Ahead(s)[j] = h[j]
      <4> HIDE DEF h, n
      <4>1. j \in 1..Len(h) + Len(n)
        BY <1>2
      <4> QED BY <1>1, <1>2, <4>1, Zenon DEF Place
    <3> QED BY <3>1, <3>2
  <2>3. CASE Comes(t, n)
    <3>1. PICK j \in 1..Len(n) : EndsPreparation(t, n[j]) /\ n[j].code # "AB"
      BY <2>1, <2>3 DEF Comes, Prepared, NoAbort
    <3>2. Len(h) + j \in Place(s) /\ Ahead(s)[Len(h) + j] = n[j]
      <4> HIDE DEF h, n
      <4>1. Len(h) + j \in 1..Len(h) + Len(n)
        BY <1>2
      <4> QED BY <1>1, <1>2, <4>1, Zenon DEF Place
    <3> QED BY <3>1, <3>2
  <2> QED BY <2>1, <2>2, <2>3 DEF Prepared
<1>4. PICK k \in Place(s) : Ahead(s)[k].code \in AskCode \cup AnswerCode
  BY <1>3 DEF EndsPreparation, AskCode, AnswerCode
<1>5. TokenKept(s) /\ Peer(s) \in Side
  BY PeerSide DEF Good
<1>6. CASE Ahead(s)[k].code \in AskCode
  BY <1>5, <1>6 DEF TokenKept, AskKept, StandsBy, Beats, Suspended, Flagged
<1>7. CASE Ahead(s)[k].code \in AnswerCode
  BY <1>5, <1>7 DEF TokenKept, AnswerKept, AnswerCode, Suspended, Flagged
<1> QED BY <1>4, <1>6, <1>7

(* Tokens that are read are owned, unless somebody waits for an answer.    *)
LEMMA GiftRead ==
    ASSUME TypeOK, PrepInv, Good, BothLive, BothLive', NEW s \in Side, Unmarked(s), Read(s),
           Ahead(s) # <<>>, Incoming(s) = Ahead(s)[1], Incoming(s).code = "GT",
           \A x \in Side : ~Suspended(x)
    PROVE  sb[s].owned \cup Incoming(s).tokens \subseteq sb'[s].owned
<1>1. "ED" \notin sb[s].flags /\ "GTC" \notin sb[s].flags
  BY DEF Unmarked
<1>2. ~Drop(s)
  <2> SUFFICES ASSUME Drop(s) PROVE FALSE
    OBVIOUS
  <2>1. PreparationDrops(sb[s].pr, Incoming(s))
    BY <1>1 DEF Drop, Dropped, CollisionDrops, ExceptionDrops
  <2>2. sb[s].pr \in {"RS", "RA", "AB"}
    BY <2>1 DEF PreparationDrops
  <2> QED BY <2>2, PreparingSuspended
<1>3. CASE RecvGT(s)
  <2> DEFINE b == Taken(s)
             m == Incoming(s)
             fs == IF "dat" \in m.tokens THEN b.flags \ {"ED"} ELSE b.flags
             x == [b EXCEPT !.owned = @ \cup m.tokens, !.flags = fs]
  <2>1. Done(s, x) /\ Readable(s)
    BY <1>1, <1>3, Zenon DEF RecvGT, Arrives, Reads
  <2>2. b \in Ssapblk /\ b.owned = sb[s].owned
    BY <2>1, TakenView, IncomingTyped
  <2> HIDE DEF b, m, fs
  <2>3. x.owned = b.owned \cup m.tokens
    BY <2>2 DEF Ssapblk
  <2> HIDE DEF x
  <2>4. sb'[s] = x
    BY <2>1 DEF Done, TypeOK
  <2> QED BY <2>2, <2>3, <2>4 DEF m
<1>4. CASE Drain(s)
  BY <1>4 DEF Drain, BothLive, Live
<1>5. CASE RelUnexpected(s)
  BY <1>5, AbortNotLive DEF RelUnexpected
<1>6. CASE RecvUnexpected(s)
  BY <1>6, AbortNotLive DEF RecvUnexpected
<1> QED
  BY <1>2, <1>3, <1>4, <1>5, <1>6
     DEF Read, RecvData, RecvEX, RecvCD, RecvGTC, RecvGTA, RecvMAP, RecvMAA, RecvMIP, RecvMIA,
         RecvRS, RecvRA, RecvPR, RecvED, RecvAS, RecvAI, RecvAIA, RecvFN, RecvAB, RecvTDISC,
         RelFN, RelDN, RelNF, RelRS, RelAB, Arrives, Waits

(* What s owned it still owns, unless it has given it or an answer settled *)
(* it.                                                                     *)
LEMMA OwnedStays ==
    ASSUME TypeOK, Plainly, NEW s \in Side, Step(s), NEW t \in Tokens, t \in sb[s].owned,
           \A m \in SpduSet : ~Replies(s, m) /\ ~Settles(s, m)
    PROVE  \/ t \in sb'[s].owned
           \/ \E l \in Place(Peer(s))' :
                /\ Ahead(Peer(s))'[l].code = "GT" /\ t \in Ahead(Peer(s))'[l].tokens
                /\ \A i \in Place(Peer(s))' : ~(i > l)
<1>1. CASE \/ Passes(s) \/ Resumes(s) \/ Stops(s)
           \/ \E m \in SpduSet : Finishes(s, m) \/ Confirms(s, m)
  BY <1>1 DEF Passes, Resumes, Stops, Finishes, Confirms, Still, SameSide, SameTokens
<1>2. CASE \E m \in SpduSet : Gains(s, m) \/ Asks(s, m) \/ Accepts(s, m)
  BY <1>2 DEF Gains, Asks, Accepts
<1>3. ASSUME NEW m \in SpduSet, Gives(s, m), t \notin sb'[s].owned
      PROVE  \E l \in Place(Peer(s))' :
                /\ Ahead(Peer(s))'[l].code = "GT" /\ t \in Ahead(Peer(s))'[l].tokens
                /\ \A i \in Place(Peer(s))' : ~(i > l)
  <2>1. m.code = "GT" /\ t \in m.tokens /\ Joins(Peer(s), m)
    BY <1>3 DEF Gives, GiftCode, Carries, Plainly
  <2> QED BY <2>1, JoinPlaces
<1> QED BY <1>1, <1>2, <1>3 DEF Step

(* A side stops waiting when it accepts an ask or reads an answer.         *)
LEMMA WaitEnds ==
    ASSUME NEW s \in Side, Step(s), Suspended(s), ~Suspended(s)'
    PROVE  \E m \in SpduSet : Accepts(s, m) \/ Settles(s, m)
<1> USE DEF Suspended, Flagged, SameFlags
<1>1. ~ \/ Passes(s) \/ Resumes(s) \/ Stops(s)
        \/ \E m \in SpduSet : Finishes(s, m) \/ Confirms(s, m)
  BY DEF Passes, Resumes, Stops, Finishes, Confirms, Still, SameSide, SameTokens
<1>2. \A m \in SpduSet : ~Gives(s, m) /\ ~Gains(s, m) /\ ~Asks(s, m) /\ ~Replies(s, m)
  BY DEF Gives, Gains, Asks, Replies
<1> QED BY <1>1, <1>2 DEF Step

(* What s reads when it stops waiting, and what it knows then.             *)
LEMMA WaitEndsBy ==
    ASSUME TypeOK, Good, NEW s \in Side, NEW m \in SpduSet
    PROVE  /\ Accepts(s, m) => Suspended(Peer(s)) /\ NoneOf(Peer(s), AnswerCode)
           /\ Settles(s, m) => /\ Suspended(s) /\ NoneOf(Peer(s), AnswerCode)
                               /\ 1 \in Place(s) /\ Ahead(s)[1] = m
                               /\ m.code = "RA" => m.settings \in FinalSettings
           /\ Replies(s, m) => Suspended(Peer(s)) /\ NoneOf(Peer(s), AnswerCode)
<1>1. TokenKept(s)
  BY DEF Good
<1>2. ReadsOff(s, m) => 1 \in Place(s) /\ Ahead(s)[1] = m
  <2>1. Ahead(s) \in Seq(SpduSet)
    BY AheadTyped
  <2> QED BY <2>1 DEF ReadsOff, Place
<1>3. ASSUME Accepts(s, m) PROVE Suspended(Peer(s)) /\ NoneOf(Peer(s), AnswerCode)
  BY <1>1, <1>2, <1>3 DEF Accepts, TokenKept, AskKept, StandsBy, Suspended, Flagged
<1>4. ASSUME Settles(s, m)
      PROVE  /\ Suspended(s) /\ NoneOf(Peer(s), AnswerCode)
             /\ 1 \in Place(s) /\ Ahead(s)[1] = m
             /\ m.code = "RA" => m.settings \in FinalSettings
  <2>1. m.code \in AnswerCode /\ 1 \in Place(s) /\ Ahead(s)[1] = m
    BY <1>2, <1>4 DEF Settles, AnswerCode
  <2> QED BY <1>1, <2>1
          DEF TokenKept, AnswerKept, AnswerCode, Suspended, Flagged, NoneOf, Stirring
<1>5. ASSUME Replies(s, m) PROVE Suspended(Peer(s)) /\ NoneOf(Peer(s), AnswerCode)
  BY <1>1, <1>5 DEF Replies, TokenKept, AskedKept, Asked, Suspended, Flagged
<1> QED BY <1>3, <1>4, <1>5

(* An answer that is on its way to the peer of s was before, unless s has  *)
(* just sent it; then it is the last.                                      *)
LEMMA AnswersMove ==
    ASSUME TypeOK, NEW s \in Side, Step(s),
           NEW i \in Place(Peer(s))', Ahead(Peer(s))'[i].code = "RA"
    PROVE  \/ \E k \in Place(Peer(s)) : Ahead(Peer(s))[k] = Ahead(Peer(s))'[i]
           \/ \E m \in SpduSet : /\ Replies(s, m) /\ m.code = "RA"
                                 /\ Ahead(Peer(s))'[i] = m
<1> DEFINE p == Peer(s)
<1>1. Ahead(p)'[i].code \in Stirring
  BY DEF Stirring, AnswerCode
<1>2. CASE Kept(0, Ahead(p), Ahead(p)')
  BY <1>1, <1>2, KeptPlaces
<1>3. ASSUME NEW m \in SpduSet, Joins(p, m)
      PROVE  (\E k \in Place(p) : Ahead(p)[k] = Ahead(p)'[i]) \/ Ahead(p)'[i] = m
  BY <1>1, <1>3, JoinPlaces
<1>4. CASE Passes(s) \/ Resumes(s) \/ Stops(s)
  BY <1>2, <1>4 DEF Passes, Resumes, Stops, Still
<1>5. CASE \E m \in SpduSet : Gains(s, m) \/ Accepts(s, m) \/ Settles(s, m)
  BY <1>2, <1>5 DEF Gains, Accepts, Settles, Still
<1>6. CASE \E m \in SpduSet : Gives(s, m) \/ Asks(s, m) \/ Finishes(s, m) \/ Confirms(s, m)
  BY <1>3, <1>6 DEF Gives, Asks, Finishes, Confirms, GiftCode, AskCode
<1>7. CASE \E m \in SpduSet : Replies(s, m)
  BY <1>3, <1>7 DEF Replies
<1> QED BY <1>4, <1>5, <1>6, <1>7 DEF Step

-----------------------------------------------------------------------------
(* Nothing is lost on the way.                                             *)

Moves(s) == UserRequest(s) \/ UserResponse(s) \/ Read(s) \/ Timer(s)

(* What is behind an SPDU that s has not read.                             *)
LEMMA BehindTail ==
    ASSUME NEW q \in Seq(SpduSet), q # <<>>
    PROVE  /\ \A i \in 1..Len(Tail(q)) : i + 1 \in 1..Len(q) /\ Tail(q)[i] = q[i + 1]
           /\ \A j \in 1..Len(q) : j > 1 => /\ j - 1 \in 1..Len(Tail(q))
                                            /\ Tail(q)[j - 1] = q[j]
OBVIOUS

(* What an answer leaves the peer of s, the peer still has or has given.   *)
LEMMA EntitledOwn ==
    ASSUME TypeOK, TypeOK', PrepInv, BothLive, BothLive', NEW s \in Side, Moves(s), Entitled(s)
    PROVE  Entitled(s)'
<1>1. sb'[Peer(s)] = sb[Peer(s)] /\ (Suspended(Peer(s))' <=> Suspended(Peer(s)))
  BY OwnBlock DEF Moves, Suspended
<1>2. \/ Ahead(s)' = Ahead(s)
      \/ Ahead(s) # <<>> /\ Ahead(s)' = Tail(Ahead(s))
  BY QueuesMove DEF Moves
<1>3. CASE Ahead(s)' = Ahead(s)
  BY <1>1, <1>3 DEF Entitled, GivenBehind, Place
<1>4. CASE Ahead(s) # <<>> /\ Ahead(s)' = Tail(Ahead(s))
  <2> SUFFICES ASSUME ~Suspended(Peer(s)), NEW i \in Place(s)', Ahead(s)'[i].code = "RA",
                      NEW t \in Tokens, Ahead(s)'[i].settings[t] = Peer(s),
                      t \notin sb[Peer(s)].owned
               PROVE  GivenBehind(s, i, t)'
    BY <1>1 DEF Entitled
  <2>1. /\ \A k \in Place(s)' : k + 1 \in Place(s) /\ Ahead(s)'[k] = Ahead(s)[k + 1]
        /\ \A j \in Place(s) : j > 1 => j - 1 \in Place(s)' /\ Ahead(s)'[j - 1] = Ahead(s)[j]
    BY <1>4, AheadTyped, BehindTail DEF Place
  <2>2. PICK j \in Place(s) : /\ j > i + 1 /\ Ahead(s)[j].code = "GT"
                              /\ t \in Ahead(s)[j].tokens
    BY <2>1 DEF Entitled, GivenBehind
  <2>3. i \in Nat /\ i > 0 /\ j \in Nat
    BY DEF Place
  <2>4. j - 1 \in Place(s)' /\ j - 1 > i /\ Ahead(s)'[j - 1] = Ahead(s)[j]
    BY <2>1, <2>2, <2>3
  <2> QED BY <2>2, <2>4 DEF GivenBehind
<1> QED BY <1>2, <1>3, <1>4

(* What the answer of s leaves s, s still has or has given.                *)
LEMMA EntitledPeer ==
    ASSUME TypeOK, TypeOK', PrepInv, Good, Good', BothLive, BothLive', Plainly,
           NEW s \in Side, Moves(s), Step(s), Entitled(Peer(s))
    PROVE  Entitled(Peer(s))'
<1> DEFINE p == Peer(s)
<1>1. p \in Side /\ Peer(p) = s
  BY PeerSide DEF Peer, Side
<1>2. PICK g : Embedded(Ahead(p), Ahead(p)', g)
  BY QueuesMove DEF Moves, Stays
<1> SUFFICES ASSUME ~Suspended(s)', NEW i \in Place(p)', Ahead(p)'[i].code = "RA",
                    NEW t \in Tokens, Ahead(p)'[i].settings[t] = s, t \notin sb'[s].owned
             PROVE  GivenBehind(p, i, t)'
  BY <1>1 DEF Entitled
<1>3. \A m \in SpduSet : ~(Replies(s, m) /\ m.code = "RA" /\ Ahead(p)'[i] = m)
  BY DEF Replies
<1>4. PICK k \in Place(p) : Ahead(p)[k] = Ahead(p)'[i]
  BY <1>3, AnswersMove
<1>5. Ahead(p)[k].code = "RA" /\ ~NoneOf(p, AnswerCode)
  BY <1>4 DEF NoneOf, AnswerCode
<1>6. \A m \in SpduSet : ~Accepts(s, m) /\ ~Settles(s, m) /\ ~Replies(s, m)
  BY <1>5, WaitEndsBy
<1>7. ~Suspended(s)
  BY <1>6, WaitEnds
<1>8. t \in sb[s].owned \/ GivenBehind(p, k, t)
  BY <1>1, <1>4, <1>5, <1>7 DEF Entitled
<1>9. CASE t \in sb[s].owned
  <2>1. PICK l \in Place(p)' : /\ Ahead(p)'[l].code = "GT" /\ t \in Ahead(p)'[l].tokens
                               /\ \A j \in Place(p)' : ~(j > l)
    BY <1>6, <1>9, OwnedStays
  <2>2. l # i /\ ~(i > l) /\ i \in Nat /\ l \in Nat
    BY <2>1 DEF Place
  <2> QED BY <2>1, <2>2 DEF GivenBehind
<1>10. CASE GivenBehind(p, k, t)
  <2>1. PICK j \in Place(p) : /\ j > k /\ Ahead(p)[j].code = "GT" /\ t \in Ahead(p)[j].tokens
    BY <1>10 DEF GivenBehind
  <2>2. /\ g[j] \in Place(p)' /\ Ahead(p)'[g[j]] = Ahead(p)[j]
        /\ g[k] \in Place(p)' /\ Ahead(p)'[g[k]] = Ahead(p)[k] /\ g[j] > g[k]
    BY <1>2, <2>1 DEF Embedded, Place
  <2>3. ~(g[k] > i) /\ ~(i > g[k])
    BY <1>1, <1>5, <2>2 DEF Good, TokenKept, AnswerKept, NoneAfter, AnswerCode
  <2>4. g[k] = i
    BY <2>2, <2>3 DEF Place
  <2> QED BY <2>1, <2>2, <2>4 DEF GivenBehind
<1> QED BY <1>8, <1>9, <1>10

(* A step of s leaves each token somewhere.                                *)
LEMMA UnlostKept ==
    ASSUME TypeOK, TypeOK', PrepInv, Good, BothLive, BothLive', Plainly,
           NEW s \in Side, Moves(s), Step(s), Unlost, Entitled(s), Unmarked(s)
    PROVE  Unlost'
<1> DEFINE p == Peer(s)
<1>1. p \in Side /\ Side = {s, p}
  BY DEF Peer, Side
<1>2. sb'[p] = sb[p] /\ (Suspended(p)' <=> Suspended(p))
  BY OwnBlock DEF Moves, Suspended
<1>3. PICK g : Embedded(Ahead(p), Ahead(p)', g)
  BY QueuesMove DEF Moves, Stays
<1>4. \/ Ahead(s)' = Ahead(s)
      \/ /\ Read(s) /\ Ahead(s) # <<>> /\ Ahead(s)' = Tail(Ahead(s))
         /\ Incoming(s) = Ahead(s)[1]
  BY QueuesMove DEF Moves
<1>5. \A j \in Place(s) : j > 1 => \E i \in Place(s)' : Ahead(s)'[i] = Ahead(s)[j]
  <2>1. CASE Ahead(s)' = Ahead(s)
    BY <2>1 DEF Place
  <2>2. CASE Ahead(s) # <<>> /\ Ahead(s)' = Tail(Ahead(s))
    <3>1. \A j \in Place(s) : j > 1 => /\ j - 1 \in Place(s)'
                                      /\ Ahead(s)'[j - 1] = Ahead(s)[j]
      BY <2>2, AheadTyped, BehindTail DEF Place
    <3> QED BY <3>1
  <2> QED BY <1>4, <2>1, <2>2
<1> HIDE DEF p
<1> SUFFICES ASSUME ~Suspended(s)', ~Suspended(p)', NEW t \in Tokens
             PROVE  Holds(s, t)' \/ Holds(p, t)'
  BY <1>1 DEF Unlost
<1>6. CASE Suspended(s)
  <2>1. PICK m \in SpduSet : Settles(s, m)
    BY <1>2, <1>6, WaitEnds, WaitEndsBy DEF p
  <2>2. 1 \in Place(s) /\ Ahead(s)[1] = m /\ (m.code = "RA" => m.settings \in FinalSettings)
    BY <2>1, WaitEndsBy
  <2>3. CASE m.code # "RA"
    BY <2>1, <2>3 DEF Settles, Holds
  <2>4. CASE m.code = "RA"
    <3>1. /\ sb'[s].owned = {u \in Tokens : m.settings[u] = s}
          /\ m.settings[t] \in {s, p}
      BY <1>1, <2>1, <2>2, <2>4 DEF Settles, FinalSettings
    <3>2. CASE m.settings[t] = s
      BY <3>1, <3>2 DEF Holds
    <3>3. CASE m.settings[t] = p
      <4>1. t \in sb[p].owned \/ GivenBehind(s, 1, t)
        BY <1>2, <2>2, <2>4, <3>3 DEF Entitled, p
      <4>2. CASE t \in sb[p].owned
        BY <1>2, <4>2 DEF Holds
      <4>3. CASE GivenBehind(s, 1, t)
        BY <1>5, <4>3 DEF GivenBehind, Holds, Place
      <4> QED BY <4>1, <4>2, <4>3
    <3> QED BY <3>1, <3>2, <3>3
  <2> QED BY <2>3, <2>4
<1>7. CASE ~Suspended(s)
  <2>1. \A x \in Side : ~Suspended(x)
    BY <1>1, <1>2, <1>7
  <2>2. \A m \in SpduSet : ~Replies(s, m) /\ ~Settles(s, m)
    BY <1>1, <2>1, WaitEndsBy DEF p
  <2>3. Holds(s, t) \/ Holds(p, t)
    BY <1>1, <2>1 DEF Unlost
  <2>4. CASE Holds(p, t)
    BY <1>2, <1>3, <2>4 DEF Holds, Embedded
  <2>5. CASE t \in sb[s].owned
    BY <2>2, <2>5, OwnedStays DEF Holds, Place, p
  <2>6. ASSUME NEW j \in Place(s), Ahead(s)[j].code = "GT", t \in Ahead(s)[j].tokens
        PROVE  Holds(s, t)' \/ Holds(p, t)'
    <3>1. CASE \E i \in Place(s)' : Ahead(s)'[i] = Ahead(s)[j]
      BY <2>6, <3>1 DEF Holds, Place
    <3>2. CASE Ahead(s)' # Ahead(s) /\ j = 1
      <4>1. sb[s].owned \cup Incoming(s).tokens \subseteq sb'[s].owned
        BY <1>4, <2>1, <2>6, <3>2, GiftRead
      <4> QED BY <1>4, <2>6, <3>2, <4>1 DEF Holds
    <3>3. j \in Nat /\ j > 0
      BY DEF Place
    <3>4. Ahead(s)' = Ahead(s) => j \in Place(s)' /\ Ahead(s)'[j] = Ahead(s)[j]
      BY DEF Place
    <3> QED BY <1>5, <3>1, <3>2, <3>3, <3>4
  <2> QED BY <2>3, <2>4, <2>5, <2>6 DEF Holds, Place
<1> QED BY <1>6, <1>7

(* The invariant is inductive with the two it rests on.                    *)
LEMMA UnlostNext ==
    ASSUME Plainly, TypeOK, TypeOK', TokenInv, TokenInv', PrepInv, UnlostInv, [Next]_vars
    PROVE  UnlostInv'
<1> SUFFICES ASSUME BothLive'
             PROVE  Unlost' /\ \A x \in Side : Entitled(x)' /\ Unmarked(x)'
  BY DEF UnlostInv
<1>1. CASE UNCHANGED vars
  <2>1. /\ BothLive
        /\ \A x \in Side : /\ sb'[x] = sb[x] /\ Ahead(x)' = Ahead(x)
                           /\ Suspended(x)' <=> Suspended(x)
    BY <1>1 DEF vars, BothLive, Live, Ahead, Suspended
  <2>2. Unlost /\ \A x \in Side : Entitled(x) /\ Unmarked(x) /\ Peer(x) \in Side
    BY <2>1, PeerSide DEF UnlostInv
  <2>3. Unlost'
    BY <2>1, <2>2 DEF Unlost, Holds
  <2>4. \A x \in Side : Entitled(x)'
    BY <2>1, <2>2 DEF Entitled, GivenBehind, Place
  <2> QED BY <2>1, <2>2, <2>3, <2>4 DEF Unmarked
<1>2. CASE Next
  <2>1. BothLive /\ Good /\ Good'
    BY <1>2, LiveBefore DEF TokenInv, Good
  <2>2. Unlost /\ \A x \in Side : Entitled(x) /\ Unmarked(x)
    BY <2>1 DEF UnlostInv
  <2>3. PICK s \in Side : UserRequest(s) \/ UserResponse(s) \/ Read(s) \/ Timer(s)
    BY <1>2 DEF Next
  <2>4. Side = {s, Peer(s)} /\ Peer(s) \in Side /\ sb'[Peer(s)] = sb[Peer(s)]
    BY <2>3, OwnBlock DEF Side, Peer
  <2>5. Moves(s) /\ Step(s)
    BY <2>1, <2>3, RequestSteps, ResponseSteps, TimerSteps, ReadSteps DEF Moves
  <2>6. Unlost'
    BY <2>1, <2>2, <2>5, UnlostKept
  <2>7. Entitled(s)'
    BY <2>1, <2>2, <2>5, EntitledOwn
  <2>8. Entitled(Peer(s))'
    BY <2>1, <2>2, <2>4, <2>5, EntitledPeer
  <2>9. Unmarked(s)'
    <3>1. sb'[s].flags \cap {"ED", "GTC"} \subseteq sb[s].flags
      BY <2>1, <2>3, RequestMarks, ResponseMarks, ReadMarks
    <3> QED BY <2>2, <3>1 DEF Unmarked
  <2>10. Unmarked(Peer(s))'
    BY <2>2, <2>4 DEF Unmarked
  <2> QED BY <2>4, <2>6, <2>7, <2>8, <2>9, <2>10
<1> QED BY <1>1, <1>2

(* A connection starts with each token at one end.                         *)
LEMMA UnlostInit == Init => UnlostInv
<1> SUFFICES ASSUME Init
             PROVE  Unlost /\ \A x \in Side : Entitled(x) /\ Unmarked(x)
  BY DEF UnlostInv
<1>1. PICK share \in [Tokens -> Side], isn \in {0, 1} :
        /\ sb = [s \in Side |-> newsblk({t \in Tokens : share[t] = s}, isn)]
        /\ net = [s \in Side |-> <<>>]
  BY DEF Init
<1>2. \A x \in Side : /\ sb[x].flags = {} /\ sb[x].spdu = <<>> /\ net[x] = <<>>
                      /\ sb[x].owned = {t \in Tokens : share[t] = x}
  BY <1>1 DEF newsblk
<1>3. \A x \in Side : Place(x) = {}
  <2> TAKE x \in Side
  <2>1. <<>> \o <<>> = <<>> /\ Len(<<>>) = 0
    OBVIOUS
  <2>2. Len(Ahead(x)) = 0
    BY <1>2, <2>1 DEF Ahead
  <2> QED BY <2>2 DEF Place
<1> QED BY <1>2, <1>3 DEF Unlost, Holds, Entitled, Unmarked

(* In a quiet state nobody waits and nothing is on its way.                *)
LEMMA UnlostHolds == UnlostInv => TokenNotLost
<1> SUFFICES ASSUME UnlostInv, Quiet, NEW t \in Tokens
             PROVE  \E x \in Side : t \in sb[x].owned
  BY DEF TokenNotLost
<1>1. BothLive /\ \A x \in Side : ~Suspended(x)
  BY DEF Quiet, BothLive, Live, Suspended
<1>2. PICK x \in Side : Holds(x, t)
  BY <1>1 DEF UnlostInv, Unlost
<1>3. Len(Ahead(x)) = 0
  BY DEF Quiet
<1> QED BY <1>2, <1>3 DEF Holds

(* Between users that neither report exceptions nor give control away, or  *)
(* cannot, for every choice of transport, bounds and other calls, a        *)
(* connection with nothing on its way and no resynchronization or interrupt*)
(* open has an owner for each of its tokens: neither a crossing of         *)
(* resynchronizations, interrupts and gifts (ssaprovider.c, the tests of   *)
(* sb_flags and of sb_pr before a GT is added to sb_owned) nor a           *)
(* preparation discards one.                                               *)
THEOREM TokenNeverLost ==
    ASSUME Plainly
    PROVE  Spec => []TokenNotLost
<1>1. TypeOK /\ TokenInv /\ PrepInv /\ UnlostInv /\ [Next]_vars
        => TypeOK' /\ TokenInv' /\ PrepInv' /\ UnlostInv'
  <2> SUFFICES ASSUME TypeOK, TokenInv, PrepInv, UnlostInv, [Next]_vars
               PROVE  TypeOK' /\ TokenInv' /\ PrepInv' /\ UnlostInv'
    OBVIOUS
  <2>1. TypeOK' /\ TokenInv'
    BY TypeStep, TokenInvNext
  <2>2. PrepInv'
    BY <2>1, PrepKept
  <2> QED BY <2>1, <2>2, UnlostNext
<1>2. Init => TypeOK /\ TokenInv /\ PrepInv /\ UnlostInv
  BY TypeInit, TokenInvInit, PrepInit, UnlostInit
<1>3. UnlostInv => TokenNotLost
  BY UnlostHolds
<1> QED BY <1>1, <1>2, <1>3, PTL DEF Spec

=============================================================================
