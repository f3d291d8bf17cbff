--------------------------- MODULE TransferProofs ---------------------------
(***************************************************************************)
(* Proofs about reliable transfer and remote operations.                   *)
(***************************************************************************)
EXTENDS TransferProperties, ReleaseProofs, FiniteSetTheorems, FunctionTheorems

-----------------------------------------------------------------------------
(* Where a side can be while the session provider is in which mode.        *)

Placed(s) ==
    /\ acb[s].ind # "none" => /\ acb[s].pc \in {"user", "window", "end", "release"}
                              /\ acb[s].rti = "none"
    /\ acb[s].rti # "none" => acb[s].pc # "gone" /\ assoc.ros
    /\ acb[s].pc \notin {"release", "gone"} => sb[s].mode = "open"
    /\ acb[s].pc = "release" => sb[s].mode = "waiting"
    /\ acb[s].ind # "none" \/ acb[s].rti # "none" => sb[s].mode = "open"
    /\ acb[s].pc = "gone" => /\ acb[s].flags = {} /\ sb[s].flags = {}
                             /\ sb[s].mode \notin {"open", "waiting"}

(* What a step of side s is to the session provider.                       *)
SessionStep(s) == UserRequest(s) \/ UserResponse(s) \/ Read(s) \/ UNCHANGED vars

(* Losing the association is the S-U-ABORT.REQUEST of a short abort.       *)
LEMMA LosingAborts ==
    ASSUME NEW s \in Side, sb[s].mode = "open", rtpktlose(s)
    PROVE  SUAbortRequest(s)
<1>1. freesblk(s, "aborted", Queued(net[Peer(s)], Abort("user")))
  BY DEF rtpktlose
<1>2. FALSE \in BOOLEAN /\ (FALSE => Expd)
  OBVIOUS
<1> QED BY <1>1, <1>2, AbortAssumption, Zenon DEF SUAbortRequest

(* The calls of RtPTurnRequest, RtGTurnRequest and RtTransferRequest.      *)
LEMMA CallSteps ==
    ASSUME NEW s \in Side, sb[s].mode = "open"
    PROVE  /\ rt2sspturn(s) => SessionStep(s)
           /\ \A a : rt2ssgturn(s, a) => SessionStep(s)
           /\ \A size : rt2sstrans(s, size) => SessionStep(s)
<1>1. SUAbortRequest(s) => SessionStep(s)
  BY DEF SessionStep, UserRequest
<1>2. rt2sspturn(s) => SessionStep(s)
  BY <1>1, LosingAborts DEF rt2sspturn, Performs, PleaseForTurn, SessionStep, UserRequest
<1>3. ASSUME NEW a, rt2ssgturn(s, a) PROVE SessionStep(s)
  BY <1>1, <1>3, LosingAborts DEF rt2ssgturn, Performs, SessionStep, UserRequest
<1>4. ASSUME NEW size, rt2sstrans(s, size) PROVE SessionStep(s)
  BY <1>1, <1>4, LosingAborts DEF rt2sstrans, Performs, SessionStep, UserRequest
<1> QED BY <1>2, <1>3, <1>4

(* What RtTransferRequest does once the activity is started.               *)
LEMMA TransferSteps ==
    ASSUME NEW s \in Side, sb[s].mode = "open",
           \/ SendPart(s) \/ Checkpoint(s) \/ EndActivity(s)
           \/ BadTransfer(s) \/ TimeLimit(s)
    PROVE  SessionStep(s)
<1>1. SUAbortRequest(s) => SessionStep(s)
  BY DEF SessionStep, UserRequest
<1>2. CASE SendPart(s)
  BY <1>1, <1>2, LosingAborts DEF SendPart, Performs, SessionStep, UserRequest
<1>3. CASE Checkpoint(s)
  BY <1>1, <1>3, LosingAborts DEF Checkpoint, Performs, SessionStep, UserRequest
<1>4. CASE EndActivity(s)
  BY <1>1, <1>4, LosingAborts DEF EndActivity, Performs, SessionStep, UserRequest
<1>5. CASE BadTransfer(s)
  BY <1>1, <1>5, LosingAborts
     DEF BadTransfer, SActDiscRequest, Performs, SessionStep, UserRequest
<1>6. CASE TimeLimit(s)
  BY <1>1, <1>6, LosingAborts
     DEF TimeLimit, SActDiscRequest, Performs, SessionStep, UserRequest
<1> QED BY <1>2, <1>3, <1>4, <1>5, <1>6

(* What is done about an indication.                                       *)
LEMMA IndicationSteps ==
    ASSUME NEW s \in Side, sb[s].mode = "open", RtIndication(s)
    PROVE  SessionStep(s)
<1>1. SUAbortRequest(s) => SessionStep(s)
  BY DEF SessionStep, UserRequest
<1>2. Unexpected(s) => SessionStep(s)
  BY <1>1, LosingAborts DEF Unexpected
<1>3. ASSUME NEW a, Reports(s, a) PROVE SessionStep(s)
  BY <1>1, <1>3, LosingAborts DEF Reports, Performs, SessionStep, UserRequest
<1>4. UNCHANGED <<sb, net>> => SessionStep(s)
  BY DEF SessionStep, vars
<1>5. CASE doSSdata(s)
  BY <1>2, <1>3, <1>4, <1>5 DEF doSSdata
<1>6. CASE doSStoken(s)
  BY <1>1, <1>2, <1>4, <1>6, LosingAborts
     DEF doSStoken, Performs, SessionStep, UserRequest
<1>7. CASE doSSsync(s)
  BY <1>1, <1>2, <1>3, <1>4, <1>7, LosingAborts
     DEF doSSsync, HandledBy, SMinSyncResponseTo, SessionStep, UserRequest
<1>8. CASE ActStartInd(s) \/ ActCnf(s)
  BY <1>2, <1>3, <1>4, <1>8 DEF ActStartInd, ActCnf
<1>9. CASE ActDiscInd(s)
  BY <1>1, <1>2, <1>9, LosingAborts
     DEF ActDiscInd, HandledBy, SessionStep, UserResponse
<1>10. CASE ActEndInd(s)
  BY <1>1, <1>2, <1>3, <1>10, LosingAborts
     DEF ActEndInd, Performs, SessionStep, UserResponse
<1>11. CASE doSSreport(s)
  BY <1>1, <1>2, <1>11, LosingAborts
     DEF doSSreport, HandledBy, SActDiscRequest, SessionStep, UserRequest
<1>12. CASE doSSfinish(s)
  BY <1>2, <1>4, <1>12 DEF doSSfinish
<1> QED BY <1>5, <1>6, <1>7, <1>8, <1>9, <1>10, <1>11, <1>12
        DEF RtIndication, doSSactivity

(* Every step of remote operations, and of what it drives, is a step of    *)
(* the session provider or leaves it alone.                                *)
RoStep(s) ==
    \/ RoInvokeRequest(s) \/ RoResultRequest(s) \/ RoCloses(s)
    \/ RoEvent(s) \/ Waiting(s) \/ Goes(s)
    \/ RtUser(s) /\ UNCHANGED ro

(* A side that is called, or that works on something, is connected.        *)
LEMMA CallableOpen ==
    ASSUME NEW s \in Side, Placed(s), Idle(s)
    PROVE  sb[s].mode = "open"
BY DEF Placed, Idle

(* What remote operations writes are those calls.                          *)
LEMMA WritingSteps ==
    ASSUME NEW s \in Side, Placed(s),
           RoInvokeRequest(s) \/ RoResultRequest(s) \/ RoReady(s)
    PROVE  SessionStep(s)
<1>1. sb[s].mode = "open"
  BY CallableOpen
     DEF RoInvokeRequest, RoResultRequest, RoReady, Call, MayCall, Callable
<1>2. ASSUME NEW apdu, ro2rtswrite(s, apdu) PROVE SessionStep(s)
  BY <1>1, <1>2, CallSteps DEF ro2rtswrite
<1>3. ASSUME NEW apdu, ro2rtsready(s, apdu) PROVE SessionStep(s)
  BY <1>1, <1>3, CallSteps DEF ro2rtsready
<1> QED BY <1>2, <1>3 DEF RoInvokeRequest, RoResultRequest, RoReady, Call

(* What it does about an event is one of them, or no session step.         *)
LEMMA EventSteps ==
    ASSUME NEW s \in Side, Placed(s), RoEvent(s)
    PROVE  SessionStep(s)
<1>1. CASE RoReady(s)
  BY <1>1, WritingSteps
<1>2. CASE RoTransfer(s) \/ RoWaitRequest(s)
  BY <1>2 DEF RoTransfer, RoWaitRequest, SessionStep, vars
<1>3. CASE RoTurn(s)
  <2>1. sb[s].mode = "open"
    BY <1>3 DEF RoTurn, Placed
  <2> QED BY <1>3, <2>1, CallSteps DEF RoTurn, SessionStep, vars
<1>4. CASE RoClose(s)
  <2>1. sb[s].mode = "open"
    BY <1>4 DEF RoClose, Placed
  <2> QED BY <1>4, <2>1, LosingAborts DEF RoClose, SessionStep, vars, UserRequest
<1> QED BY <1>1, <1>2, <1>3, <1>4 DEF RoEvent

(* RtWaitRequest reads, or returns what was put aside.                     *)
LEMMA ReadingSteps ==
    ASSUME NEW s \in Side, Waiting(s)
    PROVE  SessionStep(s)
BY DEF Waiting, RtRead, WaitPlease, SessionStep, vars

(* A call that goes on takes steps of the session provider.                *)
LEMMA GoingSteps ==
    ASSUME NEW s \in Side, Placed(s), Goes(s)
    PROVE  SessionStep(s)
<1>1. CASE SendPart(s) \/ Checkpoint(s) \/ EndActivity(s)
  <2>1. sb[s].mode = "open"
    BY <1>1 DEF Placed, SendPart, Checkpoint, EndActivity
  <2> QED BY <1>1, <2>1, TransferSteps
<1>2. CASE RtIndication(s)
  <2>1. sb[s].mode = "open"
    BY <1>2
       DEF Placed, RtIndication, doSSdata, doSStoken, doSSsync, doSSactivity, doSSreport,
           doSSfinish, ActStartInd, ActDiscInd, ActCnf, ActEndInd
  <2> QED BY <1>2, <2>1, IndicationSteps
<1>3. CASE RtDrain(s)
  BY <1>3 DEF RtDrain, SessionStep, Read
<1>4. CASE RtEndResponse(s)
  <2>1. sb[s].mode = "open"
    BY <1>4, CallableOpen DEF RtEndResponse
  <2> QED BY <1>4, <2>1, LosingAborts
          DEF RtEndResponse, AcceptsRelease, SessionStep, UserRequest, UserResponse
<1> QED BY <1>1, <1>2, <1>3, <1>4 DEF Goes, Progress

(* So does an RtS-user that is not remote operations.                      *)
LEMMA UserSteps ==
    ASSUME NEW s \in Side, Placed(s), RtUser(s) \/ RoCloses(s)
    PROVE  SessionStep(s)
<1>1. CASE RtEndRequest(s)
  <2>1. sb[s].mode = "open"
    BY <1>1, CallableOpen DEF RtEndRequest, Callable
  <2> QED BY <1>1, <2>1, LosingAborts
          DEF RtEndRequest, Performs, SessionStep, UserRequest
<1>2. CASE RtPTurnRequest(s) \/ RtGTurnRequest(s) \/ RtTransferRequest(s)
  <2>1. sb[s].mode = "open"
    BY <1>2, CallableOpen DEF RtPTurnRequest, RtGTurnRequest, RtTransferRequest, Callable
  <2> QED BY <1>2, <2>1, CallSteps DEF RtPTurnRequest, RtGTurnRequest, RtTransferRequest
<1>3. CASE BadTransfer(s) \/ TimeLimit(s)
  <2>1. sb[s].mode = "open"
    BY <1>3 DEF Placed, BadTransfer, TimeLimit
  <2> QED BY <1>3, <2>1, TransferSteps
<1> QED BY <1>1, <1>2, <1>3 DEF RtUser, RoCloses

(* Each action of the composition is a session step or leaves it alone.    *)
LEMMA RoSteps ==
    ASSUME NEW s \in Side, Placed(s), RoStep(s)
    PROVE  SessionStep(s)
BY WritingSteps, EventSteps, ReadingSteps, GoingSteps, UserSteps DEF RoStep

(* The composition's next-state relation implements the session's.         *)
LEMMA StepImplements ==
    ASSUME \A s \in Side : Placed(s), [RoNext]_rovars
    PROVE  [Next]_vars
<1>1. CASE RoNext
  <2>1. PICK s \in Side : RoStep(s)
    BY <1>1 DEF RoNext, RoStep
  <2>2. SessionStep(s)
    BY <2>1, RoSteps
  <2> QED BY <2>2 DEF SessionStep, Next
<1>2. CASE UNCHANGED rovars
  BY <1>2 DEF rovars, vars
<1> QED BY <1>1, <1>2

(* The first turn gives its side every token.                              *)
LEMMA InitImplements == RoInit => Init
<1> SUFFICES ASSUME RoInit PROVE Init
  OBVIOUS
<1>1. PICK turn \in Side :
        sb = [s \in Side |-> newsblk(IF s = turn THEN Tokens ELSE {}, 0)]
  BY DEF RoInit, RtInit
<1> DEFINE share == [t \in Tokens |-> turn]
<1>2. share \in [Tokens -> Side]
  OBVIOUS
<1>3. \A s \in Side : {t \in Tokens : share[t] = s} = IF s = turn THEN Tokens ELSE {}
  OBVIOUS
<1>4. sb = [s \in Side |-> newsblk({t \in Tokens : share[t] = s}, 0)]
  BY <1>1, <1>3
<1>5. net = [s \in Side |-> <<>>]
  BY DEF RoInit, RtInit
<1> HIDE DEF share
<1> QED BY <1>2, <1>4, <1>5 DEF Init

-----------------------------------------------------------------------------
(* Counting the SPDUs of a code in a queue.                                *)

Places(q, c) == {i \in 1..Len(q) : q[i].code = c}
Tally(q, c)  == Cardinality(Places(q, c))

(* Places are finitely many, and their number a natural number.            *)
LEMMA TallyTyped ==
    ASSUME NEW q \in Seq(SpduSet), NEW c
    PROVE  IsFiniteSet(Places(q, c)) /\ Tally(q, c) \in Nat
<1>1. IsFiniteSet(1..Len(q))
  BY FS_Interval
<1>2. Places(q, c) \in SUBSET (1..Len(q))
  BY DEF Places
<1>3. IsFiniteSet(Places(q, c))
  BY <1>1, <1>2, FS_Subset, Zenon
<1> QED BY <1>3, FS_CardinalityType, Zenon DEF Tally

(* Queues whose places correspond one to one have the same tally.          *)
LEMMA TallySame ==
    ASSUME NEW q \in Seq(SpduSet), NEW c, NEW T, NEW f,
           f \in Bijection(Places(q, c), T)
    PROVE  Cardinality(T) = Tally(q, c)
BY TallyTyped, FS_Bijection, Zenon DEF ExistsBijection, Tally

(* Nothing is in the empty queue.                                          *)
LEMMA TallyEmpty == \A c : Tally(<<>>, c) = 0
<1>1. \A c : Places(<<>>, c) = {}
  BY DEF Places
<1> QED BY <1>1, FS_EmptySet DEF Tally

(* What joins a queue at its end is counted under its own code.            *)
LEMMA TallyAppend ==
    ASSUME NEW q \in Seq(SpduSet), NEW m \in SpduSet, NEW c
    PROVE  Tally(Append(q, m), c) = Tally(q, c) + Bit(m.code = c)
<1>1. m.code # c => Places(Append(q, m), c) = Places(q, c)
  BY DEF Places
<1>2. m.code = c => /\ Places(Append(q, m), c) = Places(q, c) \cup {Len(q) + 1}
                    /\ Len(q) + 1 \notin Places(q, c)
  BY DEF Places
<1>3. IsFiniteSet(Places(q, c)) /\ Tally(q, c) \in Nat
  BY TallyTyped
<1>4. m.code = c => Tally(Append(q, m), c) = Tally(q, c) + 1
  BY <1>2, <1>3, FS_AddElement DEF Tally
<1>5. m.code # c => Tally(Append(q, m), c) = Tally(q, c) + 0
  BY <1>1, <1>3 DEF Tally
<1> QED BY <1>4, <1>5 DEF Bit

(* What leaves a queue at its head is counted no more.                     *)
LEMMA TallyTail ==
    ASSUME NEW q \in Seq(SpduSet), q # <<>>, NEW c
    PROVE  /\ Tally(Tail(q), c) = Tally(q, c) - Bit(Head(q).code = c)
           /\ Tail(q) \in Seq(SpduSet) /\ Head(q) \in SpduSet
<1> DEFINE t == Tail(q)
           f == [i \in Places(t, c) |-> i + 1]
<1>1. /\ t \in Seq(SpduSet) /\ Len(t) = Len(q) - 1 /\ Len(q) \in Nat /\ Len(q) >= 1
      /\ \A i \in 1..Len(t) : t[i] = q[i + 1]
      /\ Head(q) = q[1] /\ q[1] \in SpduSet
  OBVIOUS
<1> HIDE DEF t
<1>2. Places(q, c) \ {1} = {i \in 2..Len(q) : q[i].code = c}
  BY <1>1 DEF Places
<1>3. f \in Bijection(Places(t, c), Places(q, c) \ {1})
  <2>1. \A i \in Places(t, c) : i + 1 \in Places(q, c) \ {1}
    BY <1>1, <1>2 DEF Places
  <2>2. \A i, j \in Places(t, c) : i + 1 = j + 1 => i = j
    BY <1>1 DEF Places
  <2>3. \A k \in Places(q, c) \ {1} : k - 1 \in Places(t, c) /\ (k - 1) + 1 = k
    BY <1>1, <1>2 DEF Places
  <2>4. f \in [Places(t, c) -> Places(q, c) \ {1}]
    BY <2>1
  <2>5. \A k \in Places(q, c) \ {1} : \E i \in Places(t, c) : f[i] = k
    BY <2>3
  <2>6. \A i, j \in Places(t, c) : f[i] = f[j] => i = j
    BY <2>2
  <2> HIDE DEF f
  <2> QED BY <2>4, <2>5, <2>6, Fun_IsBij
<1>4. Cardinality(Places(q, c) \ {1}) = Tally(t, c)
  BY <1>1, <1>3, TallySame, Zenon
<1>5. IsFiniteSet(Places(q, c)) /\ Tally(q, c) \in Nat
  BY TallyTyped
<1>6. 1 \in Places(q, c) <=> Head(q).code = c
  BY <1>1 DEF Places
<1>7. Cardinality(Places(q, c) \ {1})
        = IF 1 \in Places(q, c) THEN Tally(q, c) - 1 ELSE Tally(q, c)
  BY <1>5, FS_RemoveElement, Zenon DEF Tally
<1> QED BY <1>1, <1>4, <1>5, <1>6, <1>7 DEF t, Bit

(* An SPDU put anywhere does not change the count of other codes.          *)
LEMMA TallyInsert ==
    ASSUME NEW q \in Seq(SpduSet), NEW n \in 0..Len(q), NEW m \in SpduSet, NEW c,
           m.code # c
    PROVE  Tally(InsertAfter(q, n, m), c) = Tally(q, c)
<1> DEFINE a == InsertAfter(q, n, m)
           f == [i \in Places(q, c) |-> IF i <= n THEN i ELSE i + 1]
<1>1. /\ Len(q) \in Nat /\ n \in Nat /\ n <= Len(q)
      /\ Len(a) = Len(q) + 1
      /\ \A i \in 1..n : a[i] = q[i]
      /\ a[n + 1] = m
      /\ \A i \in 1..Len(q) + 1 : i > n + 1 => a[i] = q[i - 1]
  BY Inserted
<1> HIDE DEF a
<1>2. ASSUME NEW i \in Places(q, c)
      PROVE  (IF i <= n THEN i ELSE i + 1) \in Places(a, c)
  <2>1. i \in 1..Len(q) /\ q[i].code = c
    BY DEF Places
  <2>2. CASE i <= n
    BY <1>1, <2>1, <2>2 DEF Places
  <2>3. CASE i > n
    <3>1. i + 1 \in 1..Len(q) + 1 /\ i + 1 > n + 1 /\ (i + 1) - 1 = i
      BY <1>1, <2>1, <2>3
    <3>2. a[i + 1] = q[(i + 1) - 1]
      BY <1>1, <3>1
    <3> QED BY <1>1, <2>1, <2>3, <3>1, <3>2 DEF Places
  <2> QED BY <1>1, <2>1, <2>2, <2>3
<1>3. ASSUME NEW k \in Places(a, c)
      PROVE  \E i \in Places(q, c) : (IF i <= n THEN i ELSE i + 1) = k
  <2>1. k \in 1..Len(q) + 1 /\ a[k].code = c /\ k # n + 1
    BY <1>1 DEF Places
  <2>2. CASE k <= n
    BY <1>1, <2>1, <2>2 DEF Places
  <2>3. CASE k > n + 1
    <3>1. a[k] = q[k - 1] /\ k - 1 \in 1..Len(q) /\ ~(k - 1 <= n) /\ (k - 1) + 1 = k
      BY <1>1, <2>1, <2>3
    <3>2. k - 1 \in Places(q, c)
      BY <2>1, <3>1 DEF Places
    <3> QED BY <3>1, <3>2
  <2> QED BY <1>1, <2>1, <2>2, <2>3
<1>4. \A i, j \in Places(q, c) :
          (IF i <= n THEN i ELSE i + 1) = (IF j <= n THEN j ELSE j + 1) => i = j
  BY <1>1 DEF Places
<1>5. f \in Bijection(Places(q, c), Places(a, c))
  <2>1. f \in [Places(q, c) -> Places(a, c)]
    BY <1>2
  <2>2. \A k \in Places(a, c) : \E i \in Places(q, c) : f[i] = k
    BY <1>3
  <2>3. \A i, j \in Places(q, c) : f[i] = f[j] => i = j
    BY <1>4
  <2> HIDE DEF f
  <2> QED BY <2>1, <2>2, <2>3, Fun_IsBij
<1> QED BY <1>5, TallySame, Zenon DEF Tally, a

-----------------------------------------------------------------------------
(* What reliable transfer makes the session provider send.                 *)

RtCode == { "DT", "PT", "GTC", "GTA", "AS", "MIP", "MIA", "MAP", "MAA", "AI", "AD",
            "AIA", "PR", "ED", "FN", "DN", "AB", "TDISC" }

(* The codes whose every SPDU counts: what turns and activities depend on. *)
Watched == {"MAP", "MAA", "AI", "AD", "AIA", "GTC", "AS", "MIP", "MIA", "DT"}

OfTransfer(m) ==
    /\ m.code \in RtCode
    /\ m.code = "MAP" => m.type = "end" /\ ~m.xpd
    /\ m.code = "AS" => m.ssn = 0
Conveys(q)    == \A i \in 1..Len(q) : OfTransfer(q[i])

(* r is q and one SPDU of code c, and maybe some that do not count.        *)
Adds(q, r, c) ==
    /\ r \in Seq(SpduSet) /\ Conveys(r)
    /\ \A k \in Watched : Tally(r, k) = Tally(q, k) + Bit(k = c)

(* What is in a queue, and what is in it before what else.                 *)
Bears(q, a)   == \E i \in 1..Len(q) : q[i] = a
Pair(q, a, b) == \E i, j \in 1..Len(q) : i < j /\ q[i] = a /\ q[j] = b

Matters(a) == a.code \in Watched

(* What counts in r was in q, in the order it has there.                   *)
Follows(q, r) ==
    /\ \A a : Bears(r, a) /\ Matters(a) => Bears(q, a)
    /\ \A a, b : Pair(r, a, b) /\ Matters(a) /\ Matters(b) => Pair(q, a, b)

LEMMA FollowsOn ==
    ASSUME NEW q, NEW r, NEW z, Follows(q, r), Follows(r, z)
    PROVE  Follows(q, z)
BY DEF Follows

(* Or it is m, which has joined behind it.                                 *)
Enters(q, r, m) ==
    /\ \A a : Bears(r, a) /\ Matters(a) => Bears(q, a) \/ a = m
    /\ \A a, b : Pair(r, a, b) /\ Matters(a) /\ Matters(b) =>
           Pair(q, a, b) \/ (Bears(q, a) /\ b = m)

(* Appending does that.                                                    *)
LEMMA EntersAppend ==
    ASSUME NEW q \in Seq(SpduSet), NEW m \in SpduSet
    PROVE  /\ Enters(q, Append(q, m), m)
           /\ ~Matters(m) => Follows(q, Append(q, m))
<1> DEFINE r == Append(q, m)
<1>1. Len(r) = Len(q) + 1 /\ r[Len(q) + 1] = m /\ \A i \in 1..Len(q) : r[i] = q[i]
  OBVIOUS
<1>2. Len(q) \in Nat
  OBVIOUS
<1> HIDE DEF r
<1>3. \A a : Bears(r, a) => Bears(q, a) \/ a = m
  BY <1>1, <1>2 DEF Bears
<1>4. \A a, b : Pair(r, a, b) => Pair(q, a, b) \/ (Bears(q, a) /\ b = m)
  BY <1>1, <1>2 DEF Bears, Pair
<1> QED BY <1>3, <1>4 DEF Enters, Follows, r

(* What does not count may be put anywhere.                                *)
LEMMA FollowsInsert ==
    ASSUME NEW q \in Seq(SpduSet), NEW n \in 0..Len(q), NEW m \in SpduSet, ~Matters(m)
    PROVE  Follows(q, InsertAfter(q, n, m))
<1> DEFINE r == InsertAfter(q, n, m)
           from(i) == IF i <= n THEN i ELSE i - 1
<1>1. /\ Len(q) \in Nat /\ n \in Nat /\ n <= Len(q)
      /\ Len(r) = Len(q) + 1
      /\ \A i \in 1..n : r[i] = q[i]
      /\ r[n + 1] = m
      /\ \A i \in 1..Len(q) + 1 : i > n + 1 => r[i] = q[i - 1]
  BY Inserted
<1> HIDE DEF r
<1>2. ASSUME NEW i \in 1..Len(r), Matters(r[i])
      PROVE  i # n + 1 /\ from(i) \in 1..Len(q) /\ q[from(i)] = r[i]
  BY <1>1, <1>2
<1>3. \A i, j \in 1..Len(r) : i < j /\ i # n + 1 /\ j # n + 1 => from(i) < from(j)
  BY <1>1
<1> HIDE DEF from
<1>4. \A a : Bears(r, a) /\ Matters(a) => Bears(q, a)
  BY <1>2 DEF Bears
<1>5. ASSUME NEW a, NEW b, Pair(r, a, b), Matters(a), Matters(b)
      PROVE  Pair(q, a, b)
  <2>1. PICK i, j \in 1..Len(r) : i < j /\ r[i] = a /\ r[j] = b
    BY <1>5 DEF Pair
  <2>2. /\ i # n + 1 /\ from(i) \in 1..Len(q) /\ q[from(i)] = a
        /\ j # n + 1 /\ from(j) \in 1..Len(q) /\ q[from(j)] = b
    BY <1>2, <1>5, <2>1
  <2>3. from(i) < from(j)
    BY <1>3, <2>1, <2>2
  <2> QED BY <2>2, <2>3 DEF Pair
<1> QED BY <1>4, <1>5 DEF Follows, r

(* What is left when the first is taken comes after it.                    *)
LEMMA FollowsTail ==
    ASSUME NEW q \in Seq(SpduSet), q # <<>>
    PROVE  /\ \A a : Bears(Tail(q), a) => Bears(q, a) /\ Pair(q, Head(q), a)
           /\ \A a, b : Pair(Tail(q), a, b) => Pair(q, a, b)
           /\ Bears(q, Head(q))
<1> DEFINE t == Tail(q)
<1>1. /\ Len(t) = Len(q) - 1 /\ Len(q) \in Nat /\ Len(q) >= 1
      /\ \A i \in 1..Len(t) : t[i] = q[i + 1]
      /\ Head(q) = q[1]
  OBVIOUS
<1> HIDE DEF t
<1>2. \A i \in 1..Len(t) : i + 1 \in 1..Len(q) /\ 1 \in 1..Len(q) /\ 1 < i + 1
  BY <1>1
<1>3. \A a : Bears(t, a) => Bears(q, a) /\ Pair(q, Head(q), a)
  BY <1>1, <1>2 DEF Bears, Pair
<1>4. \A a, b : Pair(t, a, b) => Pair(q, a, b)
  <2>1. \A i, j \in 1..Len(t) : i < j => i + 1 < j + 1
    BY <1>1
  <2> QED BY <1>1, <1>2, <2>1 DEF Pair
<1>5. Bears(q, Head(q))
  BY <1>1 DEF Bears
<1> HIDE DEF Bears, Pair
<1> QED BY <1>3, <1>4, <1>5 DEF t

(* What a queue holds of a code is what the tally counts.                  *)
LEMMA TallyBears ==
    ASSUME NEW q \in Seq(SpduSet), NEW c
    PROVE  /\ Tally(q, c) = 0 => \A a : Bears(q, a) => a.code # c
           /\ (\A a : Bears(q, a) => a.code # c) => Tally(q, c) = 0
<1>1. IsFiniteSet(Places(q, c))
  BY TallyTyped
<1>2. Tally(q, c) = 0 <=> Places(q, c) = {}
  BY <1>1, FS_EmptySet DEF Tally
<1>3. Places(q, c) = {} <=> \A a : Bears(q, a) => a.code # c
  BY DEF Places, Bears
<1> QED BY <1>2, <1>3

(* What carries only such SPDUs goes on doing so when one joins or leaves. *)
LEMMA CarriesMore ==
    ASSUME NEW q \in Seq(SpduSet), NEW m \in SpduSet, Conveys(q)
    PROVE  /\ OfTransfer(m) => Conveys(Append(q, m))
           /\ OfTransfer(m) => \A n \in 0..Len(q) : Conveys(InsertAfter(q, n, m))
           /\ q # <<>> => Conveys(Tail(q)) /\ OfTransfer(Head(q))
<1>1. OfTransfer(m) => Conveys(Append(q, m))
  BY DEF Conveys
<1>2. ASSUME OfTransfer(m), NEW n \in 0..Len(q)
      PROVE  Conveys(InsertAfter(q, n, m))
  <2> DEFINE a == InsertAfter(q, n, m)
  <2>1. /\ Len(q) \in Nat /\ n \in Nat /\ n <= Len(q)
        /\ Len(a) = Len(q) + 1
        /\ \A i \in 1..n : a[i] = q[i]
        /\ a[n + 1] = m
        /\ \A i \in 1..Len(q) + 1 : i > n + 1 => a[i] = q[i - 1]
    BY Inserted
  <2> HIDE DEF a
  <2>2. ASSUME NEW i \in 1..Len(a) PROVE OfTransfer(a[i])
    <3>1. CASE i <= n
      BY <2>1, <3>1 DEF Conveys
    <3>2. CASE i = n + 1
      BY <1>2, <2>1, <3>2
    <3>3. CASE i > n + 1
      <4>1. i - 1 \in 1..Len(q) /\ a[i] = q[i - 1]
        BY <2>1, <3>3
      <4> QED BY <4>1 DEF Conveys
    <3> QED BY <2>1, <3>1, <3>2, <3>3
  <2> QED BY <2>2 DEF Conveys, a
<1>3. ASSUME q # <<>> PROVE Conveys(Tail(q)) /\ OfTransfer(Head(q))
  <2>1. \A i \in 1..Len(Tail(q)) : i + 1 \in 1..Len(q) /\ Tail(q)[i] = q[i + 1]
    BY <1>3
  <2>2. 1 \in 1..Len(q) /\ Head(q) = q[1]
    BY <1>3
  <2> QED BY <2>1, <2>2 DEF Conveys
<1> QED BY <1>1, <1>2, <1>3

(* A TSDU joins a queue: expedited ones do not count.                      *)
LEMMA QueuedAdds ==
    ASSUME NEW q \in Seq(SpduSet), NEW m \in SpduSet, Conveys(q), OfTransfer(m),
           m.xpd => m.code \notin Watched, NEW r \in Queued(q, m)
    PROVE  /\ Adds(q, r, m.code) /\ Enters(q, r, m)
           /\ ~Matters(m) => Follows(q, r)
<1>1. CASE m.xpd
  <2>1. PICK n \in 0..Len(q) : r = InsertAfter(q, n, m)
    BY <1>1 DEF Queued, ExpeditedSlots
  <2>2. \A k \in Watched : Tally(r, k) = Tally(q, k) /\ Bit(k = m.code) = 0
    BY <1>1, <2>1, TallyInsert DEF Bit
  <2>3. \A k : Tally(q, k) \in Nat
    BY TallyTyped
  <2>4. r \in Seq(SpduSet) /\ Conveys(r)
    BY <2>1, InsertAfterTyped, CarriesMore
  <2>5. Follows(q, r) /\ Enters(q, r, m)
    <3>1. Follows(q, r)
      BY <1>1, <2>1, FollowsInsert DEF Matters
    <3> QED BY <3>1 DEF Follows, Enters
  <2> QED BY <2>2, <2>3, <2>4, <2>5 DEF Adds
<1>2. CASE ~m.xpd
  <2>1. r = Append(q, m)
    BY <1>2 DEF Queued
  <2>2. \A k : Tally(r, k) = Tally(q, k) + Bit(k = m.code)
    BY <2>1, TallyAppend DEF Bit
  <2>3. Enters(q, r, m) /\ (~Matters(m) => Follows(q, r))
    BY <2>1, EntersAppend
  <2> QED BY <2>1, <2>2, <2>3, CarriesMore DEF Adds
<1> QED BY <1>1, <1>2

(* So does what SWriteRequestAux writes: its PR does not count.            *)
LEMMA WrittenAdds ==
    ASSUME NEW q \in Seq(SpduSet), NEW m \in SpduSet, Conveys(q), OfTransfer(m),
           NEW r \in Written(q, m)
    PROVE  Adds(q, r, m.code) /\ Enters(q, r, m)
<1>1. PICK z \in Seq(SpduSet) : /\ r = Append(z, m) /\ Conveys(z) /\ Follows(q, z)
                               /\ \A k \in Watched : Tally(z, k) = Tally(q, k)
  <2>1. CASE Expd /\ Preparation(m.code) # "none"
    <3> DEFINE w == Prepare(Preparation(m.code))
    <3>1. Preparation(m.code) \in PrType
      BY <2>1 DEF Preparation, PrType
    <3>2. w \in SpduSet /\ w.code = "PR"
      BY <3>1, MessagesTyped DEF Prepare, Spdu
    <3>3. PICK z \in Queued(q, w) : r = Append(z, m)
      BY <2>1 DEF Written
    <3>4. Adds(q, z, "PR") /\ Follows(q, z)
      BY <3>2, QueuedAdds DEF OfTransfer, RtCode, Watched, Matters
    <3>5. \A k \in Watched : Bit(k = "PR") = 0 /\ Tally(q, k) \in Nat
      BY TallyTyped DEF Watched, Bit
    <3> QED BY <3>3, <3>4, <3>5 DEF Adds
  <2>2. CASE ~(Expd /\ Preparation(m.code) # "none")
    BY <2>2 DEF Written, Follows
  <2> QED BY <2>1, <2>2
<1>2. \A k : Tally(r, k) = Tally(z, k) + Bit(k = m.code)
  BY <1>1, TallyAppend DEF Bit
<1>3. r \in Seq(SpduSet) /\ Conveys(r)
  BY <1>1, CarriesMore
<1>4. Enters(q, r, m)
  <2>1. Enters(z, r, m)
    BY <1>1, EntersAppend
  <2> QED BY <1>1, <2>1 DEF Enters, Follows
<1> QED BY <1>1, <1>2, <1>3, <1>4 DEF Adds

(* s has sent an SPDU of code c: it joins what its peer has to read, if    *)
(* the peer's block is still there.                                        *)
Puts(s, c) ==
    /\ net'[s] = net[s]
    /\ Conveys(net'[Peer(s)])
    /\ \A k \in Watched :
         /\ Tally(net'[Peer(s)], k) \in Nat
         /\ Tally(net'[Peer(s)], k) <= Tally(net[Peer(s)], k) + Bit(k = c)
         /\ ~Closed(sb[Peer(s)]) =>
                Tally(net'[Peer(s)], k) = Tally(net[Peer(s)], k) + Bit(k = c)
    /\ \E m \in SpduSet : m.code = c /\ Enters(net[Peer(s)], net'[Peer(s)], m)

(* Whether the SPDU arrives or is thrown away: it was sent.                *)
LEMMA PutsArriving ==
    ASSUME TypeOK, NEW s \in Side, NEW m \in SpduSet, NEW r, Adds(net[Peer(s)], r, m.code),
           Enters(net[Peer(s)], r, m),
           net' = [net EXCEPT ![Peer(s)] = Arriving(Peer(s), r)]
    PROVE  Puts(s, m.code) /\ Enters(net[Peer(s)], net'[Peer(s)], m)
<1> DEFINE c == m.code
<1>1. Peer(s) \in Side /\ Peer(s) # s
  BY DEF Peer, Side
<1>2. net'[s] = net[s] /\ net'[Peer(s)] = Arriving(Peer(s), r)
  BY <1>1 DEF TypeOK
<1>3. \A k \in Watched : /\ Tally(net[Peer(s)], k) \in Nat /\ Bit(k = c) \in Nat
                         /\ Tally(<<>>, k) = 0 /\ Tally(r, k) \in Nat
  BY <1>1, TallyTyped, TallyEmpty DEF TypeOK, Adds, Bit
<1>4. Conveys(<<>>) /\ Enters(net[Peer(s)], <<>>, m)
  BY DEF Conveys, Enters, Bears, Pair
<1>5. CASE Closed(sb[Peer(s)])
  <2>1. net'[Peer(s)] = <<>>
    BY <1>2, <1>5 DEF Arriving
  <2> QED BY <1>2, <1>3, <1>4, <1>5, <2>1 DEF Puts
<1>6. CASE ~Closed(sb[Peer(s)])
  <2>1. net'[Peer(s)] = r
    BY <1>2, <1>6 DEF Arriving
  <2> QED BY <1>2, <1>3, <1>6, <2>1 DEF Puts, Adds
<1> QED BY <1>5, <1>6

(* Both ways of sending an SPDU.                                           *)
LEMMA SendsPut ==
    ASSUME TypeOK, NEW s \in Side, NEW m \in SpduSet, OfTransfer(m),
           Conveys(net[Peer(s)]),
           \/ spkt2sd(s, m) /\ ~m.xpd
           \/ SWriteRequestAux(s, m)
    PROVE  Puts(s, m.code) /\ Enters(net[Peer(s)], net'[Peer(s)], m)
<1>1. net[Peer(s)] \in Seq(SpduSet)
  BY PeerSide DEF TypeOK
<1>2. CASE spkt2sd(s, m) /\ ~m.xpd
  <2>1. PICK r \in Queued(net[Peer(s)], m) :
            net' = [net EXCEPT ![Peer(s)] = Arriving(Peer(s), r)]
    BY <1>2 DEF spkt2sd
  <2> QED BY <1>1, <1>2, <2>1, QueuedAdds, PutsArriving
<1>3. CASE SWriteRequestAux(s, m)
  <2>1. PICK r \in Written(net[Peer(s)], m) :
            net' = [net EXCEPT ![Peer(s)] = Arriving(Peer(s), r)]
    BY <1>3 DEF SWriteRequestAux
  <2> QED BY <1>1, <2>1, WrittenAdds, PutsArriving
<1> QED BY <1>2, <1>3

(* s has freed its block: nothing that counts is sent any more, and what   *)
(* it still had to read is gone.                                           *)
Loses(s) ==
    /\ net'[s] = <<>>
    /\ Conveys(net'[Peer(s)])
    /\ \A k \in Watched : /\ Tally(net'[Peer(s)], k) \in Nat
                          /\ Tally(net'[Peer(s)], k) <= Tally(net[Peer(s)], k)
    /\ Follows(net[Peer(s)], net'[Peer(s)])
    /\ \/ \A k \in Watched : Tally(net'[Peer(s)], k) = Tally(net[Peer(s)], k)
       \/ \A k \in Watched : Tally(net'[Peer(s)], k) = 0
    /\ sb'[Peer(s)] = sb[Peer(s)]
    /\ sb'[s].flags = {} /\ sb'[s].owned = {} /\ sb'[s].pr = "PR"
    /\ sb'[s].spdu = <<>> /\ ~sb'[s].xspdu
    /\ sb'[s].mode \in {"released", "aborted"}

(* freesblk, when what it adds to the peer's queue does not count.         *)
LEMMA FreesLoses ==
    ASSUME TypeOK, NEW s \in Side, NEW mode \in {"released", "aborted"}, NEW qs,
           freesblk(s, mode, qs),
           \A q \in qs : \/ Adds(net[Peer(s)], q, "AB") /\ Follows(net[Peer(s)], q)
                         \/ q = net[Peer(s)],
           Conveys(net[Peer(s)])
    PROVE  Loses(s)
<1> DEFINE p == Peer(s)
<1>1. p \in Side /\ p # s /\ net[p] \in Seq(SpduSet)
  BY PeerSide DEF Peer, Side, TypeOK
<1>2. PICK q \in qs : \E r \in Disconnected(q) :
          net' = [net EXCEPT ![s] = <<>>, ![p] = Arriving(p, r)]
  BY Zenon DEF freesblk
<1>3. PICK r \in Disconnected(q) :
          net' = [net EXCEPT ![s] = <<>>, ![p] = Arriving(p, r)]
  BY <1>2
<1>4. /\ q \in Seq(SpduSet) /\ Conveys(q) /\ Follows(net[p], q)
      /\ \A k \in Watched : Tally(q, k) \in Nat /\ Tally(q, k) = Tally(net[p], k)
  <2>1. Follows(net[p], net[p])
    BY DEF Follows
  <2> QED BY <1>1, <2>1, TallyTyped DEF Adds, Bit, Watched
<1> DEFINE m == Spdu("TDISC")
<1>5. m \in SpduSet /\ m.code = "TDISC" /\ OfTransfer(m) /\ "TDISC" \notin Watched
  BY PlainSpdu, SpduTyped DEF Code, OfTransfer, RtCode, Watched
<1> HIDE DEF m
<1>6. Conveys(<<>>) /\ \A k : Tally(<<>>, k) = 0
  BY TallyEmpty DEF Conveys
<1>7. ASSUME NEW z \in Seq(SpduSet), Conveys(z)
      PROVE  /\ Conveys(Append(z, m)) /\ Follows(z, Append(z, m))
             /\ \A k \in Watched : Tally(Append(z, m), k) = Tally(z, k) + 0
  BY <1>5, <1>7, CarriesMore, TallyAppend, EntersAppend DEF Bit, Matters
<1>8. <<m>> = Append(<<>>, m) /\ <<>> \in Seq(SpduSet)
  BY <1>5
<1>9. r = Append(q, m) \/ r = <<m>>
  BY <1>3 DEF Disconnected, m
<1>10. /\ Conveys(r) /\ Follows(net[p], r)
       /\ \A k \in Watched : Tally(r, k) <= Tally(net[p], k) /\ Tally(r, k) \in Nat
       /\ \/ \A k \in Watched : Tally(r, k) = Tally(net[p], k)
          \/ \A k \in Watched : Tally(r, k) = 0
  <2>1. CASE r = Append(q, m)
    <3>1. \A k \in Watched : Tally(r, k) = Tally(q, k) + 0
      BY <1>4, <1>7, <2>1
    <3>2. Follows(net[p], r)
      BY <1>4, <1>7, <2>1, FollowsOn
    <3> QED BY <1>4, <1>7, <2>1, <3>1, <3>2
  <2>2. CASE r = <<m>>
    <3>1. r = Append(<<>>, m)
      BY <1>8, <2>2
    <3>2. Conveys(r) /\ \A k \in Watched : Tally(r, k) = 0
      <4>1. /\ Conveys(Append(<<>>, m))
            /\ \A k \in Watched : Tally(Append(<<>>, m), k) = Tally(<<>>, k) + 0
        BY <1>6, <1>7, <1>8, Zenon
      <4>2. \A k \in Watched : Tally(Append(<<>>, m), k) = 0
        BY <1>6, <4>1
      <4> QED BY <3>1, <4>1, <4>2, Zenon
    <3>3. \A k \in Watched : Tally(net[p], k) \in Nat
      BY <1>4
    <3>4. Follows(net[p], r)
      <4>1. Follows(net[p], <<>>)
        BY DEF Follows, Bears, Pair
      <4> QED BY <1>6, <1>7, <1>8, <3>1, <4>1, FollowsOn
    <3> QED BY <3>2, <3>3, <3>4
  <2> QED BY <1>9, <2>1, <2>2
<1>11. net'[s] = <<>> /\ net'[p] \in {r, <<>>}
  BY <1>1, <1>3 DEF TypeOK, Arriving
<1>12. sb'[p] = sb[p] /\ sb'[s] = Freed(mode)
  BY <1>1 DEF freesblk, TypeOK
<1>13. /\ Freed(mode).flags = {} /\ Freed(mode).owned = {} /\ Freed(mode).pr = "PR"
       /\ Freed(mode).spdu = <<>> /\ ~Freed(mode).xspdu /\ Freed(mode).mode = mode
  BY DEF Freed, newsblk
<1>14. \A k \in Watched : Tally(net[p], k) \in Nat
  BY <1>1, TallyTyped
<1>15. Follows(net[p], <<>>)
  BY DEF Follows, Bears, Pair
<1> QED BY <1>6, <1>10, <1>11, <1>12, <1>13, <1>14, <1>15 DEF Loses

(* Losing the association, and an abort of the session provider, do that.  *)
LEMMA AbortLoses ==
    ASSUME TypeOK, NEW s \in Side, Conveys(net[Peer(s)]),
           rtpktlose(s) \/ ProtocolAbort(s)
    PROVE  Loses(s)
<1>1. net[Peer(s)] \in Seq(SpduSet)
  BY PeerSide DEF TypeOK
<1>2. ASSUME NEW by \in {"user", "provider"}, freesblk(s, "aborted", Queued(net[Peer(s)], Abort(by)))
      PROVE  Loses(s)
  <2>1. Abort(by) \in SpduSet /\ Abort(by).code = "AB"
    BY MessagesTyped DEF Abort, Spdu
  <2>2. \A q \in Queued(net[Peer(s)], Abort(by)) :
            Adds(net[Peer(s)], q, "AB") /\ Follows(net[Peer(s)], q)
    BY <1>1, <2>1, QueuedAdds DEF OfTransfer, RtCode, Watched, Matters
  <2> QED BY <1>2, <2>2, FreesLoses
<1> QED BY <1>2 DEF rtpktlose, ProtocolAbort

-----------------------------------------------------------------------------
(* The session requests of reliable transfer, seen from flags and queues.  *)

(* What a request leaves alone in the block that makes it.                 *)
Steady(s) ==
    /\ sb'[Peer(s)] = sb[Peer(s)]
    /\ sb'[s].spdu = sb[s].spdu /\ sb'[s].xspdu = sb[s].xspdu
    /\ sb'[s].pr = sb[s].pr /\ sb'[s].mode = sb[s].mode

(* What they all presuppose of the state they are made in.                 *)
Ready(s) == TypeOK /\ Conveys(net[Peer(s)])

(* S-DATA.REQUEST and S-TOKEN-PLEASE.REQUEST: an SPDU, and no change.      *)
LEMMA DataRequests ==
    ASSUME NEW s \in Side, Ready(s)
    PROVE  /\ SDataRequest(s) => Puts(s, "DT") /\ sb' = sb /\ ssapPsig(sb[s])
           /\ SPTokenRequest(s) => Puts(s, "PT") /\ sb' = sb
<1>1. ASSUME SDataRequest(s) PROVE Puts(s, "DT") /\ sb' = sb /\ ssapPsig(sb[s])
  <2>1. Spdu("DT") \in SpduSet /\ Spdu("DT").code = "DT" /\ ~Spdu("DT").xpd
    BY PlainSpdu DEF Code, Spdu
  <2> QED BY <1>1, <2>1, SendsPut DEF SDataRequest, Ready, OfTransfer, RtCode
<1>2. ASSUME SPTokenRequest(s) PROVE Puts(s, "PT") /\ sb' = sb
  <2>1. PICK ts \in SUBSET Tokens : spkt2sd(s, [Spdu("PT") EXCEPT !.tokens = ts])
    BY <1>2 DEF SPTokenRequest
  <2> DEFINE m == [Spdu("PT") EXCEPT !.tokens = ts]
  <2>2. m \in SpduSet /\ m.code = "PT" /\ ~m.xpd
    BY MessagesTyped DEF Spdu
  <2> HIDE DEF m
  <2>3. Puts(s, "PT")
    BY <2>1, <2>2, SendsPut DEF Ready, OfTransfer, RtCode, m
  <2> QED BY <1>2, <2>3 DEF SPTokenRequest
<1> QED BY <1>1, <1>2

(* S-CONTROL-GIVE.REQUEST: GTC goes, and with it every token.              *)
LEMMA ControlRequest ==
    ASSUME NEW s \in Side, Ready(s), SGControlRequest(s)
    PROVE  /\ Puts(s, "GTC") /\ Steady(s) /\ ssapPsig(sb[s]) /\ "Vact" \notin sb[s].flags
           /\ Needs("ACTIVITY")
           /\ sb'[s].flags = sb[s].flags \cup {"GTC"} /\ sb'[s].owned = {}
<1>1. Spdu("GTC") \in SpduSet /\ Spdu("GTC").code = "GTC" /\ ~Spdu("GTC").xpd
  BY PlainSpdu DEF Code, Spdu
<1>2. Puts(s, "GTC")
  BY <1>1, SendsPut DEF SGControlRequest, Ready, OfTransfer, RtCode
<1> QED BY <1>2, PeerSide DEF SGControlRequest, SDoActivityAux, Ready, TypeOK, Steady, Peer, Ssapblk

(* S-ACTIVITY-START.REQUEST: outside an activity, which AS begins.         *)
LEMMA StartRequest ==
    ASSUME NEW s \in Side, Ready(s), SActStartRequest(s)
    PROVE  /\ Puts(s, "AS") /\ Steady(s) /\ ssapPsig(sb[s]) /\ "Vact" \notin sb[s].flags
           /\ Needs("ACTIVITY")
           /\ sb'[s].flags = sb[s].flags \cup {"Vact"} /\ sb'[s].owned = sb[s].owned
           /\ sb'[s].V_M = 1
<1>1. /\ Spdu("AS") \in SpduSet /\ Spdu("AS").code = "AS" /\ ~Spdu("AS").xpd
      /\ Spdu("AS").ssn = 0
  BY PlainSpdu DEF Code, Spdu
<1>2. Puts(s, "AS")
  BY <1>1, SendsPut DEF SActStartRequest, Ready, OfTransfer, RtCode
<1> QED BY <1>2, PeerSide
        DEF SActStartRequest, SDoActivityAux, InActivity, Ready, TypeOK, Steady, Peer, Ssapblk

(* S-SYNC-MINOR.REQUEST: MIP carries the next serial number.               *)
LEMMA MinorRequest ==
    ASSUME NEW s \in Side, Ready(s), SMinSyncRequest(s)
    PROVE  /\ Puts(s, "MIP") /\ Steady(s) /\ ssapPsig(sb[s])
           /\ sb'[s].flags = sb[s].flags \ {"Vsc"} /\ sb'[s].owned = sb[s].owned
           /\ sb'[s].V_M = sb[s].V_M + 1
<1> DEFINE m == [Spdu("MIP") EXCEPT !.ssn = sb[s].V_M]
<1>1. m \in SpduSet /\ m.code = "MIP"
  BY MessagesTyped DEF Spdu, Ready, TypeOK, Ssapblk
<1> HIDE DEF m
<1>2. SWriteRequestAux(s, m)
  BY DEF SMinSyncRequest, m
<1>3. Puts(s, "MIP")
  BY <1>1, <1>2, SendsPut DEF Ready, OfTransfer, RtCode
<1> QED BY <1>3, PeerSide DEF SMinSyncRequest, Ready, TypeOK, Steady, Peer, Ssapblk

(* S-SYNC-MINOR.RESPONSE: all that was asked for is confirmed, by an MIA   *)
(* with the last serial number.                                            *)
LEMMA MinorResponse ==
    ASSUME NEW s \in Side, Ready(s), SMinSyncResponseTo(s)
    PROVE  /\ Puts(s, "MIA") /\ Steady(s)
           /\ sb'[s].flags = sb[s].flags /\ sb'[s].owned = sb[s].owned
           /\ sb'[s].V_M = sb[s].V_M
           /\ \E m \in SpduSet : /\ m.code = "MIA" /\ m.ssn = sb[s].V_M - 1
                               /\ Enters(net[Peer(s)], net'[Peer(s)], m)
<1>1. PICK n \in sb[s].V_A .. MaxSsn :
          /\ SWriteRequestAux(s, [Spdu("MIA") EXCEPT !.ssn = n])
          /\ sb' = [sb EXCEPT ![s].V_A = n + 1]
  BY DEF SMinSyncResponseTo, SMinSyncResponse
<1> DEFINE m == [Spdu("MIA") EXCEPT !.ssn = n]
<1>2. n \in Int /\ sb[s].V_M \in Int
  BY MaxSsnAssumption DEF Ready, TypeOK, Ssapblk
<1>3. m \in SpduSet /\ m.code = "MIA" /\ m.ssn = n
  BY <1>2, MessagesTyped DEF Spdu
<1>4. n + 1 = sb[s].V_M
  BY <1>1 DEF SMinSyncResponseTo, Ready, TypeOK, Ssapblk
<1> HIDE DEF m
<1>5. SWriteRequestAux(s, m)
  BY <1>1 DEF m
<1>6. Puts(s, "MIA") /\ Enters(net[Peer(s)], net'[Peer(s)], m)
  BY <1>3, <1>5, SendsPut DEF Ready, OfTransfer, RtCode
<1>7. m.ssn = sb[s].V_M - 1
  BY <1>2, <1>3, <1>4
<1> QED BY <1>1, <1>3, <1>6, <1>7, PeerSide DEF Ready, TypeOK, Steady, Peer, Ssapblk

(* S-ACTIVITY-END.REQUEST: the MAP of an end, which is outstanding now.    *)
LEMMA EndRequest ==
    ASSUME NEW s \in Side, Ready(s), SActEndRequest(s)
    PROVE  /\ Puts(s, "MAP") /\ Steady(s) /\ ssapPsig(sb[s])
           /\ sb'[s].flags = ((sb[s].flags \ {"Vnextact"}) \cup {"AE"} \cup {"MAP"}) \ {"Vsc"}
           /\ sb'[s].owned = sb[s].owned
<1> DEFINE m == [Spdu("MAP") EXCEPT !.ssn = sb[s].V_M, !.type = "end"]
<1>1. m \in SpduSet /\ m.code = "MAP" /\ m.type = "end" /\ ~m.xpd
  BY MessagesTyped DEF Spdu, Ready, TypeOK, Ssapblk
<1> HIDE DEF m
<1>2. SWriteRequestAux(s, m)
  BY DEF SActEndRequest, SMajSyncRequestAux, m
<1>3. Puts(s, "MAP")
  BY <1>1, <1>2, SendsPut DEF Ready, OfTransfer, RtCode
<1> QED BY <1>3, PeerSide
        DEF SActEndRequest, SMajSyncRequestAux, Ready, TypeOK, Steady, Peer, Ssapblk

(* Its response: MAA, and the activity is over here.                       *)
LEMMA EndResponse ==
    ASSUME NEW s \in Side, Ready(s), SMajSyncResponse(s)
    PROVE  /\ Puts(s, "MAA") /\ Steady(s) /\ ssapPsig(sb[s])
           /\ sb'[s].flags = ActivityAfterMajor(sb[s].flags) \ {"MAA", "AE"}
           /\ sb'[s].owned = sb[s].owned
<1> DEFINE m == [Spdu("MAA") EXCEPT !.ssn = sb[s].V_M - 1]
<1>1. m \in SpduSet /\ m.code = "MAA"
  <2>1. sb[s].V_M - 1 \in Int
    BY DEF Ready, TypeOK, Ssapblk
  <2> QED BY <2>1, MessagesTyped DEF Spdu
<1> HIDE DEF m
<1>2. SWriteRequestAux(s, m)
  BY DEF SMajSyncResponse, m
<1>3. Puts(s, "MAA")
  BY <1>1, <1>2, SendsPut DEF Ready, OfTransfer, RtCode
<1> QED BY <1>3, PeerSide DEF SMajSyncResponse, Ready, TypeOK, Steady, Peer, Ssapblk

(* S-ACTIVITY-INTERRUPT or -DISCARD.REQUEST: only within an activity.      *)
LEMMA InterruptRequest ==
    ASSUME NEW s \in Side, Ready(s), SActIntrRequest(s)
    PROVE  /\ Puts(s, "AI") \/ Puts(s, "AD")
           /\ Steady(s) /\ ssapXsig(sb[s])
           /\ "MAP" \notin sb[s].flags /\ "Vact" \in sb[s].flags
           /\ sb'[s].flags = (sb[s].flags \cup {"AI"}) \ {"RA", "EDACK"}
           /\ sb'[s].owned = sb[s].owned /\ sb'[s].V_M = sb[s].V_M
<1>1. PICK how \in {"intr", "disc"} :
        /\ SWriteRequestAux(s, Spdu(IF how = "intr" THEN "AI" ELSE "AD"))
        /\ sb' = [sb EXCEPT ![s].flags = (@ \cup {"AI"}) \ {"RA", "EDACK"}, ![s].rs = how]
  BY DEF SActIntrRequest
<1>2. \A c \in {"AI", "AD"} : Spdu(c) \in SpduSet /\ Spdu(c).code = c
  BY PlainSpdu DEF Code, Spdu
<1>3. Puts(s, "AI") \/ Puts(s, "AD")
  BY <1>1, <1>2, SendsPut DEF Ready, OfTransfer, RtCode
<1> QED BY <1>1, <1>3, PeerSide DEF SActIntrRequest, Ready, TypeOK, Steady, Peer, Ssapblk

(* Their response: AIA, the activity is over, the tokens are theirs.       *)
LEMMA InterruptResponse ==
    ASSUME NEW s \in Side, Ready(s), SActIntrResponse(s)
    PROVE  /\ Puts(s, "AIA") /\ Steady(s) /\ ssapAsig(sb[s])
           /\ sb'[s].flags = sb[s].flags \ {"AIA", "Vact"} /\ sb'[s].owned = {}
<1>1. Spdu("AIA") \in SpduSet /\ Spdu("AIA").code = "AIA"
  BY PlainSpdu DEF Code, Spdu
<1>2. Puts(s, "AIA")
  BY <1>1, SendsPut DEF SActIntrResponse, Ready, OfTransfer, RtCode
<1> QED BY <1>2, PeerSide DEF SActIntrResponse, Ready, TypeOK, Steady, Peer, Ssapblk

(* S-U-EXCEPTION-REPORT.REQUEST: only who has no data token reports.       *)
LEMMA ReportRequest ==
    ASSUME NEW s \in Side, Ready(s), SUReportRequest(s)
    PROVE  /\ Puts(s, "ED") /\ Steady(s) /\ ssapPsig(sb[s])
           /\ "dat" \in Tokens /\ "dat" \notin sb[s].owned
           /\ Needs("ACTIVITY") => "Vact" \in sb[s].flags
           /\ sb'[s].flags = sb[s].flags \cup {"ED"} /\ sb'[s].owned = sb[s].owned
           /\ sb'[s].V_M = sb[s].V_M
<1>1. Spdu("ED") \in SpduSet /\ Spdu("ED").code = "ED"
  BY PlainSpdu DEF Code, Spdu
<1>2. Puts(s, "ED")
  BY <1>1, SendsPut DEF SUReportRequest, Ready, OfTransfer, RtCode
<1> QED BY <1>2, PeerSide
        DEF SUReportRequest, Owns, Ready, TypeOK, Steady, Peer, Ssapblk

(* A release: the side that asks for it waits, the one that accepts is     *)
(* done but for the draining.                                              *)
LEMMA ReleaseCalls ==
    ASSUME NEW s \in Side, Ready(s)
    PROVE  /\ SRelRequest(s) =>
                /\ Puts(s, "FN") /\ sb'[Peer(s)] = sb[Peer(s)]
                /\ sb'[s].flags = sb[s].flags /\ sb'[s].owned = sb[s].owned
                /\ sb'[s].spdu = sb[s].spdu /\ sb'[s].xspdu = sb[s].xspdu
                /\ sb'[s].pr = sb[s].pr /\ sb'[s].mode = "waiting"
           /\ AcceptsRelease(s) =>
                /\ Puts(s, "DN") /\ sb'[Peer(s)] = sb[Peer(s)]
                /\ sb'[s].flags = {} /\ sb'[s].owned = {} /\ sb'[s].pr = "PR"
                /\ sb'[s].spdu = <<>> /\ ~sb'[s].xspdu /\ sb'[s].mode = "draining"
<1>1. \A c \in {"FN", "DN"} : Spdu(c) \in SpduSet /\ Spdu(c).code = c /\ ~Spdu(c).xpd
  BY PlainSpdu DEF Code, Spdu
<1>2. \A c \in {"FN", "DN"} : spkt2sd(s, Spdu(c)) => Puts(s, c)
  BY <1>1, SendsPut DEF Ready, OfTransfer, RtCode
<1>3. ASSUME SRelRequest(s)
      PROVE  /\ Puts(s, "FN") /\ sb'[Peer(s)] = sb[Peer(s)]
             /\ sb'[s].flags = sb[s].flags /\ sb'[s].owned = sb[s].owned
             /\ sb'[s].spdu = sb[s].spdu /\ sb'[s].xspdu = sb[s].xspdu
             /\ sb'[s].pr = sb[s].pr /\ sb'[s].mode = "waiting"
  BY <1>2, <1>3, PeerSide DEF SRelRequest, Ready, TypeOK, Peer, Ssapblk
<1>4. ASSUME AcceptsRelease(s)
      PROVE  /\ Puts(s, "DN") /\ sb'[Peer(s)] = sb[Peer(s)]
             /\ sb'[s].flags = {} /\ sb'[s].owned = {} /\ sb'[s].pr = "PR"
             /\ sb'[s].spdu = <<>> /\ ~sb'[s].xspdu /\ sb'[s].mode = "draining"
  <2>1. CASE spkt2sd(s, Spdu("DN")) /\ sb' = [sb EXCEPT ![s] = Freed("draining")]
    BY <1>2, <2>1, PeerSide DEF Freed, newsblk, Ready, TypeOK, Peer
  <2>2. CASE sb' = [sb EXCEPT ![s].flags = @ \ {"FINN"}]
    BY <1>4, <2>2 DEF AcceptsRelease, SRelResponse, ssapFsig, Ready, TypeOK, Ssapblk
  <2> QED BY <1>4, <2>1, <2>2 DEF AcceptsRelease, SRelResponse
<1> QED BY <1>3, <1>4

-----------------------------------------------------------------------------
(* Reading, seen from flags and queues.                                    *)

(* Reliable transfer never makes the session provider keep an SPDU or an   *)
(* XSDU back, nor expect an activity to go on after a major sync.          *)
Carried(s) ==
    /\ sb[s].spdu = <<>> /\ ~sb[s].xspdu
    /\ "Vnextact" \notin sb[s].flags
    /\ Conveys(net[s])

(* s has taken the first SPDU it had to read, and nothing that counts was  *)
(* sent.                                                                   *)
Gets(s) ==
    /\ net[s] # <<>> /\ net'[s] = Tail(net[s])
    /\ Conveys(net'[s]) /\ Conveys(net'[Peer(s)])
    /\ \A k \in Watched :
         /\ Tally(net'[s], k) = Tally(net[s], k) - Bit(Head(net[s]).code = k)
         /\ Tally(net'[Peer(s)], k) \in Nat
         /\ Tally(net'[Peer(s)], k) <= Tally(net[Peer(s)], k)
         /\ ~Closed(sb[Peer(s)]) => Tally(net'[Peer(s)], k) = Tally(net[Peer(s)], k)
    /\ Follows(net[Peer(s)], net'[Peer(s)])
    /\ sb'[Peer(s)] = sb[Peer(s)]
    /\ sb'[s].spdu = <<>> /\ ~sb'[s].xspdu

(* Nothing but the queue of the transport is read.                         *)
LEMMA FirstRead ==
    ASSUME TypeOK, NEW s \in Side, Carried(s), Readable(s)
    PROVE  /\ net[s] # <<>> /\ Incoming(s) = Head(net[s]) /\ Rest(s) = Tail(net[s])
           /\ Incoming(s) \in SpduSet /\ OfTransfer(Incoming(s))
           /\ Conveys(Tail(net[s]))
           /\ \A k : Tally(Tail(net[s]), k) = Tally(net[s], k) - Bit(Head(net[s]).code = k)
           /\ Taken(s).flags = sb[s].flags /\ Taken(s).owned = sb[s].owned
           /\ Taken(s).mode = sb[s].mode
           /\ Taken(s).spdu = <<>> /\ ~Taken(s).xspdu /\ Taken(s) \in Ssapblk
           /\ Taken(s).V_A = sb[s].V_A /\ Taken(s).V_M = sb[s].V_M
           /\ Taken(s).pr = IF ~Incoming(s).xpd /\ EndsPreparation(sb[s].pr, Incoming(s))
                            THEN "PR" ELSE sb[s].pr
<1>1. ~XsduReady(sb[s]) /\ FromNet(s)
  BY DEF Carried, XsduReady, FromNet
<1>2. net[s] # <<>> /\ net[s] \in Seq(SpduSet)
  BY <1>1 DEF Readable, TypeOK
<1>3. Incoming(s) = Head(net[s]) /\ Rest(s) = Tail(net[s])
  BY <1>1 DEF Incoming, Rest, Carried
<1>4. /\ Conveys(Tail(net[s])) /\ OfTransfer(Head(net[s]))
      /\ \A k : Tally(Tail(net[s]), k) = Tally(net[s], k) - Bit(Head(net[s]).code = k)
  BY <1>2, CarriesMore, TallyTail DEF Carried
<1> DEFINE c == sb2spkt(sb[s])
           w == IF ~Incoming(s).xpd /\ EndsPreparation(c.pr, Incoming(s)) THEN "PR" ELSE c.pr
<1>5. c = [sb[s] EXCEPT !.spdu = <<>>] /\ sb[s] \in Ssapblk
  BY <1>1 DEF sb2spkt, TypeOK
<1>6. /\ c \in Ssapblk /\ Taken(s) \in Ssapblk /\ Incoming(s) \in SpduSet
  BY IncomingTyped
<1>7. /\ c.flags = sb[s].flags /\ c.owned = sb[s].owned /\ c.mode = sb[s].mode
      /\ c.spdu = <<>> /\ ~c.xspdu /\ c.pr = sb[s].pr
      /\ c.V_A = sb[s].V_A /\ c.V_M = sb[s].V_M
  BY <1>5 DEF Carried, Ssapblk
<1>8. Taken(s) = [c EXCEPT !.pr = w]
  BY DEF Taken
<1> HIDE DEF c, w
<1>9. /\ Taken(s).flags = c.flags /\ Taken(s).owned = c.owned /\ Taken(s).mode = c.mode
      /\ Taken(s).spdu = c.spdu /\ Taken(s).xspdu = c.xspdu /\ Taken(s).pr = w
      /\ Taken(s).V_A = c.V_A /\ Taken(s).V_M = c.V_M
  BY <1>6, <1>8 DEF Ssapblk
<1>10. w = IF ~Incoming(s).xpd /\ EndsPreparation(sb[s].pr, Incoming(s))
           THEN "PR" ELSE sb[s].pr
  BY <1>7 DEF w
<1> QED BY <1>2, <1>3, <1>4, <1>6, <1>7, <1>9, <1>10

(* Done with what was read; an answer that does not count may be sent.     *)
LEMMA DoneGets ==
    ASSUME TypeOK, NEW s \in Side, Carried(s), Conveys(net[Peer(s)]), Readable(s),
           sb'[Peer(s)] = sb[Peer(s)], sb'[s].spdu = <<>>, ~sb'[s].xspdu,
           net'[s] = Rest(s),
           \/ net'[Peer(s)] = net[Peer(s)]
           \/ \E c \in {"GTA", "DN"} :
                 net'[Peer(s)] = Arriving(Peer(s), Append(net[Peer(s)], Spdu(c)))
    PROVE  Gets(s)
<1> DEFINE p == Peer(s)
<1>1. p \in Side /\ net[p] \in Seq(SpduSet)
  BY PeerSide DEF TypeOK
<1>2. \A k \in Watched : Tally(net[p], k) \in Nat /\ Tally(<<>>, k) = 0
  BY <1>1, TallyTyped, TallyEmpty
<1>3. ASSUME NEW c \in {"GTA", "DN"}
      PROVE  /\ Conveys(Append(net[p], Spdu(c))) /\ Follows(net[p], Append(net[p], Spdu(c)))
             /\ \A k \in Watched : Tally(Append(net[p], Spdu(c)), k) = Tally(net[p], k)
  <2>1. Spdu(c) \in SpduSet /\ Spdu(c).code = c /\ OfTransfer(Spdu(c))
    BY PlainSpdu, SpduTyped DEF Code, OfTransfer, RtCode
  <2>2. Conveys(Append(net[p], Spdu(c)))
    BY <1>1, <2>1, CarriesMore
  <2>3. \A k \in Watched : /\ Tally(Append(net[p], Spdu(c)), k) = Tally(net[p], k) + Bit(c = k)
                           /\ Bit(c = k) = 0
    BY <1>1, <2>1, TallyAppend DEF Watched, Bit
  <2>4. Follows(net[p], Append(net[p], Spdu(c)))
    BY <1>1, <2>1, EntersAppend DEF Matters, Watched
  <2> QED BY <1>2, <2>2, <2>3, <2>4
<1>4. Conveys(<<>>) /\ Follows(net[p], <<>>) /\ Follows(net[p], net[p])
  BY DEF Conveys, Follows, Bears, Pair
<1>5. /\ Conveys(net'[p]) /\ Follows(net[p], net'[p])
      /\ \A k \in Watched :
         /\ Tally(net'[p], k) \in Nat
         /\ Tally(net'[p], k) <= Tally(net[p], k)
         /\ ~Closed(sb[p]) => Tally(net'[p], k) = Tally(net[p], k)
  BY <1>2, <1>3, <1>4 DEF Arriving
<1>6. /\ net[s] # <<>> /\ Rest(s) = Tail(net[s]) /\ Conveys(Tail(net[s]))
      /\ \A k : Tally(Tail(net[s]), k) = Tally(net[s], k) - Bit(Head(net[s]).code = k)
  BY FirstRead
<1> QED BY <1>5, <1>6 DEF Gets

(* What it does to the serial numbers.                                     *)
Serials(s, i) ==
    /\ i \notin {"minorind", "endind", "start"} => sb'[s].V_M = sb[s].V_M
    /\ i = "minorind" => sb'[s].V_M = sb[s].V_M + 1
    /\ i = "start" => sb'[s].V_M = 1
    /\ i = "minorcnf" => sb'[s].V_A = Head(net[s]).ssn

(* What an SPDU that raises indication i does to the activity, the turn    *)
(* and the major sync, as the provider sees them.                          *)
Effect(s, i) ==
    /\ "AI" \in sb'[s].flags <=> "AI" \in sb[s].flags /\ i # "disccnf"
    /\ "MAP" \in sb'[s].flags <=> "MAP" \in sb[s].flags /\ i # "endcnf"
    /\ "Vact" \in sb'[s].flags <=>
           \/ "Vact" \in sb[s].flags /\ i # "disccnf" /\ ~(i = "endcnf" /\ Needs("ACTIVITY"))
           \/ i = "start"
    /\ "ED" \in sb'[s].flags => "ED" \in sb[s].flags
    /\ "Vnextact" \notin sb'[s].flags
    /\ sb'[s].owned = IF i \in {"control", "disccnf"} THEN Tokens ELSE sb[s].owned
    /\ i # "none" => Head(net[s]).code \in DOMAIN IndicationOf
                     /\ i = IndicationOf[Head(net[s]).code]
    /\ i \in {"control", "start"} => "Vact" \notin sb[s].flags
    /\ i \in {"discind", "disccnf"} => "Vact" \in sb[s].flags
    /\ Serials(s, i)

(* Reading while the connection is open: the block is freed, or one SPDU   *)
(* is taken and has the effect of the indication it raises.                *)
ReadsOpen(s) == Loses(s) \/ (Gets(s) /\ sb'[s].mode = "open" /\ Effect(s, Indication(s)))

(* An SPDU that raises nothing has no effect.                              *)
LEMMA SilentRead ==
    ASSUME TypeOK, NEW s \in Side, Carried(s), Conveys(net[Peer(s)]),
           Reads(s), Indication(s) = "none",
           NEW b, Done(s, b), b.spdu = <<>>, ~b.xspdu, b.mode = "open",
           b.owned = sb[s].owned,
           \A f \in {"AI", "MAP", "Vact", "Vnextact"} : f \in b.flags <=> f \in sb[s].flags,
           "ED" \in b.flags => "ED" \in sb[s].flags, b.V_M = sb[s].V_M
    PROVE  ReadsOpen(s)
<1>1. Peer(s) \in Side /\ Peer(s) # s
  BY DEF Peer, Side
<1>2. /\ sb'[s] = b /\ sb'[Peer(s)] = sb[Peer(s)]
      /\ net'[s] = Rest(s) /\ net'[Peer(s)] = net[Peer(s)]
  BY <1>1 DEF Done, TypeOK
<1>3. Gets(s)
  BY <1>2, DoneGets DEF Reads
<1>4. Serials(s, "none")
  BY <1>2 DEF Serials
<1> QED BY <1>2, <1>3, <1>4 DEF ReadsOpen, Effect, Carried

(* One that is not dropped and that raises an indication.                  *)
LEMMA RaisingRead ==
    ASSUME TypeOK, NEW s \in Side, Carried(s), Conveys(net[Peer(s)]),
           Reads(s), NEW c \in DOMAIN IndicationOf, Arrives(s, {c}), Raises(sb[s], Incoming(s)),
           NEW b, Done(s, b), b.spdu = <<>>, ~b.xspdu, b.mode = "open",
           c # "AIA" => b.owned = sb[s].owned,
           c = "AIA" => b.owned = Tokens /\ b.flags = sb[s].flags \ {"AI", "Vact"},
           c \notin {"AIA", "MAA", "AS"} =>
               \A f \in {"AI", "MAP", "Vact", "Vnextact"} : f \in b.flags <=> f \in sb[s].flags,
           c = "MAA" => b.flags = ActivityAfterMajor(sb[s].flags) \ {"MAP", "AE"},
           c = "AS" => b.flags = sb[s].flags \cup {"Vact"},
           "ED" \in b.flags => "ED" \in sb[s].flags,
           c \notin {"MIP", "MAP", "AS"} => b.V_M = sb[s].V_M,
           c = "MIP" => b.V_M = sb[s].V_M + 1,
           c = "AS" => b.V_M = 1,
           c = "MIA" => b.V_A = Incoming(s).ssn,
           c # "GTC"
    PROVE  ReadsOpen(s)
<1>1. Peer(s) \in Side /\ Peer(s) # s
  BY DEF Peer, Side
<1>2. /\ sb'[s] = b /\ sb'[Peer(s)] = sb[Peer(s)]
      /\ net'[s] = Rest(s) /\ net'[Peer(s)] = net[Peer(s)]
  BY <1>1 DEF Done, TypeOK
<1>3. Gets(s)
  BY <1>2, DoneGets DEF Reads
<1>4. Incoming(s) = Head(net[s]) /\ Incoming(s).code = c
  BY FirstRead DEF Reads, Arrives
<1>5. Indication(s) = IndicationOf[c]
  BY <1>4 DEF Indication, Arrives
<1>6. /\ IndicationOf[c] = "start" <=> c = "AS"
      /\ IndicationOf[c] = "disccnf" <=> c = "AIA"
      /\ IndicationOf[c] = "endcnf" <=> c = "MAA"
      /\ IndicationOf[c] = "discind" <=> c \in {"AI", "AD"}
      /\ IndicationOf[c] # "control"
  BY DEF IndicationOf
<1>7. /\ c = "AS" => "Vact" \notin sb[s].flags
      /\ c \in {"AI", "AD", "AIA"} => "Vact" \in sb[s].flags
  BY <1>4 DEF Raises
<1>9. Serials(s, IndicationOf[c])
  <2>1. /\ IndicationOf[c] = "start" <=> c = "AS"
        /\ IndicationOf[c] = "minorind" <=> c = "MIP"
        /\ IndicationOf[c] = "endind" <=> c = "MAP"
        /\ IndicationOf[c] = "minorcnf" <=> c = "MIA"
    BY DEF IndicationOf
  <2> QED BY <1>2, <1>4, <2>1 DEF Serials
<1>8. Effect(s, IndicationOf[c])
  <2>1. CASE c = "MAA"
    BY <1>2, <1>4, <1>5, <1>6, <1>9, <2>1 DEF Effect, Carried, ActivityAfterMajor
  <2>2. CASE c = "AS"
    BY <1>2, <1>4, <1>5, <1>6, <1>7, <1>9, <2>2 DEF Effect, Carried
  <2>3. CASE c = "AIA"
    BY <1>2, <1>4, <1>5, <1>6, <1>7, <1>9, <2>3 DEF Effect, Carried
  <2>4. CASE c \notin {"MAA", "AS", "AIA"}
    BY <1>2, <1>4, <1>5, <1>6, <1>7, <1>9, <2>4 DEF Effect, Carried
  <2> QED BY <2>1, <2>2, <2>3, <2>4
<1> QED BY <1>2, <1>3, <1>5, <1>8 DEF ReadsOpen

(* A read while the connection is in use: what is dropped, what is only    *)
(* noted, what raises an indication and what ends the connection.          *)
LEMMA OpenReads ==
    ASSUME TypeOK, NEW s \in Side, Carried(s), Conveys(net[Peer(s)]),
           sb[s].mode = "open", Read(s)
    PROVE  ReadsOpen(s)
<1> DEFINE m == Incoming(s)
           T == Taken(s)
<1>1. ASSUME Reads(s)
      PROVE  /\ m = Head(net[s]) /\ m.code \in RtCode
             /\ T.flags = sb[s].flags /\ T.owned = sb[s].owned /\ T.mode = "open"
             /\ T.spdu = <<>> /\ ~T.xspdu /\ T \in Ssapblk
             /\ T.V_A = sb[s].V_A /\ T.V_M = sb[s].V_M
             /\ m.code = "MAP" => m.type = "end"
             /\ m.code = "AS" => m.ssn = 0
             /\ sb[s].V_M \in Int
  BY <1>1, FirstRead DEF Reads, OfTransfer, TypeOK, Ssapblk
<1> HIDE DEF m, T
<1>2. CASE Drop(s)
  <2>1. Reads(s) /\ Dropped(s, sb[s], Incoming(s)) /\ Done(s, T)
    BY <1>2 DEF Drop, T
  <2>2. Indication(s) = "none"
    BY <2>1 DEF Indication
  <2> QED BY <1>1, <2>1, <2>2, SilentRead
<1>3. CASE RecvData(s)
  <2>1. Reads(s) /\ Done(s, T) /\ m.code \in {"DT", "PT"} /\ Arrives(s, {m.code})
    BY <1>1, <1>3 DEF RecvData, Arrives, RtCode, m, T
  <2>2. CASE Raises(sb[s], m)
    BY <1>1, <2>1, <2>2, RaisingRead DEF IndicationOf, m
  <2>3. CASE ~Raises(sb[s], m)
    <3>1. Indication(s) = "none"
      BY <2>3 DEF Indication, m
    <3> QED BY <1>1, <2>1, <3>1, SilentRead
  <2> QED BY <2>2, <2>3
<1>4. CASE RecvGT(s) \/ RecvEX(s) \/ RecvCD(s) \/ RecvRS(s) \/ RecvRA(s)
  BY <1>1, <1>4 DEF RecvGT, RecvEX, RecvCD, RecvRS, RecvRA, Arrives, RtCode, m
<1>5. CASE RecvGTC(s)
  <2>1. Reads(s) /\ m.code = "GTC" /\ ~Dropped(s, sb[s], m)
    BY <1>5 DEF RecvGTC, Arrives, m
  <2>2. CASE "Vact" \in sb[s].flags
    <3>1. Done(s, T)
      BY <1>5, <2>2 DEF RecvGTC, T
    <3>2. Indication(s) = "none"
      BY <2>1, <2>2 DEF Indication, Raises, m
    <3> QED BY <1>1, <2>1, <3>1, <3>2, SilentRead
  <2>3. CASE "Vact" \notin sb[s].flags
    <3> DEFINE b == [T EXCEPT !.owned = Tokens]
    <3>1. /\ sb' = [sb EXCEPT ![s] = b]
          /\ net' = [net EXCEPT ![s] = Rest(s),
                        ![Peer(s)] = Arriving(Peer(s), Append(@, Spdu("GTA")))]
      BY <1>5, <2>3 DEF RecvGTC, T
    <3>2. /\ b.owned = Tokens /\ b.flags = sb[s].flags /\ b.mode = "open"
          /\ b.spdu = <<>> /\ ~b.xspdu /\ b.V_M = sb[s].V_M
      BY <1>1, <2>1 DEF Ssapblk
    <3> HIDE DEF b
    <3>3. /\ sb'[s] = b /\ sb'[Peer(s)] = sb[Peer(s)] /\ net'[s] = Rest(s)
          /\ net'[Peer(s)] = Arriving(Peer(s), Append(net[Peer(s)], Spdu("GTA")))
      BY <3>1 DEF TypeOK, Peer, Side
    <3>4. Gets(s)
      BY <2>1, <3>2, <3>3, DoneGets DEF Reads
    <3>5. Indication(s) = "control" /\ Head(net[s]).code = "GTC"
      BY <1>1, <2>1, <2>3 DEF Indication, Raises, IndicationOf, m
    <3> QED BY <2>3, <3>2, <3>3, <3>4, <3>5
            DEF ReadsOpen, Effect, Carried, IndicationOf, Serials
  <2> QED BY <2>2, <2>3
<1>6. CASE RecvGTA(s) \/ RecvPR(s)
  <2>1. Reads(s) /\ m.code \in {"GTA", "PR"}
    BY <1>6 DEF RecvGTA, RecvPR, Arrives, m
  <2>2. Indication(s) = "none"
    BY <2>1 DEF Indication, Raises, m
  <2>3. CASE RecvGTA(s)
    <3>1. Done(s, [T EXCEPT !.flags = @ \ {"GTC"}])
      BY <2>3 DEF RecvGTA, T
    <3> QED BY <1>1, <2>1, <2>2, <3>1, SilentRead DEF Ssapblk
  <2>4. CASE RecvPR(s)
    <3> DEFINE fs == IF m.type = "RS" THEN T.flags \ {"ED"} ELSE T.flags
               b == [T EXCEPT !.pr = m.type, !.flags = fs]
    <3>1. Done(s, b)
      BY <2>4 DEF RecvPR, T, m
    <3>2. /\ b.flags = fs /\ b.owned = sb[s].owned /\ b.mode = "open"
          /\ b.spdu = <<>> /\ ~b.xspdu /\ b.V_M = sb[s].V_M
      BY <1>1, <2>1 DEF Ssapblk
    <3> HIDE DEF b
    <3> QED BY <1>1, <2>1, <2>2, <3>1, <3>2, SilentRead
  <2> QED BY <1>6, <2>3, <2>4
<1>7. CASE RecvMAP(s)
  <2>1. Reads(s) /\ m.code = "MAP" /\ m.type = "end" /\ Arrives(s, {"MAP"})
    BY <1>1, <1>7 DEF RecvMAP, Arrives, m
  <2>2. CASE sb[s].V_M # m.ssn
    <3>1. Done(s, T)
      BY <1>7, <2>2 DEF RecvMAP, T, m
    <3>2. Indication(s) = "none"
      BY <2>1, <2>2 DEF Indication, Raises, m
    <3> QED BY <1>1, <2>1, <3>1, <3>2, SilentRead
  <2>3. CASE sb[s].V_M = m.ssn
    <3> DEFINE c == SyncPointOfPeer(T)
               b == [c EXCEPT !.flags = (@ \ {"Vnextact"}) \cup {"MAA", "AE"}]
    <3>1. Done(s, b)
      BY <1>7, <2>1, <2>3 DEF RecvMAP, T, m
    <3>2. c \in Ssapblk
      BY <1>1, <2>1, SyncPointTyped
    <3>3. /\ c.flags = sb[s].flags /\ c.owned = sb[s].owned /\ c.mode = "open"
          /\ c.spdu = <<>> /\ ~c.xspdu
      BY <1>1, <2>1 DEF SyncPointOfPeer, Ssapblk
    <3> HIDE DEF c
    <3>4. /\ b.flags = (sb[s].flags \ {"Vnextact"}) \cup {"MAA", "AE"}
          /\ b.owned = sb[s].owned /\ b.mode = "open" /\ b.spdu = <<>> /\ ~b.xspdu
      BY <3>2, <3>3 DEF Ssapblk
    <3> HIDE DEF b
    <3>5. Raises(sb[s], m)
      BY <2>1, <2>3 DEF Raises
    <3> QED BY <2>1, <3>1, <3>4, <3>5, RaisingRead DEF IndicationOf, m, Carried
  <2> QED BY <2>2, <2>3
<1>8. CASE RecvMAA(s)
  <2>1. Reads(s) /\ m.code = "MAA" /\ Arrives(s, {"MAA"})
    BY <1>8 DEF RecvMAA, Arrives, m
  <2>2. CASE sb[s].V_M # m.ssn + 1
    <3>1. Done(s, T)
      BY <1>1, <1>8, <2>1, <2>2 DEF RecvMAA, T, m
    <3>2. Indication(s) = "none"
      BY <2>1, <2>2 DEF Indication, Raises, m
    <3> QED BY <1>1, <2>1, <3>1, <3>2, SilentRead
  <2>3. CASE sb[s].V_M = m.ssn + 1
    <3> DEFINE b == [T EXCEPT !.V_A = T.V_M, !.V_R = T.V_M,
                              !.flags = ActivityAfterMajor(@) \ {"MAP", "AE"}]
    <3>1. Done(s, b)
      BY <1>1, <1>8, <2>1, <2>3 DEF RecvMAA, T, m
    <3>2. /\ b.flags = ActivityAfterMajor(sb[s].flags) \ {"MAP", "AE"}
          /\ b.owned = sb[s].owned /\ b.mode = "open" /\ b.spdu = <<>> /\ ~b.xspdu
          /\ b.V_M = sb[s].V_M
      BY <1>1, <2>1 DEF Ssapblk
    <3> HIDE DEF b
    <3>3. Raises(sb[s], m)
      BY <2>1, <2>3 DEF Raises
    <3>4. "ED" \in b.flags => "ED" \in sb[s].flags
      BY <3>2 DEF ActivityAfterMajor
    <3> QED BY <2>1, <3>1, <3>2, <3>3, <3>4, RaisingRead DEF IndicationOf, m
  <2> QED BY <2>2, <2>3
<1>9. CASE RecvMIP(s)
  <2>1. Reads(s) /\ m.code = "MIP" /\ Arrives(s, {"MIP"})
    BY <1>9 DEF RecvMIP, Arrives, m
  <2> DEFINE c == SyncPointOfPeer(T)
             b == [c EXCEPT !.flags = @ \cup {"Vsc"}]
  <2>2. Done(s, b)
    BY <1>9 DEF RecvMIP, T
  <2>3. c \in Ssapblk
    BY <1>1, <2>1, SyncPointTyped
  <2>4. /\ c.flags = sb[s].flags /\ c.owned = sb[s].owned /\ c.mode = "open"
        /\ c.spdu = <<>> /\ ~c.xspdu /\ c.V_M = sb[s].V_M + 1
    BY <1>1, <2>1 DEF SyncPointOfPeer, Ssapblk
  <2> HIDE DEF c
  <2>5. /\ b.flags = sb[s].flags \cup {"Vsc"} /\ b.owned = sb[s].owned
        /\ b.mode = "open" /\ b.spdu = <<>> /\ ~b.xspdu /\ b.V_M = sb[s].V_M + 1
    BY <2>3, <2>4 DEF Ssapblk
  <2> HIDE DEF b
  <2>6. Raises(sb[s], m)
    BY <2>1 DEF Raises
  <2> QED BY <2>1, <2>2, <2>5, <2>6, RaisingRead DEF IndicationOf, m
<1>10. CASE RecvMIA(s)
  <2>1. Reads(s) /\ m.code = "MIA" /\ Arrives(s, {"MIA"})
    BY <1>10 DEF RecvMIA, Arrives, m
  <2>2. PICK b : /\ Done(s, b) /\ b.flags = sb[s].flags /\ b.owned = sb[s].owned
                 /\ b.mode = "open" /\ b.spdu = <<>> /\ ~b.xspdu
                 /\ b.V_M = sb[s].V_M /\ (Raises(sb[s], m) => b.V_A = m.ssn)
    <3>1. T.flags = sb[s].flags /\ T.V_A = sb[s].V_A /\ T.V_M = sb[s].V_M
      BY <1>1, <2>1
    <3>2. m \in SpduSet /\ m.ssn \in Int /\ T.V_A \in Int /\ T.V_M \in Int
      <4>1. m \in SpduSet
        BY <2>1, FirstRead DEF Reads, m
      <4> QED BY <1>1, <2>1, <4>1 DEF SpduSet, SpduShape, Ssapblk
    <3> DEFINE kept == "Vsc" \in T.flags \/ m.ssn < T.V_A \/ m.ssn >= T.V_M
    <3>3. Done(s, IF kept THEN T ELSE [T EXCEPT !.V_A = m.ssn])
      BY <1>10 DEF RecvMIA, T, m
    <3>4. kept <=> ~Raises(sb[s], m)
      BY <2>1, <3>1, <3>2 DEF Raises
    <3> HIDE DEF kept
    <3>5. \/ Done(s, T) /\ ~Raises(sb[s], m)
          \/ Done(s, [T EXCEPT !.V_A = m.ssn])
      BY <3>3, <3>4
    <3> QED BY <1>1, <2>1, <3>5 DEF Ssapblk
  <2>3. CASE Raises(sb[s], m)
    BY <2>1, <2>2, <2>3, RaisingRead DEF IndicationOf, m
  <2>4. CASE ~Raises(sb[s], m)
    <3>1. Indication(s) = "none"
      BY <2>4 DEF Indication, m
    <3> QED BY <2>1, <2>2, <3>1, SilentRead
  <2> QED BY <2>3, <2>4
<1>11. CASE RecvED(s) \/ RecvFN(s)
  <2>1. Reads(s) /\ m.code \in {"ED", "FN"} /\ Arrives(s, {m.code})
    BY <1>11 DEF RecvED, RecvFN, Arrives, m
  <2>2. PICK b : /\ Done(s, b) /\ b.owned = sb[s].owned
                 /\ b.flags \in {sb[s].flags, sb[s].flags \cup {"EDACK"},
                                 sb[s].flags \cup {"FINN"}}
                 /\ b.mode = "open" /\ b.spdu = <<>> /\ ~b.xspdu /\ b.V_M = sb[s].V_M
    <3>1. \/ Done(s, [T EXCEPT !.flags = IF Owns(sb[s], "dat") THEN @ \cup {"EDACK"} ELSE @])
          \/ Done(s, [T EXCEPT !.flags = @ \cup {"FINN"}])
      BY <1>11, Zenon DEF RecvED, RecvFN, T
    <3> QED BY <1>1, <2>1, <3>1 DEF Ssapblk
  <2>3. Raises(sb[s], m)
    BY <2>1 DEF Raises
  <2> QED BY <2>1, <2>2, <2>3, RaisingRead DEF IndicationOf, m
<1>12. CASE RecvAS(s)
  <2>1. Reads(s) /\ m.code = "AS" /\ Arrives(s, {"AS"})
    BY <1>1, <1>12 DEF RecvAS, Arrives, m, RtCode
  <2>2. CASE "Vact" \in sb[s].flags
    <3>1. Done(s, T)
      BY <1>12, <2>2 DEF RecvAS, T
    <3>2. Indication(s) = "none"
      BY <2>1, <2>2 DEF Indication, Raises, m
    <3> QED BY <1>1, <2>1, <3>1, <3>2, SilentRead
  <2>3. CASE "Vact" \notin sb[s].flags
    <3> DEFINE b == InActivity(T, m.ssn + 1)
    <3>1. Done(s, b)
      BY <1>12, <2>3 DEF RecvAS, T, m
    <3>2. /\ b.flags = sb[s].flags \cup {"Vact"} /\ b.owned = sb[s].owned
          /\ b.mode = "open" /\ b.spdu = <<>> /\ ~b.xspdu /\ b.V_M = 1
      BY <1>1, <2>1 DEF InActivity, Ssapblk
    <3> HIDE DEF b
    <3>3. Raises(sb[s], m)
      BY <2>1, <2>3 DEF Raises
    <3> QED BY <2>1, <3>1, <3>2, <3>3, RaisingRead DEF IndicationOf, m
  <2> QED BY <2>2, <2>3
<1>13. CASE RecvAI(s)
  <2>1. Reads(s) /\ m.code \in {"AI", "AD"} /\ Arrives(s, {m.code})
    BY <1>13 DEF RecvAI, Arrives, m
  <2>2. CASE "Vact" \notin sb[s].flags
    <3>1. Done(s, T)
      BY <1>13, <2>2 DEF RecvAI, T
    <3>2. Indication(s) = "none"
      BY <2>1, <2>2 DEF Indication, Raises, m
    <3> QED BY <1>1, <2>1, <3>1, <3>2, SilentRead
  <2>3. CASE "Vact" \in sb[s].flags
    <3> DEFINE b == [T EXCEPT !.flags = (@ \ {"RS", "RA"}) \cup {"AIA"}, !.rs = "intr"]
    <3>1. Done(s, b)
      BY <1>13, <2>3 DEF RecvAI, T
    <3>2. /\ b.flags = (sb[s].flags \ {"RS", "RA"}) \cup {"AIA"} /\ b.owned = sb[s].owned
          /\ b.mode = "open" /\ b.spdu = <<>> /\ ~b.xspdu /\ b.V_M = sb[s].V_M
      BY <1>1, <2>1 DEF Ssapblk
    <3> HIDE DEF b
    <3>3. Raises(sb[s], m)
      BY <2>1, <2>3 DEF Raises
    <3> QED BY <2>1, <3>1, <3>2, <3>3, RaisingRead DEF IndicationOf, m
  <2> QED BY <2>2, <2>3
<1>14. CASE RecvAIA(s)
  <2>1. Reads(s) /\ m.code = "AIA" /\ Arrives(s, {"AIA"})
    BY <1>14 DEF RecvAIA, Arrives, m
  <2>2. CASE "Vact" \notin sb[s].flags
    <3>1. Done(s, T)
      BY <1>14, <2>2 DEF RecvAIA, T
    <3>2. Indication(s) = "none"
      BY <2>1, <2>2 DEF Indication, Raises, m
    <3> QED BY <1>1, <2>1, <3>1, <3>2, SilentRead
  <2>3. CASE "Vact" \in sb[s].flags
    <3> DEFINE b == [T EXCEPT !.flags = @ \ {"AI", "Vact"}, !.owned = Tokens]
    <3>1. Done(s, b)
      BY <1>14, <2>3 DEF RecvAIA, T
    <3>2. /\ b.flags = sb[s].flags \ {"AI", "Vact"} /\ b.owned = Tokens
          /\ b.mode = "open" /\ b.spdu = <<>> /\ ~b.xspdu /\ b.V_M = sb[s].V_M
      BY <1>1, <2>1 DEF Ssapblk
    <3> HIDE DEF b
    <3>3. Raises(sb[s], m)
      BY <2>1, <2>3 DEF Raises
    <3> QED BY <2>1, <3>1, <3>2, <3>3, RaisingRead DEF IndicationOf, m
  <2> QED BY <2>2, <2>3
<1>15. CASE RecvAB(s)
  <2>1. freesblk(s, "aborted", {net[Peer(s)]})
    BY <1>15 DEF RecvAB
  <2>2. Loses(s)
    BY <2>1, FreesLoses
  <2> QED BY <2>2 DEF ReadsOpen
<1>16. CASE RecvUnexpected(s)
  BY <1>16, AbortLoses DEF RecvUnexpected, ReadsOpen
<1>17. CASE RecvTDISC(s)
  <2>1. Peer(s) \in Side /\ Peer(s) # s /\ net[Peer(s)] \in Seq(SpduSet)
    BY PeerSide DEF Peer, Side, TypeOK
  <2>2. /\ sb'[s] = Freed("aborted") /\ sb'[Peer(s)] = sb[Peer(s)]
        /\ net'[s] = <<>> /\ net'[Peer(s)] = net[Peer(s)]
    BY <1>17, <2>1 DEF RecvTDISC, TypeOK
  <2>3. /\ \A k \in Watched : Tally(net[Peer(s)], k) \in Nat
        /\ Follows(net[Peer(s)], net[Peer(s)])
    BY <2>1, TallyTyped DEF Follows
  <2>4. Loses(s)
    BY <2>2, <2>3 DEF Loses, Freed, newsblk
  <2> QED BY <2>4 DEF ReadsOpen
<1>18. CASE \/ Drain(s) \/ RelFN(s) \/ RelDN(s) \/ RelNF(s) \/ RelRS(s) \/ RelAB(s)
            \/ RelUnexpected(s)
  BY <1>18 DEF Drain, RelFN, RelDN, RelNF, RelRS, RelAB, RelUnexpected, Waits
<1> QED BY <1>2, <1>3, <1>4, <1>5, <1>6, <1>7, <1>8, <1>9, <1>10, <1>11, <1>12, <1>13,
           <1>14, <1>15, <1>16, <1>17, <1>18 DEF Read

(* s is told of the data it reads: it has not reported an exception, and   *)
(* does not prepare for an SPDU that what comes before it is discarded for.*)
Heeds(s) == "ED" \notin sb[s].flags /\ sb[s].pr \in {"PR", "MAA"}

(* What is read of data, of an end, and of what makes s listen again.      *)
Hearing(s, i) ==
    /\ Heeds(s) /\ Head(net[s]).code = "DT" => i = "data"
    /\ Heeds(s)' => Heeds(s) \/ Head(net[s]).code \in {"AI", "AD", "AIA"}
    /\ i = "endind" => sb'[s].pr \in {"PR", "MAA"}

(* Reading while waiting for the answer to a release, or while draining:   *)
(* nothing is raised.                                                      *)
LEMMA OtherReads ==
    ASSUME TypeOK, NEW s \in Side, Carried(s), Conveys(net[Peer(s)]),
           sb[s].mode # "open", Read(s)
    PROVE  \/ Loses(s)
           \/ /\ Gets(s) /\ sb'[s].mode = sb[s].mode /\ sb'[s].pr = sb[s].pr
              /\ sb'[s].flags = sb[s].flags /\ sb'[s].owned = sb[s].owned
              /\ sb'[s].V_M = sb[s].V_M
<1> DEFINE b == sb2spkt(sb[s])
<1>1. Peer(s) \in Side /\ Peer(s) # s /\ net[Peer(s)] \in Seq(SpduSet)
  BY PeerSide DEF Peer, Side, TypeOK
<1>2. CASE RelFN(s)
  <2>1. Readable(s) /\ b \in Ssapblk
    BY <1>2, IncomingTyped DEF RelFN, Waits
  <2>2. /\ b.spdu = <<>> /\ ~b.xspdu /\ b.mode = sb[s].mode /\ b.pr = sb[s].pr
        /\ b.flags = sb[s].flags /\ b.owned = sb[s].owned /\ b.V_M = sb[s].V_M
    BY DEF sb2spkt, Carried, XsduReady, TypeOK, Ssapblk
  <2>3. /\ sb'[s] = b /\ sb'[Peer(s)] = sb[Peer(s)] /\ net'[s] = Rest(s)
        /\ net'[Peer(s)] = Arriving(Peer(s), Append(net[Peer(s)], Spdu("DN")))
    BY <1>1, <1>2 DEF RelFN, TypeOK
  <2> HIDE DEF b
  <2>4. Gets(s)
    BY <2>1, <2>2, <2>3, DoneGets
  <2> QED BY <2>2, <2>3, <2>4
<1>3. CASE RelDN(s) \/ RelAB(s)
  <2>1. PICK mode \in {"released", "aborted"} : freesblk(s, mode, {net[Peer(s)]})
    BY <1>3 DEF RelDN, RelAB
  <2> QED BY <2>1, FreesLoses
<1>4. CASE RelUnexpected(s)
  BY <1>4, AbortLoses DEF RelUnexpected
<1>5. CASE RelNF(s) \/ RelRS(s)
  <2>1. Readable(s) /\ Incoming(s).code \in {"NF", "RS"}
    BY <1>5 DEF RelNF, RelRS, Waits
  <2> QED BY <2>1, FirstRead DEF OfTransfer, RtCode
<1>6. CASE Drain(s)
  <2>1. CASE Head(net[s]).code = "TDISC"
    <3>1. /\ sb'[s] = Freed("released") /\ sb'[Peer(s)] = sb[Peer(s)]
          /\ net'[s] = <<>> /\ net'[Peer(s)] = net[Peer(s)]
      BY <1>1, <1>6, <2>1 DEF Drain, TypeOK
    <3>2. /\ \A k \in Watched : Tally(net[Peer(s)], k) \in Nat
          /\ Follows(net[Peer(s)], net[Peer(s)])
      BY <1>1, TallyTyped DEF Follows
    <3> QED BY <3>1, <3>2 DEF Loses, Freed, newsblk
  <2>2. CASE Head(net[s]).code # "TDISC"
    <3>1. /\ sb' = sb /\ net'[s] = Tail(net[s]) /\ net'[Peer(s)] = net[Peer(s)]
          /\ net[s] # <<>>
      BY <1>1, <1>6, <2>2 DEF Drain, TypeOK
    <3>2. Readable(s)
      BY <3>1 DEF Readable
    <3>3. Rest(s) = Tail(net[s])
      BY <3>2, FirstRead
    <3>4. Gets(s)
      BY <3>1, <3>2, <3>3, DoneGets DEF Carried
    <3> QED BY <3>1, <3>4
  <2> QED BY <2>1, <2>2
<1>7. CASE \/ Drop(s) \/ RecvData(s) \/ RecvGT(s) \/ RecvEX(s) \/ RecvCD(s)
           \/ RecvGTC(s) \/ RecvGTA(s) \/ RecvMAP(s) \/ RecvMAA(s) \/ RecvMIP(s)
           \/ RecvMIA(s) \/ RecvRS(s) \/ RecvRA(s) \/ RecvPR(s) \/ RecvED(s)
           \/ RecvAS(s) \/ RecvAI(s) \/ RecvAIA(s) \/ RecvFN(s) \/ RecvAB(s)
           \/ RecvUnexpected(s) \/ RecvTDISC(s)
  <2>1. Reads(s)
    BY <1>7, Zenon
       DEF Drop, RecvData, RecvGT, RecvEX, RecvCD, RecvGTC, RecvGTA, RecvMAP, RecvMAA,
           RecvMIP, RecvMIA, RecvRS, RecvRA, RecvPR, RecvED, RecvAS, RecvAI, RecvAIA,
           RecvFN, RecvAB, RecvUnexpected, RecvTDISC, Arrives
  <2> QED BY <2>1 DEF Reads
<1> QED BY <1>2, <1>3, <1>4, <1>5, <1>6, <1>7, Zenon DEF Read

(* Its block is freed, or the read is one of those that keep it.           *)
LEMMA KeepsReading ==
    ASSUME TypeOK, NEW s \in Side, Carried(s), sb[s].mode = "open", Read(s),
           sb'[s].mode = "open"
    PROVE  /\ Reads(s)
           /\ \/ Drop(s) \/ RecvData(s) \/ RecvGTC(s) \/ RecvGTA(s) \/ RecvMAP(s)
              \/ RecvMAA(s) \/ RecvMIP(s) \/ RecvMIA(s) \/ RecvPR(s) \/ RecvED(s)
              \/ RecvAS(s) \/ RecvAI(s) \/ RecvAIA(s) \/ RecvFN(s)
<1>1. ~ (\E mode, qs : mode # "open" /\ freesblk(s, mode, qs))
  <2>1. ASSUME NEW mode, NEW qs, mode # "open", freesblk(s, mode, qs) PROVE FALSE
    BY <2>1 DEF freesblk, Freed, newsblk, TypeOK
  <2> QED BY <2>1
<1>2. ~ (RecvAB(s) \/ RecvUnexpected(s) \/ RecvTDISC(s))
  <2>1. ~ RecvTDISC(s)
    BY DEF RecvTDISC, Freed, newsblk, TypeOK
  <2> QED BY <1>1, <2>1 DEF RecvAB, RecvUnexpected, ProtocolAbort
<1>3. ~ (\/ Drain(s) \/ RelFN(s) \/ RelDN(s) \/ RelNF(s) \/ RelRS(s) \/ RelAB(s)
         \/ RelUnexpected(s))
  BY DEF Drain, RelFN, RelDN, RelNF, RelRS, RelAB, RelUnexpected, Waits
<1>4. Reads(s) => Incoming(s).code \in RtCode
  BY FirstRead DEF Reads, OfTransfer
<1>5. ~ (RecvGT(s) \/ RecvEX(s) \/ RecvCD(s) \/ RecvRS(s) \/ RecvRA(s))
  BY <1>4 DEF RecvGT, RecvEX, RecvCD, RecvRS, RecvRA, Arrives, RtCode
<1>6. \/ Drop(s) \/ RecvData(s) \/ RecvGTC(s) \/ RecvGTA(s) \/ RecvMAP(s)
      \/ RecvMAA(s) \/ RecvMIP(s) \/ RecvMIA(s) \/ RecvPR(s) \/ RecvED(s)
      \/ RecvAS(s) \/ RecvAI(s) \/ RecvAIA(s) \/ RecvFN(s)
  BY <1>2, <1>3, <1>5, Zenon DEF Read
<1>7. Reads(s)
  BY <1>6, Zenon
     DEF Drop, RecvData, RecvGTC, RecvGTA, RecvMAP, RecvMAA, RecvMIP, RecvMIA, RecvPR,
         RecvED, RecvAS, RecvAI, RecvAIA, RecvFN, Arrives
<1> QED BY <1>6, <1>7

(* What becomes of the preparation and of an exception that was reported.  *)
LEMMA PreparesAfter ==
    ASSUME TypeOK, NEW s \in Side, Carried(s), sb[s].mode = "open", Read(s),
           sb'[s].mode = "open"
    PROVE  \/ RecvPR(s)
           \/ /\ sb'[s].pr = Taken(s).pr
              /\ "ED" \in sb[s].flags => "ED" \in sb'[s].flags
<1> DEFINE m == Incoming(s)
           T == Taken(s)
<1>1. /\ T.flags = sb[s].flags /\ T \in Ssapblk /\ m \in SpduSet /\ Reads(s)
      /\ m.code = "MAP" => m.type = "end"
  BY KeepsReading, FirstRead DEF Reads, OfTransfer
<1> DEFINE Fits == sb'[s].pr = T.pr /\ ("ED" \in sb[s].flags => "ED" \in sb'[s].flags)
<1>2. ASSUME NEW b, Done(s, b), b.pr = T.pr, "ED" \in T.flags => "ED" \in b.flags
      PROVE  Fits
  BY <1>1, <1>2 DEF Done, TypeOK
<1>3. m.ssn \in Int /\ T.V_A \in Int /\ T.V_M \in Int
  BY <1>1 DEF SpduSet, SpduShape, Ssapblk
<1>4. SyncPointOfPeer(T) \in Ssapblk
  BY <1>1, SyncPointTyped
<1>5. SyncPointOfPeer(T).pr = T.pr /\ SyncPointOfPeer(T).flags = T.flags
  BY <1>1 DEF SyncPointOfPeer, Ssapblk
<1> HIDE DEF T, m, Fits
<1>6. ASSUME Drop(s) \/ RecvData(s) PROVE Fits
  BY <1>2, <1>6 DEF Drop, RecvData, T
<1>7. ASSUME RecvGTC(s) PROVE Fits
  <2> DEFINE b == [T EXCEPT !.owned = Tokens]
  <2>1. b.pr = T.pr /\ b.flags = T.flags
    BY <1>1 DEF Ssapblk
  <2>2. sb' = [sb EXCEPT ![s] = T] \/ sb' = [sb EXCEPT ![s] = b]
    BY <1>7 DEF RecvGTC, T, Done
  <2> HIDE DEF b
  <2>3. sb'[s] = T \/ sb'[s] = b
    BY <2>2 DEF TypeOK
  <2> QED BY <1>1, <2>1, <2>3 DEF Fits
<1>8. ASSUME RecvGTA(s) \/ RecvFN(s) PROVE Fits
  BY <1>1, <1>2, <1>8 DEF RecvGTA, RecvFN, T, Ssapblk
<1>9. ASSUME RecvED(s) PROVE Fits
  BY <1>1, <1>2, <1>9 DEF RecvED, T, Ssapblk
<1>10. ASSUME RecvMAP(s) PROVE Fits
  <2> DEFINE c == SyncPointOfPeer(T)
             x == (c.flags \ {"Vnextact"}) \cup {"MAA", "AE"}
  <2>1. m.code = "MAP" /\ m.type = "end"
    BY <1>1, <1>10 DEF RecvMAP, Arrives, m
  <2>2. Done(s, T) \/ Done(s, [c EXCEPT !.flags = x])
    BY <1>10, <2>1 DEF RecvMAP, T, m
  <2>3. [c EXCEPT !.flags = x].pr = T.pr /\ [c EXCEPT !.flags = x].flags = x
    BY <1>4, <1>5 DEF Ssapblk
  <2>4. "ED" \in T.flags => "ED" \in x
    BY <1>5
  <2> DEFINE b == [c EXCEPT !.flags = x]
  <2>5. (Done(s, T) \/ Done(s, b)) /\ b.pr = T.pr /\ b.flags = x
    BY <2>2, <2>3
  <2> HIDE DEF b, x
  <2> QED BY <1>2, <2>4, <2>5
<1>11. ASSUME RecvMAA(s) PROVE Fits
  <2> DEFINE x == ActivityAfterMajor(T.flags) \ {"MAP", "AE"}
             b == [T EXCEPT !.V_A = T.V_M, !.V_R = T.V_M, !.flags = x]
  <2>1. Done(s, T) \/ Done(s, b)
    BY <1>1, <1>11 DEF RecvMAA, T, m
  <2>2. b.pr = T.pr /\ b.flags = x
    BY <1>1 DEF Ssapblk
  <2>3. "ED" \in T.flags => "ED" \in x
    BY DEF ActivityAfterMajor
  <2> HIDE DEF b, x
  <2> QED BY <1>2, <2>1, <2>2, <2>3
<1>12. ASSUME RecvMIP(s) PROVE Fits
  <2> DEFINE c == SyncPointOfPeer(T)
             b == [c EXCEPT !.flags = @ \cup {"Vsc"}]
  <2>1. Done(s, b)
    BY <1>12 DEF RecvMIP, T
  <2>2. b.pr = T.pr /\ b.flags = T.flags \cup {"Vsc"}
    BY <1>4, <1>5 DEF Ssapblk
  <2> HIDE DEF b
  <2> QED BY <1>2, <2>1, <2>2
<1>13. ASSUME RecvMIA(s) PROVE Fits
  <2> DEFINE b == [T EXCEPT !.V_A = m.ssn]
  <2>1. Done(s, T) \/ Done(s, b)
    BY <1>13 DEF RecvMIA, T, m
  <2>2. b.pr = T.pr /\ ("ED" \in T.flags => "ED" \in b.flags)
    BY <1>1 DEF Ssapblk
  <2> HIDE DEF b
  <2> QED BY <1>2, <2>1, <2>2
<1>14. ASSUME RecvAS(s) PROVE Fits
  <2> DEFINE b == InActivity(T, m.ssn + 1)
  <2>1. Done(s, T) \/ Done(s, b)
    BY <1>14 DEF RecvAS, T, m
  <2>2. b.pr = T.pr /\ ("ED" \in T.flags => "ED" \in b.flags)
    BY <1>1 DEF Ssapblk, InActivity
  <2> HIDE DEF b
  <2> QED BY <1>2, <2>1, <2>2
<1>15. ASSUME RecvAI(s) PROVE Fits
  <2> DEFINE b == [T EXCEPT !.flags = (@ \ {"RS", "RA"}) \cup {"AIA"}, !.rs = "intr"]
  <2>1. Done(s, T) \/ Done(s, b)
    BY <1>15 DEF RecvAI, T, m
  <2>2. b.pr = T.pr /\ ("ED" \in T.flags => "ED" \in b.flags)
    BY <1>1 DEF Ssapblk
  <2> HIDE DEF b
  <2> QED BY <1>2, <2>1, <2>2
<1>16. ASSUME RecvAIA(s) PROVE Fits
  <2> DEFINE b == [T EXCEPT !.flags = @ \ {"AI", "Vact"}, !.owned = Tokens]
  <2>1. Done(s, T) \/ Done(s, b)
    BY <1>16 DEF RecvAIA, T, m
  <2>2. b.pr = T.pr /\ ("ED" \in T.flags => "ED" \in b.flags)
    BY <1>1 DEF Ssapblk
  <2> HIDE DEF b
  <2> QED BY <1>2, <2>1, <2>2
<1>17. RecvPR(s) \/ Fits
  BY <1>6, <1>7, <1>8, <1>9, <1>10, <1>11, <1>12, <1>13, <1>14, <1>15, <1>16, KeepsReading
<1> QED BY <1>17 DEF Fits, T

(* What s is told, and when it listens again.                              *)
LEMMA OpenHears ==
    ASSUME TypeOK, NEW s \in Side, Carried(s), sb[s].mode = "open", Read(s),
           sb'[s].mode = "open"
    PROVE  Hearing(s, Indication(s))
<1> DEFINE m == Incoming(s)
           c == m.code
<1>1. /\ Reads(s) /\ m = Head(net[s]) /\ c \in RtCode
      /\ c = "MAP" => ~m.xpd
      /\ Taken(s).pr = IF ~m.xpd /\ EndsPreparation(sb[s].pr, m) THEN "PR" ELSE sb[s].pr
  BY KeepsReading, FirstRead DEF Reads, OfTransfer
<1>2. sb[s].pr \in {"PR", "MAA", "RS", "RA", "AB"}
  BY DEF TypeOK, Ssapblk, PrType
<1>3. ASSUME Heeds(s), c = "DT" PROVE Indication(s) = "data"
  <2>1. ~Dropped(s, sb[s], m) /\ Raises(sb[s], m)
    BY <1>3 DEF Dropped, PreparationDrops, CollisionDrops, ExceptionDrops, Raises, Heeds
  <2> QED BY <1>3, <2>1 DEF Indication, IndicationOf
<1>4. Heeds(s)' => Heeds(s) \/ c \in {"AI", "AD", "AIA"}
  <2>1. CASE RecvPR(s)
    <3>1. sb[s].pr = "PR" /\ Done(s, [Taken(s) EXCEPT !.pr = m.type,
                !.flags = IF m.type = "RS" THEN @ \ {"ED"} ELSE @])
      BY <2>1 DEF RecvPR, Arrives, PrAfterPr
    <3>2. Taken(s) \in Ssapblk /\ Taken(s).flags = sb[s].flags
      BY <1>1, FirstRead DEF Reads
    <3> DEFINE x == IF m.type = "RS" THEN Taken(s).flags \ {"ED"} ELSE Taken(s).flags
    <3>3. sb'[s].pr = m.type /\ sb'[s].flags = x
      BY <3>1, <3>2 DEF Done, TypeOK, Ssapblk
    <3> QED BY <3>1, <3>2, <3>3 DEF Heeds
  <2>2. CASE /\ sb'[s].pr = Taken(s).pr
             /\ "ED" \in sb[s].flags => "ED" \in sb'[s].flags
    <3>1. c # "AB"
      <4>1. ASSUME c = "AB" PROVE FALSE
        <5>1. ~(\/ RecvData(s) \/ RecvGTC(s) \/ RecvGTA(s) \/ RecvMAP(s)
               \/ RecvMAA(s) \/ RecvMIP(s) \/ RecvMIA(s) \/ RecvPR(s) \/ RecvED(s)
               \/ RecvAS(s) \/ RecvAI(s) \/ RecvAIA(s) \/ RecvFN(s))
          BY <4>1 DEF RecvData, RecvGTC, RecvGTA, RecvMAP, RecvMAA, RecvMIP, RecvMIA,
                      RecvPR, RecvED, RecvAS, RecvAI, RecvAIA, RecvFN, Arrives
        <5>2. Dropped(s, sb[s], m)
          BY <5>1, KeepsReading, Zenon DEF Drop
        <5> QED BY <4>1, <5>2
                DEF Dropped, PreparationDrops, EndsPreparation, CollisionDrops, ExceptionDrops
      <4> QED BY <4>1
    <3>2. EndsPreparation(sb[s].pr, m) /\ sb[s].pr \notin {"PR", "MAA"}
            => c \in {"AI", "AD", "AIA"}
      BY <1>1, <1>2, <3>1 DEF EndsPreparation, RtCode
    <3> QED BY <1>1, <1>2, <2>2, <3>2 DEF Heeds
  <2> QED BY <2>1, <2>2, PreparesAfter
<1>5. ASSUME Indication(s) = "endind" PROVE sb'[s].pr \in {"PR", "MAA"}
  <2>1. ~Dropped(s, sb[s], m) /\ Raises(sb[s], m) /\ IndicationOf[c] = "endind"
    BY <1>5 DEF Indication
  <2>2. c = "MAP"
    BY <2>1 DEF IndicationOf, Raises
  <2>3. sb[s].pr \in {"PR", "MAA"}
    BY <1>1, <1>2, <2>1, <2>2 DEF Dropped, PreparationDrops, EndsPreparation
  <2>4. ~RecvPR(s)
    BY <2>2 DEF RecvPR, Arrives
  <2> QED BY <1>1, <2>3, <2>4, PreparesAfter
<1> QED BY <1>1, <1>3, <1>4, <1>5 DEF Hearing

(* While it waits for the answer to a release it only reads that of the    *)
(* other end.                                                              *)
LEMMA WaitingHears ==
    ASSUME TypeOK, NEW s \in Side, Carried(s), sb[s].mode = "waiting", Read(s),
           sb'[s].mode = "waiting"
    PROVE  Head(net[s]).code = "FN"
<1>1. ~ (\E mode, qs : mode # "waiting" /\ freesblk(s, mode, qs))
  <2>1. ASSUME NEW mode, NEW qs, mode # "waiting", freesblk(s, mode, qs) PROVE FALSE
    BY <2>1 DEF freesblk, Freed, newsblk, TypeOK
  <2> QED BY <2>1
<1>2. ~ (RelDN(s) \/ RelAB(s) \/ RelUnexpected(s) \/ Drain(s))
  BY <1>1 DEF RelDN, RelAB, RelUnexpected, ProtocolAbort, Drain
<1>3. ~Reads(s)
  BY DEF Reads
<1>4. ~ (\/ Drop(s) \/ RecvData(s) \/ RecvGT(s) \/ RecvEX(s) \/ RecvCD(s)
         \/ RecvGTC(s) \/ RecvGTA(s) \/ RecvMAP(s) \/ RecvMAA(s) \/ RecvMIP(s)
         \/ RecvMIA(s) \/ RecvRS(s) \/ RecvRA(s) \/ RecvPR(s) \/ RecvED(s)
         \/ RecvAS(s) \/ RecvAI(s) \/ RecvAIA(s) \/ RecvFN(s) \/ RecvAB(s)
         \/ RecvUnexpected(s) \/ RecvTDISC(s))
  BY <1>3, Zenon
     DEF Drop, RecvData, RecvGT, RecvEX, RecvCD, RecvGTC, RecvGTA, RecvMAP, RecvMAA,
         RecvMIP, RecvMIA, RecvRS, RecvRA, RecvPR, RecvED, RecvAS, RecvAI, RecvAIA,
         RecvFN, RecvAB, RecvUnexpected, RecvTDISC, Arrives
<1>5. ~ (RelNF(s) \/ RelRS(s))
  BY FirstRead DEF RelNF, RelRS, Waits, OfTransfer, RtCode
<1>6. RelFN(s)
  BY <1>2, <1>4, <1>5, Zenon DEF Read
<1> QED BY <1>6, FirstRead DEF RelFN, Waits

-----------------------------------------------------------------------------
(* What a step of one side does, seen from its association block, from the *)
(* flags of its session block and from the queues.                         *)

(* A caller inside RtTransferRequest sends: it has the turn and, but for   *)
(* the wait at a full window, the activity goes on.                        *)
Busy(s) ==
    /\ In(s, "TIMER") => acb[s].pc = "end"
    /\ acb[s].pc \in {"data", "ckpoint", "done", "end"} => Sends(s) /\ acb[s].rti = "none"
    /\ acb[s].pc = "window" => In(s, "TURN") /\ WindowFull(acb[s])
    /\ acb[s].rti = "please" => acb[s].pc \in {"user", "release"}
    /\ acb[s].pc \in {"data", "ckpoint", "window"} => acb[s].left >= 1

TransferInv ==
    /\ TypeOK /\ RtTypeOK
    /\ \A s \in Side : Placed(s) /\ Busy(s) /\ Carried(s)

Fields(s, pc, ind, rti) ==
    acb'[s].pc = pc /\ acb'[s].ind = ind /\ acb'[s].rti = rti

SameTurn(s) ==
    \A f \in {"TURN", "ACT", "TIMER"} : f \in acb'[s].flags <=> f \in acb[s].flags

(* The window is as full as it was.                                        *)
SameWindow(s) ==
    acb'[s].left = acb[s].left /\ acb'[s].ssn = acb[s].ssn /\ acb'[s].ack = acb[s].ack

Counts(s) ==
    /\ log'[s].ok = log[s].ok /\ log'[s].taken = log[s].taken
    /\ log'[s].of = log[s].of /\ log'[s].started = log[s].started
    /\ log'[s].size = log[s].size

(* What was received is as long as it was.                                 *)
SameLen(s) == acb'[s].len = acb[s].len

Untouched == sb' = sb /\ net' = net

(* The association is lost; the transfer that was to start counts.         *)
LosesAssoc(s) ==
    /\ Loses(s) /\ Fields(s, "gone", "none", "none") /\ acb'[s].flags = {}
    /\ log'[s].ok = log[s].ok /\ log'[s].taken = log[s].taken /\ log'[s].of = log[s].of
    /\ log'[s].started \in {log[s].started, log[s].started + 1}
    /\ log'[s].started # log[s].started \/ log'[s].size # log[s].size =>
           Idle(s) /\ In(s, "TURN") /\ ~In(s, "ACT")

(* Nothing that matters to turns and transfers.                            *)
StaysPut(s) ==
    /\ Untouched /\ SameTurn(s) /\ SameWindow(s) /\ SameLen(s) /\ Counts(s)
    /\ acb'[s].pc = acb[s].pc /\ acb[s].pc # "gone"
    /\ acb'[s].ind = acb[s].ind /\ acb[s].ind = "none"
    /\ acb'[s].rti \in {"none", "please"}
    /\ acb'[s].rti # "none" => assoc.ros /\ acb[s].pc = "user"

AsksTurn(s) ==
    /\ Puts(s, "PT")
    /\ sb' = sb /\ acb' = acb /\ Counts(s) /\ Idle(s) /\ ~In(s, "TURN")

GivesTurn(s) ==
    /\ Puts(s, "GTC") /\ Steady(s) /\ ssapPsig(sb[s]) /\ "Vact" \notin sb[s].flags
    /\ Needs("ACTIVITY")
    /\ sb'[s].flags = sb[s].flags \cup {"GTC"} /\ sb'[s].owned = {}
    /\ In(s, "TURN") /\ ~In(s, "ACT") /\ acb[s].ind = "none"
    /\ acb'[s].flags = acb[s].flags \ {"TURN", "PLEASE"}
    /\ Fields(s, "user", "none", "none") /\ acb[s].pc = "user"
    /\ SameWindow(s) /\ SameLen(s) /\ Counts(s)

StartsActivity(s) ==
    /\ Puts(s, "AS") /\ Steady(s) /\ ssapPsig(sb[s]) /\ "Vact" \notin sb[s].flags
    /\ Needs("ACTIVITY")
    /\ sb'[s].flags = sb[s].flags \cup {"Vact"} /\ sb'[s].owned = sb[s].owned
    /\ sb'[s].V_M = 1
    /\ IF assoc.ckpoint THEN acb'[s].ssn = 0 /\ acb'[s].ack = 0 ELSE acb'[s].left = 1
    /\ Idle(s) /\ In(s, "TURN") /\ ~In(s, "ACT")
    /\ acb'[s].flags = acb[s].flags \cup {"ACT"} /\ acb'[s].left >= 1
    /\ Fields(s, "data", "none", "none")
    /\ log'[s].ok = log[s].ok /\ log'[s].taken = log[s].taken /\ log'[s].of = log[s].of
    /\ log'[s].started = log[s].started + 1
    /\ acb'[s].left = log'[s].size /\ SameLen(s)

SendsPart(s) ==
    /\ Puts(s, "DT") /\ ssapPsig(sb[s])
    /\ acb'[s].left = acb[s].left - 1 /\ SameLen(s)
    /\ acb'[s].pc = "done" => acb'[s].left = 0
    /\ sb' = sb /\ acb[s].pc = "data" /\ acb'[s].flags = acb[s].flags
    /\ acb'[s].ssn = acb[s].ssn /\ acb'[s].ack = acb[s].ack
    /\ acb[s].left = 1 => acb'[s].pc = "done"
    /\ acb'[s].pc \in {"done", "ckpoint"} /\ acb'[s].ind = "none" /\ acb'[s].rti = "none"
    /\ acb'[s].pc = "ckpoint" => acb'[s].left >= 1
    /\ Counts(s)

SendsCheckpoint(s) ==
    /\ Puts(s, "MIP") /\ Steady(s) /\ ssapPsig(sb[s])
    /\ sb'[s].flags = sb[s].flags \ {"Vsc"} /\ sb'[s].owned = sb[s].owned
    /\ sb'[s].V_M = sb[s].V_M + 1
    /\ acb'[s].ssn = sb[s].V_M /\ acb'[s].ack = acb[s].ack
    /\ acb[s].pc = "ckpoint" /\ acb'[s].flags = acb[s].flags
    /\ acb'[s].left = acb[s].left
    /\ acb'[s].pc = IF WindowFull(acb'[s]) THEN "window" ELSE "data"
    /\ acb'[s].ind = "none" /\ acb'[s].rti = "none"
    /\ SameLen(s) /\ Counts(s)

EndsActivity(s) ==
    /\ Puts(s, "MAP") /\ Steady(s) /\ ssapPsig(sb[s])
    /\ sb'[s].flags = ((sb[s].flags \ {"Vnextact"}) \cup {"AE"} \cup {"MAP"}) \ {"Vsc"}
    /\ sb'[s].owned = sb[s].owned
    /\ acb[s].pc = "done" /\ acb[s].ind = "none" /\ acb'[s].flags = acb[s].flags
    /\ Fields(s, "end", "none", "none") /\ SameLen(s) /\ Counts(s)

(* The activity is interrupted or discarded: by the downtrans upcall, by   *)
(* the time limit, for a request for the turn or for an exception report.  *)
InterruptsActivity(s) ==
    /\ Puts(s, "AI") \/ Puts(s, "AD")
    /\ Steady(s) /\ ssapXsig(sb[s])
    /\ "MAP" \notin sb[s].flags /\ "Vact" \in sb[s].flags
    /\ sb'[s].flags = (sb[s].flags \cup {"AI"}) \ {"RA", "EDACK"}
    /\ sb'[s].owned = sb[s].owned
    /\ sb'[s].V_M = sb[s].V_M
    /\ acb'[s].ind = "none" /\ acb'[s].rti = "none" /\ SameLen(s) /\ Counts(s)
    /\ \/ /\ acb[s].pc \in {"data", "ckpoint"} /\ acb[s].ind = "none"
          /\ acb'[s].pc = "done" /\ acb'[s].flags = acb[s].flags
       \/ /\ acb[s].pc = "ckpoint" /\ acb[s].ind = "none"
          /\ acb'[s].pc = "end" /\ acb'[s].flags = acb[s].flags \cup {"TIMER"}
       \/ /\ acb[s].ind \in {"please", "report"} /\ SameTurn(s) /\ SameWindow(s)
          /\ acb'[s].pc = acb[s].pc /\ In(s, "TURN")

ReportsProblem(s) ==
    /\ Puts(s, "ED") /\ Steady(s) /\ ssapPsig(sb[s])
    /\ "dat" \in Tokens /\ "dat" \notin sb[s].owned
    /\ Needs("ACTIVITY") => "Vact" \in sb[s].flags
    /\ sb'[s].flags = sb[s].flags \cup {"ED"} /\ sb'[s].owned = sb[s].owned
    /\ sb'[s].V_M = sb[s].V_M
    /\ acb[s].ind \in {"data", "minorind", "start", "endind"} /\ ~In(s, "TURN")
    /\ acb'[s].flags = acb[s].flags /\ SameWindow(s) /\ acb'[s].len \in {0, acb[s].len}
    /\ Fields(s, acb[s].pc, "none", "none") /\ Counts(s)

(* An indication is noted: the window may open again.                      *)
NotesIndication(s) ==
    /\ Untouched /\ SameTurn(s) /\ Counts(s)
    /\ acb[s].ind \in {"data", "please", "minorcnf", "finish"}
    /\ acb'[s].ind = "none" /\ acb'[s].rti \in {"none", "please", "close"}
    /\ acb'[s].rti # "none" => assoc.ros /\ acb[s].pc \in {"user", "release"}
    /\ acb'[s].len = acb[s].len + Bit(acb[s].ind = "data")
    /\ acb[s].ind = "data" => Receives(s)
    /\ acb'[s].left = acb[s].left /\ acb'[s].ssn = acb[s].ssn
    /\ acb'[s].ack = IF acb[s].ind = "minorcnf" THEN sb[s].V_A ELSE acb[s].ack
    /\ acb[s].pc = "window" /\ acb'[s].pc = "data" => ~WindowFull(acb'[s])
    /\ \/ acb'[s].pc = acb[s].pc /\ (acb[s].pc = "window" => WindowFull(acb'[s]))
       \/ acb[s].pc = "window" /\ acb'[s].pc = "data" /\ Sends(s)

GainsTurn(s) ==
    /\ Untouched /\ Counts(s) /\ SameWindow(s) /\ SameLen(s)
    /\ acb[s].ind = "control" /\ ~In(s, "ACT")
    /\ acb'[s].flags = acb[s].flags \cup {"TURN"}
    /\ acb'[s].pc = acb[s].pc /\ acb'[s].ind = "none"
    /\ acb'[s].rti \in {"none", "turn"} /\ (acb'[s].rti # "none" => assoc.ros)

ConfirmsCheckpoint(s) ==
    /\ Puts(s, "MIA") /\ Steady(s)
    /\ sb'[s].flags = sb[s].flags /\ sb'[s].owned = sb[s].owned
    /\ sb'[s].V_M = sb[s].V_M
    /\ \E m \in SpduSet : /\ m.code = "MIA" /\ m.ssn = sb[s].V_M - 1
                        /\ Enters(net[Peer(s)], net'[Peer(s)], m)
    /\ acb[s].ind = "minorind" /\ Receives(s) /\ acb'[s].flags = acb[s].flags
    /\ Fields(s, acb[s].pc, "none", "none") /\ SameWindow(s) /\ SameLen(s) /\ Counts(s)

OpensActivity(s) ==
    /\ Untouched /\ Counts(s) /\ SameWindow(s) /\ SameLen(s)
    /\ acb[s].ind = "start" /\ ~In(s, "ACT") /\ ~In(s, "TURN")
    /\ acb'[s].flags = acb[s].flags \cup {"ACT"}
    /\ Fields(s, acb[s].pc, "none", "none")

AcceptsDiscard(s) ==
    /\ Puts(s, "AIA") /\ Steady(s) /\ ssapAsig(sb[s])
    /\ sb'[s].flags = sb[s].flags \ {"AIA", "Vact"} /\ sb'[s].owned = {}
    /\ acb[s].ind = "discind" /\ Receives(s)
    /\ acb'[s].flags = acb[s].flags \ {"ACT"}
    /\ Fields(s, acb[s].pc, "none", "none") /\ acb'[s].len = 0 /\ SameWindow(s) /\ Counts(s)

(* The end or the discard of our activity is confirmed: RtTransferRequest  *)
(* returns if that is what it waits for.                                   *)
ClosesActivity(s) ==
    /\ Untouched /\ acb[s].ind \in {"disccnf", "endcnf"} /\ Sends(s)
    /\ acb'[s].flags \in {acb[s].flags \ {"ACT"}, acb[s].flags \ {"ACT", "TIMER"}}
    /\ acb'[s].pc = "user" => "TIMER" \notin acb'[s].flags
    /\ Fields(s, IF acb[s].pc = "end" THEN "user" ELSE acb[s].pc, "none", "none")
    /\ SameWindow(s) /\ SameLen(s)
    /\ log'[s].ok = log[s].ok + Bit(acb[s].pc = "end" /\ ~In(s, "TIMER"))
    /\ log'[s].taken = log[s].taken /\ log'[s].of = log[s].of
    /\ log'[s].started = log[s].started
    /\ log'[s].size = log[s].size

AcceptsEnd(s) ==
    /\ Puts(s, "MAA") /\ Steady(s) /\ ssapPsig(sb[s])
    /\ sb'[s].flags = ActivityAfterMajor(sb[s].flags) \ {"MAA", "AE"}
    /\ sb'[s].owned = sb[s].owned
    /\ acb[s].ind = "endind" /\ Receives(s)
    /\ acb'[s].flags = acb[s].flags \ {"ACT"} /\ acb'[s].len = 0 /\ SameWindow(s)
    /\ Fields(s, acb[s].pc, "none", IF assoc.ros THEN "transfer" ELSE "none")
    /\ log'[s].taken = log[s].taken + 1 /\ log'[s].of = log[Peer(s)].started
    /\ log'[s].ok = log[s].ok /\ log'[s].started = log[s].started
    /\ log'[s].size = log[s].size

AsksRelease(s) ==
    /\ Puts(s, "FN") /\ sb'[Peer(s)] = sb[Peer(s)]
    /\ sb'[s].flags = sb[s].flags /\ sb'[s].owned = sb[s].owned
    /\ sb'[s].spdu = sb[s].spdu /\ sb'[s].xspdu = sb[s].xspdu
    /\ sb'[s].pr = sb[s].pr /\ sb'[s].mode = "waiting"
    /\ Idle(s) /\ In(s, "TURN") /\ ~In(s, "ACT")
    /\ Fields(s, "release", "none", "none") /\ acb'[s].flags = acb[s].flags
    /\ SameWindow(s) /\ SameLen(s) /\ Counts(s)

LeavesRelease(s) ==
    /\ Puts(s, "DN") /\ sb'[Peer(s)] = sb[Peer(s)]
    /\ sb'[s].flags = {} /\ sb'[s].owned = {} /\ sb'[s].pr = "PR"
    /\ sb'[s].spdu = <<>> /\ ~sb'[s].xspdu /\ sb'[s].mode = "draining"
    /\ Idle(s)
    /\ Fields(s, "gone", "none", "none") /\ acb'[s].flags = {} /\ Counts(s)

(* One SPDU is read, and its indication, if any, is to be worked on.       *)
ReadsNext(s) ==
    /\ Gets(s) /\ Effect(s, acb'[s].ind) /\ sb'[s].mode = sb[s].mode
    /\ sb[s].mode # "open" => acb'[s].ind = "none" /\ sb'[s].flags = sb[s].flags
    /\ sb[s].mode = "open" => acb'[s].ind = Indication(s)
    /\ sb[s].mode = "open" => Hearing(s, acb'[s].ind)
    /\ sb[s].mode = "waiting" => Head(net[s]).code = "FN" /\ sb'[s].pr = sb[s].pr
    /\ acb[s].pc \in {"user", "window", "end", "release", "gone"}
    /\ acb[s].ind = "none" /\ acb[s].rti = "none" /\ acb'[s].rti = "none"
    /\ acb'[s].pc = acb[s].pc /\ acb'[s].flags = acb[s].flags
    /\ SameWindow(s) /\ SameLen(s) /\ Counts(s)

Event(s) ==
    \/ LosesAssoc(s) \/ StaysPut(s) \/ AsksTurn(s) \/ GivesTurn(s) \/ StartsActivity(s)
    \/ SendsPart(s) \/ SendsCheckpoint(s) \/ EndsActivity(s) \/ InterruptsActivity(s)
    \/ ReportsProblem(s) \/ NotesIndication(s) \/ GainsTurn(s) \/ ConfirmsCheckpoint(s)
    \/ OpensActivity(s) \/ AcceptsDiscard(s) \/ ClosesActivity(s) \/ AcceptsEnd(s)
    \/ AsksRelease(s) \/ LeavesRelease(s) \/ ReadsNext(s)

(* The other side's block is its own, and everything keeps its type.       *)
Frame(s) ==
    /\ acb'[Peer(s)] = acb[Peer(s)] /\ log'[Peer(s)] = log[Peer(s)]
    /\ assoc' = assoc /\ RtTypeOK'

(* The block of one side is replaced.                                      *)
LEMMA SetsAcb ==
    ASSUME RtTypeOK, NEW s \in Side, NEW a \in assocblk, acb' = [acb EXCEPT ![s] = a]
    PROVE  acb'[s] = a /\ acb'[Peer(s)] = acb[Peer(s)] /\ acb' \in [Side -> assocblk]
BY DEF RtTypeOK, Peer, Side

(* The fields of an association block.                                     *)
LEMMA AcbFields ==
    ASSUME NEW a \in assocblk
    PROVE  /\ \A x \in SUBSET AcFlag :
                /\ [a EXCEPT !.flags = x] \in assocblk /\ [a EXCEPT !.flags = x].flags = x
                /\ [a EXCEPT !.flags = x].pc = a.pc /\ [a EXCEPT !.flags = x].ind = a.ind
                /\ [a EXCEPT !.flags = x].rti = a.rti /\ [a EXCEPT !.flags = x].left = a.left
                /\ [a EXCEPT !.flags = x].ssn = a.ssn /\ [a EXCEPT !.flags = x].ack = a.ack
                /\ [a EXCEPT !.flags = x].len = a.len
           /\ \A x \in Nat :
                /\ [a EXCEPT !.len = x] \in assocblk /\ [a EXCEPT !.len = x].flags = a.flags
                /\ [a EXCEPT !.len = x].pc = a.pc /\ [a EXCEPT !.len = x].ind = a.ind
                /\ [a EXCEPT !.len = x].rti = a.rti /\ [a EXCEPT !.len = x].left = a.left
                /\ [a EXCEPT !.len = x].ssn = a.ssn /\ [a EXCEPT !.len = x].ack = a.ack
           /\ \A x \in Rti :
                /\ [a EXCEPT !.rti = x] \in assocblk /\ [a EXCEPT !.rti = x].flags = a.flags
                /\ [a EXCEPT !.rti = x].pc = a.pc /\ [a EXCEPT !.rti = x].ind = a.ind
                /\ [a EXCEPT !.rti = x].rti = x /\ [a EXCEPT !.rti = x].left = a.left
                /\ [a EXCEPT !.rti = x].ssn = a.ssn /\ [a EXCEPT !.rti = x].ack = a.ack
                /\ [a EXCEPT !.rti = x].len = a.len
           /\ \A x \in Ind :
                /\ [a EXCEPT !.ind = x] \in assocblk /\ [a EXCEPT !.ind = x].flags = a.flags
                /\ [a EXCEPT !.ind = x].pc = a.pc /\ [a EXCEPT !.ind = x].ind = x
                /\ [a EXCEPT !.ind = x].rti = a.rti /\ [a EXCEPT !.ind = x].left = a.left
                /\ [a EXCEPT !.ind = x].ssn = a.ssn /\ [a EXCEPT !.ind = x].ack = a.ack
                /\ [a EXCEPT !.ind = x].len = a.len
           /\ \A x \in Pc :
                /\ [a EXCEPT !.pc = x] \in assocblk /\ [a EXCEPT !.pc = x].flags = a.flags
                /\ [a EXCEPT !.pc = x].pc = x /\ [a EXCEPT !.pc = x].ind = a.ind
                /\ [a EXCEPT !.pc = x].rti = a.rti /\ [a EXCEPT !.pc = x].left = a.left
                /\ [a EXCEPT !.pc = x].ssn = a.ssn /\ [a EXCEPT !.pc = x].ack = a.ack
                /\ [a EXCEPT !.pc = x].len = a.len
           /\ \A x \in Int :
                /\ [a EXCEPT !.ack = x] \in assocblk /\ [a EXCEPT !.ack = x].flags = a.flags
                /\ [a EXCEPT !.ack = x].pc = a.pc /\ [a EXCEPT !.ack = x].ind = a.ind
                /\ [a EXCEPT !.ack = x].rti = a.rti /\ [a EXCEPT !.ack = x].left = a.left
                /\ [a EXCEPT !.ack = x].ssn = a.ssn /\ [a EXCEPT !.ack = x].ack = x
                /\ [a EXCEPT !.ack = x].len = a.len
           /\ a.flags \in SUBSET AcFlag /\ a.pc \in Pc /\ a.ind \in Ind /\ a.rti \in Rti
           /\ a.left \in Nat /\ a.ssn \in Int /\ a.ack \in Int /\ a.len \in Nat
BY DEF assocblk

(* What a user has seen.                                                   *)
LEMMA LogTyped ==
    ASSUME RtTypeOK, NEW s \in Side
    PROVE  /\ log[s].ok \in Nat /\ log[s].taken \in Nat /\ log[s].of \in Nat
           /\ log[s].started \in Nat /\ log[s].refused \in Nat /\ log[s].size \in Nat
           /\ Refuses(s) => /\ log' \in [Side -> Log] /\ log'[Peer(s)] = log[Peer(s)]
                            /\ Counts(s)
BY DEF RtTypeOK, Log, Refuses, Counts, Peer, Side

(* Losing the association, seen that way.                                  *)
LEMMA LosingFields ==
    ASSUME TransferInv, NEW s \in Side, rtpktlose(s)
    PROVE  /\ Loses(s) /\ Fields(s, "gone", "none", "none") /\ acb'[s].flags = {}
           /\ acb'[Peer(s)] = acb[Peer(s)] /\ acb' \in [Side -> assocblk]
<1>1. Conveys(net[Peer(s)])
  BY PeerSide DEF TransferInv, Carried
<1>2. Loses(s)
  BY <1>1, AbortLoses DEF TransferInv
<1> DEFINE g == [NewAcb({}) EXCEPT !.pc = "gone"]
<1>3. g \in assocblk /\ g.pc = "gone" /\ g.ind = "none" /\ g.rti = "none" /\ g.flags = {}
  BY DEF NewAcb, assocblk, Pc, Ind, Rti
<1>4. acb' = [acb EXCEPT ![s] = g]
  BY DEF rtpktlose, Gone
<1> HIDE DEF g
<1> QED BY <1>2, <1>3, <1>4, SetsAcb DEF TransferInv, Fields

(* An association that is lost while the user's account stays as it is.    *)
LEMMA LosingEvent ==
    ASSUME TransferInv, NEW s \in Side, rtpktlose(s), UNCHANGED assoc,
           UNCHANGED log \/ Refuses(s)
    PROVE  LosesAssoc(s) /\ Frame(s)
<1>1. /\ log' \in [Side -> Log] /\ log'[Peer(s)] = log[Peer(s)] /\ Counts(s)
  BY LogTyped DEF TransferInv, RtTypeOK, Counts
<1>2. RtTypeOK'
  BY <1>1, LosingFields DEF TransferInv, RtTypeOK
<1> QED BY <1>1, <1>2, LosingFields DEF LosesAssoc, Frame, Counts

(* An indication that is done with: the loop that waits looks again.       *)
LEMMA HandledFields ==
    ASSUME RtTypeOK, NEW s \in Side, NEW a \in assocblk, Handled(s, a), UNCHANGED assoc,
           a.pc \in {"user", "window", "end", "release"}, a.pc = acb[s].pc
    PROVE  /\ acb'[s].ind = "none" /\ acb'[s].rti = a.rti
           /\ acb'[s].left = a.left /\ acb'[s].ssn = a.ssn /\ acb'[s].ack = a.ack
           /\ acb'[s].len = a.len
           /\ acb'[s].pc = IF a.pc = "window" /\ ~WindowFull(a) THEN "data"
                           ELSE IF a.pc = "end" /\ "ACT" \notin a.flags THEN "user" ELSE a.pc
           /\ acb'[s].flags = IF acb'[s].pc = "user" THEN a.flags \ {"TIMER"} ELSE a.flags
           /\ log'[s].ok = log[s].ok + Bit(/\ a.pc = "end" /\ acb'[s].pc = "user"
                                           /\ "TIMER" \notin a.flags)
           /\ log'[s].taken = log[s].taken /\ log'[s].of = log[s].of
           /\ log'[s].started = log[s].started /\ log'[s].size = log[s].size
           /\ Frame(s)
<1> DEFINE pc2 == IF a.pc = "window" /\ ~WindowFull(a) THEN "data"
                  ELSE IF a.pc = "end" /\ "ACT" \notin a.flags THEN "user" ELSE a.pc
           b == [a EXCEPT !.ind = "none"]
           c == [b EXCEPT !.pc = pc2]
<1>1. pc2 \in Pc /\ "none" \in Ind
  BY DEF Pc, Ind
<1>2. /\ b \in assocblk /\ b.flags = a.flags /\ b.ind = "none" /\ b.rti = a.rti
      /\ b.left = a.left /\ b.ssn = a.ssn /\ b.ack = a.ack /\ b.len = a.len
  BY <1>1, AcbFields, Zenon
<1>3. Continues(a) = c
  BY DEF Continues
<1> HIDE DEF b, pc2
<1>4. /\ c \in assocblk /\ c.flags = a.flags /\ c.ind = "none" /\ c.rti = a.rti
      /\ c.left = a.left /\ c.ssn = a.ssn /\ c.ack = a.ack /\ c.pc = pc2
      /\ c.len = a.len
  BY <1>1, <1>2, AcbFields, Zenon
<1> HIDE DEF c
<1> DEFINE d == Settled(c)
<1>5. /\ d \in assocblk /\ d.ind = "none" /\ d.rti = a.rti /\ d.pc = pc2
      /\ d.left = a.left /\ d.ssn = a.ssn /\ d.ack = a.ack /\ d.len = a.len
      /\ d.flags = IF pc2 = "user" THEN a.flags \ {"TIMER"} ELSE a.flags
  <2>1. c.flags \ {"TIMER"} \in SUBSET AcFlag
    BY <1>4, AcbFields
  <2> QED BY <1>4, <2>1, AcbFields DEF Settled
<1>6. acb' = [acb EXCEPT ![s] = d]
  BY <1>3 DEF Handled
<1> HIDE DEF d
<1>7. acb'[s] = d /\ acb'[Peer(s)] = acb[Peer(s)] /\ acb' \in [Side -> assocblk]
  BY <1>5, <1>6, SetsAcb
<1>8. log' = IF a.pc = "end" /\ pc2 = "user" /\ "TIMER" \notin a.flags
             THEN [log EXCEPT ![s].ok = @ + 1] ELSE log
  BY <1>3, <1>4 DEF Handled, Transferred
<1>9. /\ log' \in [Side -> Log] /\ log'[Peer(s)] = log[Peer(s)]
      /\ log'[s].ok = log[s].ok + Bit(a.pc = "end" /\ pc2 = "user" /\ "TIMER" \notin a.flags)
      /\ log'[s].taken = log[s].taken /\ log'[s].of = log[s].of
      /\ log'[s].started = log[s].started /\ log'[s].size = log[s].size
  BY <1>8 DEF RtTypeOK, Log, Peer, Side, Bit
<1>10. RtTypeOK'
  BY <1>7, <1>9 DEF RtTypeOK
<1>11. Frame(s)
  BY <1>7, <1>9, <1>10 DEF Frame
<1> QED BY <1>5, <1>7, <1>9, <1>11 DEF pc2

(* ... and if nothing the loop waits for has changed, it goes on waiting.  *)
LEMMA HandledSame ==
    ASSUME TransferInv, NEW s \in Side, NEW a \in assocblk, Handled(s, a), UNCHANGED assoc,
           acb[s].ind # "none", a.pc = acb[s].pc,
           a.left = acb[s].left, a.ssn = acb[s].ssn, a.ack = acb[s].ack,
           acb[s].pc = "end" => "ACT" \in a.flags,
           "TIMER" \in a.flags <=> In(s, "TIMER")
    PROVE  /\ acb'[s].len = a.len
           /\ acb'[s].pc = acb[s].pc /\ acb'[s].ind = "none" /\ acb'[s].rti = a.rti
           /\ acb'[s].flags = a.flags /\ SameWindow(s) /\ Counts(s) /\ Frame(s)
<1>1. /\ RtTypeOK /\ Busy(s)
      /\ acb[s].pc \in {"user", "window", "end", "release"}
  BY DEF TransferInv, Placed
<1>2. acb[s].pc = "window" => WindowFull(a)
  BY <1>1 DEF Busy, WindowFull
<1>3. /\ acb'[s].pc = IF a.pc = "window" /\ ~WindowFull(a) THEN "data"
                      ELSE IF a.pc = "end" /\ "ACT" \notin a.flags THEN "user" ELSE a.pc
      /\ acb'[s].flags = IF acb'[s].pc = "user" THEN a.flags \ {"TIMER"} ELSE a.flags
      /\ log'[s].ok = log[s].ok + Bit(/\ a.pc = "end" /\ acb'[s].pc = "user"
                                      /\ "TIMER" \notin a.flags)
      /\ acb'[s].ind = "none" /\ acb'[s].rti = a.rti
      /\ acb'[s].left = a.left /\ acb'[s].ssn = a.ssn /\ acb'[s].ack = a.ack
      /\ acb'[s].len = a.len
      /\ log'[s].taken = log[s].taken /\ log'[s].of = log[s].of
      /\ log'[s].started = log[s].started /\ log'[s].size = log[s].size
      /\ Frame(s)
  BY <1>1, HandledFields
<1>4. acb'[s].pc = acb[s].pc
  BY <1>2, <1>3
<1>5. acb'[s].flags = a.flags
  <2>1. acb'[s].pc = "user" => "TIMER" \notin a.flags
    BY <1>1, <1>4 DEF Busy
  <2>2. a.flags \in SUBSET AcFlag
    BY AcbFields
  <2> QED BY <1>3, <2>1, <2>2
<1>6. log'[s].ok = log[s].ok
  <2>1. ~(a.pc = "end" /\ acb'[s].pc = "user")
    BY <1>4
  <2>2. log[s].ok \in Nat
    BY <1>1, LogTyped
  <2> QED BY <1>3, <2>1, <2>2 DEF Bit
<1> QED BY <1>3, <1>4, <1>5, <1>6 DEF SameWindow, Counts

(* What TransferInv says of one side.                                      *)
LEMMA SideInv ==
    ASSUME TransferInv, NEW s \in Side
    PROVE  /\ TypeOK /\ RtTypeOK /\ Ready(s)
           /\ Placed(s) /\ Busy(s) /\ Carried(s) /\ Conveys(net[Peer(s)])
           /\ acb[s] \in assocblk /\ acb[s].flags \in SUBSET AcFlag /\ acb[s].left \in Nat
           /\ acb[s].ssn \in Int /\ acb[s].ack \in Int /\ acb[s].len \in Nat
           /\ sb[s] \in Ssapblk /\ sb[s].V_M \in Int
<1>1. acb[s] \in assocblk /\ sb[s] \in Ssapblk
  BY DEF TransferInv, RtTypeOK, TypeOK
<1>2. /\ acb[s].flags \in SUBSET AcFlag /\ acb[s].left \in Nat
      /\ acb[s].ssn \in Int /\ acb[s].ack \in Int /\ acb[s].len \in Nat
  BY <1>1 DEF assocblk
<1>3. sb[s].V_M \in Int
  BY <1>1 DEF Ssapblk
<1> QED BY <1>1, <1>2, <1>3, PeerSide DEF TransferInv, Ready, Carried

(* Nothing else than the association block of s changes.                   *)
LEMMA OwnFrame ==
    ASSUME TransferInv, NEW s \in Side, UNCHANGED <<assoc, log>>,
           NEW a \in assocblk, acb' = [acb EXCEPT ![s] = a]
    PROVE  acb'[s] = a /\ Frame(s) /\ Counts(s)
<1>1. /\ acb'[s] = a /\ acb'[Peer(s)] = acb[Peer(s)] /\ acb' \in [Side -> assocblk]
  BY SetsAcb DEF TransferInv
<1> QED BY <1>1 DEF TransferInv, RtTypeOK, Frame, Counts

-----------------------------------------------------------------------------
(* The calls of a user.                                                    *)

(* RtPTurnRequest asks for the turn, or loses the association.             *)
LEMMA PleaseEvent ==
    ASSUME TransferInv, NEW s \in Side, Idle(s), rt2sspturn(s), UNCHANGED assoc
    PROVE  (AsksTurn(s) \/ LosesAssoc(s)) /\ Frame(s)
<1>1. /\ log' \in [Side -> Log] /\ log'[Peer(s)] = log[Peer(s)] /\ Counts(s)
      /\ ~In(s, "TURN")
  BY SideInv DEF rt2sspturn, RtTypeOK, Log, Peer, Side, Counts
<1>2. CASE PleaseForTurn(s) /\ acb' = [acb EXCEPT ![s] = acb[s]]
  <2>1. Puts(s, "PT") /\ sb' = sb
    BY <1>2, SideInv, DataRequests DEF PleaseForTurn
  <2>2. acb' = acb
    BY <1>2, SideInv DEF RtTypeOK
  <2>3. Frame(s)
    BY <1>1, <2>2, SideInv DEF Frame, RtTypeOK
  <2> QED BY <1>1, <2>1, <2>2, <2>3 DEF AsksTurn
<1>3. CASE rtpktlose(s)
  <2>1. RtTypeOK'
    BY <1>1, <1>3, LosingFields, SideInv DEF RtTypeOK
  <2> QED BY <1>1, <1>3, <2>1, LosingFields DEF LosesAssoc, Frame, Counts
<1> QED BY <1>2, <1>3 DEF rt2sspturn, Performs

(* RtGTurnRequest gives it, or loses the association.                      *)
LEMMA GiveEvent ==
    ASSUME TransferInv, NEW s \in Side, NEW a \in assocblk, rt2ssgturn(s, a),
           MayGiveTurn(s), UNCHANGED <<assoc, log>>, acb[s].ind = "none",
           acb[s].pc = "user",
           a.flags = acb[s].flags, a.pc = acb[s].pc, a.ind = "none", a.rti = "none",
           a.left = acb[s].left, a.ssn = acb[s].ssn, a.ack = acb[s].ack,
           a.len = acb[s].len
    PROVE  (GivesTurn(s) \/ LosesAssoc(s)) /\ Frame(s)
<1> DEFINE b == [a EXCEPT !.flags = @ \ {"TURN", "PLEASE"}]
<1>1. /\ b \in assocblk /\ b.flags = a.flags \ {"TURN", "PLEASE"} /\ b.pc = a.pc
      /\ b.ind = a.ind /\ b.rti = a.rti
      /\ b.left = a.left /\ b.ssn = a.ssn /\ b.ack = a.ack /\ b.len = a.len
  <2>1. a.flags \ {"TURN", "PLEASE"} \in SUBSET AcFlag
    BY AcbFields
  <2> QED BY <2>1, AcbFields
<1>2. CASE SGControlRequest(s) /\ acb' = [acb EXCEPT ![s] = b]
  <2> HIDE DEF b
  <2>1. acb'[s] = b /\ Frame(s) /\ Counts(s)
    BY <1>1, <1>2, OwnFrame
  <2> QED BY <1>1, <1>2, <2>1, SideInv, ControlRequest
          DEF GivesTurn, Fields, MayGiveTurn, SameWindow, SameLen
<1>3. CASE rtpktlose(s)
  BY <1>3, LosingEvent
<1> QED BY <1>2, <1>3 DEF rt2ssgturn, Performs

(* RtTransferRequest starts an activity, or loses the association.         *)
LEMMA StartEvent ==
    ASSUME TransferInv, NEW s \in Side, NEW size \in 1..MaxChunks, rt2sstrans(s, size),
           Idle(s), UNCHANGED assoc
    PROVE  (StartsActivity(s) \/ LosesAssoc(s)) /\ Frame(s)
<1> DEFINE a == [acb[s] EXCEPT !.flags = @ \cup {"ACT"}, !.pc = "data", !.left = size,
                               !.ssn = IF assoc.ckpoint THEN 0 ELSE @,
                               !.ack = IF assoc.ckpoint THEN 0 ELSE @]
<1>1. /\ a \in assocblk /\ a.flags = acb[s].flags \cup {"ACT"} /\ a.pc = "data"
      /\ a.left = size /\ size >= 1 /\ a.ind = acb[s].ind /\ a.rti = acb[s].rti
      /\ assoc.ckpoint => a.ssn = 0 /\ a.ack = 0
      /\ a.len = acb[s].len
  <2>1. acb[s] \in assocblk /\ size \in Nat /\ size >= 1
    BY SideInv, MaxChunksAssumption
  <2> DEFINE f == acb[s].flags \cup {"ACT"}
             x == IF assoc.ckpoint THEN 0 ELSE acb[s].ssn
             y == IF assoc.ckpoint THEN 0 ELSE acb[s].ack
  <2>2. f \in SUBSET AcFlag /\ "data" \in Pc /\ x \in Int /\ y \in Int
    BY SideInv DEF AcFlag, Pc
  <2> DEFINE b == acb[s]
  <2>3. a = [b EXCEPT !.flags = f, !.pc = "data", !.left = size, !.ssn = x, !.ack = y]
    OBVIOUS
  <2>4. b \in assocblk
    BY <2>1
  <2> HIDE DEF a, b, f, x, y
  <2>5. /\ a \in assocblk /\ a.flags = f /\ a.pc = "data" /\ a.left = size
        /\ a.ind = b.ind /\ a.rti = b.rti /\ a.ssn = x /\ a.ack = y /\ a.len = b.len
    BY <2>1, <2>2, <2>3, <2>4 DEF assocblk
  <2> QED BY <2>1, <2>5 DEF f, b, x, y
<1>2. /\ log' \in [Side -> Log] /\ log'[Peer(s)] = log[Peer(s)]
      /\ log'[s].ok = log[s].ok /\ log'[s].taken = log[s].taken /\ log'[s].of = log[s].of
      /\ log'[s].started = log[s].started + 1 /\ log'[s].size = size
      /\ In(s, "TURN") /\ ~In(s, "ACT") /\ (~assoc.ckpoint => size = 1)
  BY SideInv, MaxChunksAssumption DEF rt2sstrans, RtTypeOK, Log, Peer, Side
<1>3. CASE SActStartRequest(s) /\ acb' = [acb EXCEPT ![s] = a]
  <2> HIDE DEF a
  <2>1. /\ acb'[s] = a /\ acb'[Peer(s)] = acb[Peer(s)] /\ acb' \in [Side -> assocblk]
    BY <1>1, <1>3, SetsAcb, SideInv
  <2>2. Frame(s)
    BY <1>2, <2>1, SideInv DEF Frame, RtTypeOK
  <2> QED BY <1>1, <1>2, <1>3, <2>1, <2>2, SideInv, StartRequest
          DEF StartsActivity, Fields, Idle, SameLen
<1>4. CASE rtpktlose(s)
  <2>1. RtTypeOK'
    BY <1>2, <1>4, LosingFields, SideInv DEF RtTypeOK
  <2> QED BY <1>2, <1>4, <2>1, LosingFields DEF LosesAssoc, Frame
<1> QED BY <1>3, <1>4 DEF rt2sstrans, Performs

-----------------------------------------------------------------------------
(* Inside RtTransferRequest.                                               *)

(* One part of the APDU is sent.                                           *)
LEMMA PartEvent ==
    ASSUME TransferInv, NEW s \in Side, SendPart(s)
    PROVE  (SendsPart(s) \/ LosesAssoc(s)) /\ Frame(s)
<1> DEFINE a == [acb[s] EXCEPT !.left = @ - 1,
                               !.pc = IF acb[s].left = 1 THEN "done" ELSE "ckpoint"]
<1>1. /\ a \in assocblk /\ a.flags = acb[s].flags
      /\ a.pc \in {"done", "ckpoint"} /\ (a.pc = "ckpoint" => a.left >= 1)
      /\ a.ind = "none" /\ a.rti = "none" /\ a.ssn = acb[s].ssn /\ a.ack = acb[s].ack
      /\ acb[s].left = 1 => a.pc = "done"
      /\ a.left = acb[s].left - 1 /\ a.len = acb[s].len
      /\ a.pc = "done" => a.left = 0
  <2>1. /\ acb[s].left >= 1 /\ acb[s] \in assocblk
        /\ acb[s].ind = "none" /\ acb[s].rti = "none"
    <3>1. acb[s].pc = "data"
      BY DEF SendPart
    <3>2. Busy(s) /\ Placed(s) /\ acb[s] \in assocblk
      BY SideInv
    <3> QED BY <3>1, <3>2 DEF Busy, Placed
  <2> DEFINE p == IF acb[s].left = 1 THEN "done" ELSE "ckpoint"
             n == acb[s].left - 1
  <2>2. p \in Pc /\ p \in {"done", "ckpoint"} /\ n \in Nat /\ (p = "ckpoint" => n >= 1)
        /\ (p = "done" => n = 0)
    BY <2>1, SideInv DEF Pc
  <2> DEFINE b == acb[s]
  <2>3. a = [b EXCEPT !.left = n, !.pc = p]
    OBVIOUS
  <2>4. b \in assocblk
    BY <2>1
  <2> HIDE DEF a, b, p, n
  <2>5. /\ a \in assocblk /\ a.flags = b.flags /\ a.pc = p /\ a.left = n
        /\ a.ind = b.ind /\ a.rti = b.rti /\ a.ssn = b.ssn /\ a.ack = b.ack
        /\ a.len = b.len
    BY <2>2, <2>3, <2>4 DEF assocblk
  <2> QED BY <2>1, <2>2, <2>5 DEF b, p, n
<1>2. CASE SDataRequest(s) /\ acb' = [acb EXCEPT ![s] = a]
  <2> HIDE DEF a
  <2>1. acb'[s] = a /\ Frame(s) /\ Counts(s)
    BY <1>1, <1>2, OwnFrame DEF SendPart
  <2>2. Puts(s, "DT") /\ sb' = sb /\ ssapPsig(sb[s])
    BY <1>2, SideInv, DataRequests
  <2> QED BY <1>1, <2>1, <2>2 DEF SendsPart, SendPart, SameLen
<1>3. CASE rtpktlose(s)
  BY <1>3, LosingEvent DEF SendPart
<1> QED BY <1>2, <1>3 DEF SendPart, Performs

(* A checkpoint is set, and the sender may have to wait.                   *)
LEMMA CheckpointEvent ==
    ASSUME TransferInv, NEW s \in Side, Checkpoint(s)
    PROVE  (SendsCheckpoint(s) \/ LosesAssoc(s)) /\ Frame(s)
<1> DEFINE b == [acb[s] EXCEPT !.ssn = sb[s].V_M]
           a == [b EXCEPT !.pc = IF WindowFull(b) THEN "window" ELSE "data"]
<1>1. /\ b \in assocblk /\ b.flags = acb[s].flags /\ b.left = acb[s].left
      /\ b.ind = "none" /\ b.rti = "none" /\ b.ssn = sb[s].V_M /\ b.ack = acb[s].ack
      /\ b.len = acb[s].len
  <2>1. /\ acb[s].pc = "ckpoint" /\ Placed(s) /\ Busy(s) /\ acb[s] \in assocblk
        /\ sb[s].V_M \in Int
    BY SideInv DEF Checkpoint
  <2>2. acb[s].ind = "none" /\ acb[s].rti = "none" /\ acb[s].pc \in Pc
    BY <2>1 DEF Placed, Busy, Pc
  <2> DEFINE c == acb[s]
             x == sb[s].V_M
  <2>3. b = [c EXCEPT !.pc = c.pc, !.ssn = x]
    BY <2>1 DEF assocblk
  <2>4. c \in assocblk /\ x \in Int /\ c.pc \in Pc
    BY <2>1, <2>2
  <2> HIDE DEF b, c, x
  <2>5. /\ b \in assocblk /\ b.flags = c.flags /\ b.left = c.left
        /\ b.ind = c.ind /\ b.rti = c.rti /\ b.ssn = x /\ b.ack = c.ack /\ b.len = c.len
    BY <2>3, <2>4 DEF assocblk
  <2> QED BY <2>2, <2>5 DEF c, x
<1>2. /\ a \in assocblk /\ a.flags = b.flags /\ a.left = b.left /\ a.ind = b.ind
      /\ a.rti = b.rti /\ a.ssn = b.ssn /\ a.ack = b.ack /\ a.len = b.len
      /\ a.pc = IF WindowFull(b) THEN "window" ELSE "data"
  <2>1. (IF WindowFull(b) THEN "window" ELSE "data") \in Pc
    BY DEF Pc
  <2> HIDE DEF b
  <2> QED BY <1>1, <2>1, AcbFields
<1>3. WindowFull(a) <=> WindowFull(b)
  BY <1>2 DEF WindowFull
<1>4. CASE SMinSyncRequest(s) /\ acb' = [acb EXCEPT ![s] = a]
  <2> HIDE DEF a, b
  <2>1. acb'[s] = a /\ Frame(s) /\ Counts(s) /\ assoc' = assoc
    BY <1>2, <1>4, OwnFrame DEF Checkpoint
  <2> QED BY <1>1, <1>2, <1>3, <1>4, <2>1, SideInv, MinorRequest
          DEF SendsCheckpoint, Checkpoint, SameLen
<1>5. CASE rtpktlose(s)
  BY <1>5, LosingEvent DEF Checkpoint
<1> QED BY <1>4, <1>5 DEF Checkpoint, Performs

(* The activity's end is asked for.                                        *)
LEMMA EndEvent ==
    ASSUME TransferInv, NEW s \in Side, EndActivity(s)
    PROVE  (EndsActivity(s) \/ LosesAssoc(s)) /\ Frame(s)
<1> DEFINE a == [acb[s] EXCEPT !.pc = "end", !.ssn = sb[s].V_M]
<1>1. /\ a \in assocblk /\ a.flags = acb[s].flags /\ a.pc = "end"
      /\ a.ind = "none" /\ a.rti = "none" /\ acb[s].ind = "none"
      /\ a.len = acb[s].len
  <2>1. /\ acb[s].pc = "done" /\ Placed(s) /\ Busy(s) /\ acb[s] \in assocblk
        /\ sb[s].V_M \in Int
    BY SideInv DEF EndActivity
  <2>2. acb[s].ind = "none" /\ acb[s].rti = "none" /\ "end" \in Pc
    BY <2>1 DEF Placed, Busy, Pc
  <2> DEFINE c == acb[s]
             x == sb[s].V_M
  <2>3. a = [c EXCEPT !.pc = "end", !.ssn = x]
    OBVIOUS
  <2>4. c \in assocblk /\ x \in Int
    BY <2>1
  <2> HIDE DEF a, c, x
  <2>5. /\ a \in assocblk /\ a.flags = c.flags /\ a.pc = "end"
        /\ a.ind = c.ind /\ a.rti = c.rti /\ a.len = c.len
    BY <2>2, <2>3, <2>4 DEF assocblk
  <2> QED BY <2>2, <2>5 DEF c
<1>2. CASE SActEndRequest(s) /\ acb' = [acb EXCEPT ![s] = a]
  <2> HIDE DEF a
  <2>1. acb'[s] = a /\ Frame(s) /\ Counts(s)
    BY <1>1, <1>2, OwnFrame DEF EndActivity
  <2> QED BY <1>1, <1>2, <2>1, SideInv, EndRequest DEF EndsActivity, EndActivity, Fields, SameLen
<1>3. CASE rtpktlose(s)
  BY <1>3, LosingEvent DEF EndActivity
<1> QED BY <1>2, <1>3 DEF EndActivity, Performs

(* A transfer that is given up asks for the activity to be discarded.      *)
LEMMA StopEvents ==
    ASSUME TransferInv, NEW s \in Side, BadTransfer(s) \/ TimeLimit(s)
    PROVE  (InterruptsActivity(s) \/ LosesAssoc(s)) /\ Frame(s)
<1>1. acb[s].ind = "none" /\ acb[s].rti = "none"
  <2>1. acb[s].pc \in {"data", "ckpoint"} /\ Busy(s) /\ Placed(s)
    BY SideInv DEF BadTransfer, TimeLimit
  <2> QED BY <2>1 DEF Busy, Placed
<1>2. CASE BadTransfer(s)
  <2> DEFINE a == [acb[s] EXCEPT !.pc = "done"]
  <2>1. /\ a \in assocblk /\ a.flags = acb[s].flags /\ a.pc = "done"
        /\ a.ind = "none" /\ a.rti = "none" /\ a.len = acb[s].len
    <3>1. acb[s] \in assocblk
      BY SideInv
    <3> QED BY <1>1, <3>1 DEF assocblk, Pc
  <2>2. /\ log' \in [Side -> Log] /\ log'[Peer(s)] = log[Peer(s)] /\ Counts(s)
    BY <1>2, SideInv, LogTyped DEF BadTransfer
  <2>3. CASE SActDiscRequest(s) /\ acb' = [acb EXCEPT ![s] = a]
    <3> HIDE DEF a
    <3>1. /\ acb'[s] = a /\ acb'[Peer(s)] = acb[Peer(s)] /\ acb' \in [Side -> assocblk]
      BY <2>1, <2>3, SetsAcb, SideInv
    <3>2. Frame(s)
      BY <1>2, <2>2, <3>1, SideInv DEF Frame, RtTypeOK, BadTransfer
    <3>3. SActIntrRequest(s)
      BY <2>3 DEF SActDiscRequest
    <3> QED BY <1>1, <1>2, <2>1, <2>2, <3>1, <3>2, <3>3, SideInv, InterruptRequest
            DEF InterruptsActivity, BadTransfer, SameLen
  <2>4. CASE rtpktlose(s)
    BY <1>2, <2>4, LosingEvent DEF BadTransfer
  <2> QED BY <1>2, <2>3, <2>4 DEF BadTransfer, Performs
<1>3. CASE TimeLimit(s)
  <2> DEFINE a == [acb[s] EXCEPT !.pc = "end", !.flags = @ \cup {"TIMER"}]
  <2>1. /\ a \in assocblk /\ a.flags = acb[s].flags \cup {"TIMER"} /\ a.pc = "end"
        /\ a.ind = "none" /\ a.rti = "none" /\ a.len = acb[s].len
    BY <1>1, SideInv DEF assocblk, Pc, AcFlag
  <2>2. CASE SActDiscRequest(s) /\ acb' = [acb EXCEPT ![s] = a]
    <3> HIDE DEF a
    <3>1. acb'[s] = a /\ Frame(s) /\ Counts(s)
      BY <1>3, <2>1, <2>2, OwnFrame DEF TimeLimit
    <3>2. SActIntrRequest(s)
      BY <2>2 DEF SActDiscRequest
    <3> QED BY <1>1, <1>3, <2>1, <3>1, <3>2, SideInv, InterruptRequest
            DEF InterruptsActivity, TimeLimit, SameLen
  <2>3. CASE rtpktlose(s)
    BY <1>3, <2>3, LosingEvent DEF TimeLimit
  <2> QED BY <1>3, <2>2, <2>3 DEF TimeLimit, Performs
<1> QED BY <1>2, <1>3

-----------------------------------------------------------------------------
(* What is done about an indication.                                       *)

(* A block that differs from b in its flags, its indication, what is       *)
(* returned and what was assembled only.                                   *)
Alike(a, b) ==
    /\ a \in assocblk /\ a.pc = b.pc
    /\ a.left = b.left /\ a.ssn = b.ssn /\ a.ack = b.ack

(* Assigning flags, length or result first changes nothing about how the   *)
(* loop that waits goes on: one lemma for each.                            *)
LEMMA AlikeFlags ==
    ASSUME NEW b \in assocblk, NEW f \in SUBSET AcFlag
    PROVE  /\ Alike([b EXCEPT !.flags = f], b) /\ [b EXCEPT !.flags = f].flags = f
           /\ [b EXCEPT !.flags = f].ind = b.ind /\ [b EXCEPT !.flags = f].rti = b.rti
           /\ [b EXCEPT !.flags = f].len = b.len
BY DEF assocblk, Alike

(* ... the length of what was received ...                                 *)
LEMMA AlikeLen ==
    ASSUME NEW b \in assocblk, NEW n \in Nat
    PROVE  /\ Alike([b EXCEPT !.len = n], b) /\ [b EXCEPT !.len = n].flags = b.flags
           /\ [b EXCEPT !.len = n].ind = b.ind /\ [b EXCEPT !.len = n].rti = b.rti
           /\ [b EXCEPT !.len = n].len = n
BY DEF assocblk, Alike

(* ... the result of RtWaitRequest ...                                     *)
LEMMA AlikeRti ==
    ASSUME NEW b \in assocblk, NEW r \in Rti
    PROVE  /\ Alike([b EXCEPT !.rti = r], b) /\ [b EXCEPT !.rti = r].flags = b.flags
           /\ [b EXCEPT !.rti = r].ind = b.ind /\ [b EXCEPT !.rti = r].rti = r
           /\ [b EXCEPT !.rti = r].len = b.len
BY DEF assocblk, Alike

(* ... and nothing at all.                                                 *)
LEMMA AlikeAgain ==
    ASSUME NEW a, NEW b, NEW c, Alike(a, b), Alike(b, c)
    PROVE  Alike(a, c)
BY DEF Alike

(* What RtWaitRequest returns with is kept for remote operations only.     *)
LEMMA ReturnsBlock ==
    ASSUME NEW b \in assocblk, NEW r \in Rti
    PROVE  /\ Alike(Returns(b, r), b) /\ Returns(b, r).flags = b.flags
           /\ Returns(b, r).ind = b.ind /\ Returns(b, r).len = b.len
           /\ Returns(b, r).rti = IF assoc.ros THEN r ELSE "none"
<1> DEFINE q == IF assoc.ros THEN r ELSE "none"
<1>1. q \in Rti
  BY DEF Rti
<1>2. Returns(b, r) = [b EXCEPT !.rti = q]
  BY DEF Returns
<1> HIDE DEF q
<1>3. /\ Alike(Returns(b, r), b) /\ Returns(b, r).flags = b.flags
      /\ Returns(b, r).ind = b.ind /\ Returns(b, r).rti = q /\ Returns(b, r).len = b.len
  BY <1>1, <1>2, AlikeRti
<1> QED BY <1>3 DEF q

(* The loop that waits looks at a block in which nothing it waits for has  *)
(* changed.                                                                *)
LEMMA ContinuesAlike ==
    ASSUME TransferInv, NEW s \in Side, acb[s].ind # "none",
           NEW a, Alike(a, acb[s]), acb[s].pc = "end" => "ACT" \in a.flags
    PROVE  /\ Alike(Continues(a), acb[s]) /\ Continues(a).flags = a.flags
           /\ Continues(a).ind = "none" /\ Continues(a).rti = a.rti
           /\ Continues(a).len = a.len
<1>1. /\ Placed(s) /\ Busy(s) /\ a \in assocblk /\ a.pc = acb[s].pc
      /\ a.ssn = acb[s].ssn /\ a.ack = acb[s].ack
  BY SideInv DEF Alike
<1>2. acb[s].pc = "window" => WindowFull(a)
  BY <1>1 DEF Busy, WindowFull
<1> DEFINE p == a.pc
<1>3. Continues(a) = [a EXCEPT !.ind = "none", !.pc = p]
  BY <1>1, <1>2 DEF Continues
<1>4. p \in Pc /\ p = a.pc
  BY <1>1 DEF assocblk
<1> HIDE DEF p
<1>5. /\ Alike(Continues(a), a) /\ Continues(a).flags = a.flags
      /\ Continues(a).ind = "none" /\ Continues(a).rti = a.rti
      /\ Continues(a).len = a.len
  BY <1>1, <1>3, <1>4 DEF Alike, assocblk, Ind
<1> QED BY <1>5, AlikeAgain

(* HandledSame, said of such a block.                                      *)
LEMMA HandledAlike ==
    ASSUME TransferInv, NEW s \in Side, acb[s].ind # "none", UNCHANGED assoc,
           NEW a, Alike(a, acb[s]), Handled(s, a),
           acb[s].pc = "end" => "ACT" \in a.flags,
           "TIMER" \in a.flags <=> In(s, "TIMER")
    PROVE  /\ Fields(s, acb[s].pc, "none", a.rti) /\ acb'[s].len = a.len
           /\ acb'[s].flags = a.flags /\ SameWindow(s) /\ Counts(s) /\ Frame(s)
<1>1. /\ a \in assocblk /\ a.pc = acb[s].pc /\ a.left = acb[s].left
      /\ a.ssn = acb[s].ssn /\ a.ack = acb[s].ack
  BY DEF Alike
<1> QED BY <1>1, HandledSame DEF Fields

(* The provider is asked for something, and the caller goes on waiting.    *)
LEMMA GoesOnWaiting ==
    ASSUME TransferInv, NEW s \in Side, acb[s].ind # "none", UNCHANGED assoc,
           NEW a, Alike(a, acb[s]), acb[s].pc = "end" => "ACT" \in a.flags,
           acb' = [acb EXCEPT ![s] = Continues(a)], Refuses(s) \/ UNCHANGED log
    PROVE  /\ Fields(s, acb[s].pc, "none", a.rti) /\ acb'[s].len = a.len
           /\ acb'[s].flags = a.flags /\ SameWindow(s) /\ Counts(s) /\ Frame(s)
<1> DEFINE c == Continues(a)
<1>1. /\ Alike(c, acb[s]) /\ c.flags = a.flags /\ c.ind = "none" /\ c.rti = a.rti
      /\ c.len = a.len
  BY ContinuesAlike
<1>2. acb' = [acb EXCEPT ![s] = c]
  OBVIOUS
<1> HIDE DEF c
<1>3. acb'[s] = c /\ acb'[Peer(s)] = acb[Peer(s)] /\ acb' \in [Side -> assocblk]
  BY <1>1, <1>2, SideInv, SetsAcb DEF Alike
<1>4. /\ log' \in [Side -> Log] /\ log'[Peer(s)] = log[Peer(s)] /\ Counts(s)
  BY SideInv, LogTyped DEF RtTypeOK, Counts
<1>5. Frame(s)
  BY <1>3, <1>4, SideInv DEF Frame, RtTypeOK
<1> QED BY <1>1, <1>3, <1>4, <1>5 DEF Fields, SameWindow, Alike

(* A receiver that refuses reports, or loses the association.              *)
LEMMA ReportEvent ==
    ASSUME TransferInv, NEW s \in Side, UNCHANGED assoc,
           acb[s].ind \in {"data", "minorind", "start", "endind"}, ~In(s, "TURN"),
           NEW a, Alike(a, acb[s]), a.flags = acb[s].flags, a.rti = "none", a.len \in {0, acb[s].len}, Reports(s, a)
    PROVE  (ReportsProblem(s) \/ LosesAssoc(s)) /\ Frame(s)
<1>1. CASE SUReportRequest(s) /\ acb' = [acb EXCEPT ![s] = Continues(a)]
  <2>1. acb[s].pc # "end"
    BY SideInv DEF Busy, Sends
  <2>2. /\ Fields(s, acb[s].pc, "none", a.rti)
        /\ acb'[s].len = a.len /\ acb'[s].flags = a.flags /\ SameWindow(s) /\ Counts(s) /\ Frame(s)
    BY <1>1, <2>1, GoesOnWaiting DEF Reports
  <2> QED BY <1>1, <2>2, SideInv, ReportRequest DEF ReportsProblem
<1>2. CASE rtpktlose(s)
  BY <1>2, LosingEvent DEF Reports
<1> QED BY <1>1, <1>2 DEF Reports, Performs

(* Only data makes what was received longer.                               *)
LEMMA NotedSame ==
    ASSUME TransferInv, NEW s \in Side, SameLen(s), acb[s].ind # "data"
    PROVE  acb'[s].len = acb[s].len + Bit(acb[s].ind = "data")
BY SideInv DEF SameLen, Bit

(* An indication that does not fit costs the association.                  *)
LEMMA UnexpectedEvent ==
    ASSUME TransferInv, NEW s \in Side, UNCHANGED assoc, Unexpected(s)
    PROVE  LosesAssoc(s) /\ Frame(s)
BY LosingEvent DEF Unexpected

(* ss2rts.c, one indication after the other: S-DATA.                       *)
LEMMA DataEvent ==
    ASSUME TransferInv, NEW s \in Side, doSSdata(s), UNCHANGED assoc
    PROVE  Event(s) /\ Frame(s)
<1>1. acb[s].ind = "data" /\ acb[s].rti = "none"
  BY SideInv DEF doSSdata, Placed
<1>2. CASE ~Receives(s)
  BY <1>2, UnexpectedEvent DEF doSSdata, Event
<1>3. CASE Receives(s)
  <2> DEFINE n == acb[s].len + 1
             a == [acb[s] EXCEPT !.len = n]
             b == [acb[s] EXCEPT !.len = 0]
  <2>1. n \in Nat /\ 0 \in Nat
    BY SideInv
  <2>2. /\ Alike(a, acb[s]) /\ a.flags = acb[s].flags /\ a.rti = "none" /\ a.len = n
        /\ Alike(b, acb[s]) /\ b.flags = acb[s].flags /\ b.rti = "none" /\ b.len = 0
    BY <1>1, <2>1, SideInv, AlikeLen
  <2>3. \/ Handled(s, a) /\ UNCHANGED <<sb, net>>
        \/ Reports(s, b)
    BY <1>3 DEF doSSdata
  <2> HIDE DEF a, b
  <2>4. ~In(s, "TURN") /\ acb[s].pc # "end"
    BY <1>3, SideInv DEF Receives, Busy, Sends
  <2>5. CASE Handled(s, a) /\ UNCHANGED <<sb, net>>
    <3>1. /\ Fields(s, acb[s].pc, "none", "none") /\ acb'[s].len = n
          /\ acb'[s].flags = acb[s].flags /\ SameWindow(s) /\ Counts(s) /\ Frame(s)
      BY <1>1, <2>2, <2>4, <2>5, HandledAlike DEF In
    <3>2. acb[s].pc # "window"
      BY <2>4, SideInv DEF Busy
    <3>3. n = acb[s].len + Bit(acb[s].ind = "data")
      BY <1>1 DEF Bit
    <3> HIDE DEF n
    <3> QED BY <1>1, <1>3, <2>5, <3>3, <3>1, <3>2
            DEF Event, NotesIndication, Untouched, SameTurn, SameWindow, Fields
  <2>6. CASE Reports(s, b)
    BY <1>1, <2>2, <2>4, <2>6, ReportEvent DEF Event
  <2> QED BY <2>3, <2>5, <2>6
<1> QED BY <1>2, <1>3

(* S-CONTROL-GIVE: the turn arrives.                                       *)
LEMMA ControlEvent ==
    ASSUME TransferInv, NEW s \in Side, doSStoken(s), acb[s].ind = "control", UNCHANGED assoc
    PROVE  Event(s) /\ Frame(s)
<1>1. CASE ~assoc.twa \/ In(s, "ACT")
  BY <1>1, UnexpectedEvent DEF doSStoken, Event
<1>2. CASE ~(~assoc.twa \/ In(s, "ACT"))
  <2> DEFINE f == acb[s].flags \cup {"TURN"}
             b == [acb[s] EXCEPT !.flags = f]
             a == Returns(b, "turn")
  <2>1. f \in SUBSET AcFlag /\ "turn" \in Rti /\ 0 \in Nat
    BY SideInv DEF AcFlag, Rti
  <2> HIDE DEF f
  <2>2. Alike(b, acb[s]) /\ b.flags = f /\ b.len = acb[s].len
    BY <2>1, SideInv, AlikeFlags
  <2> HIDE DEF b
  <2>3. b \in assocblk
    BY <2>2 DEF Alike
  <2>4. /\ Alike(a, acb[s]) /\ a.flags = f /\ a.len = acb[s].len
        /\ a.rti \in {"none", "turn"} /\ (a.rti # "none" => assoc.ros)
    BY <2>1, <2>2, <2>3, ReturnsBlock, AlikeAgain
  <2>5. Handled(s, a) /\ UNCHANGED <<sb, net>>
    BY <1>2 DEF doSStoken, a, b, f
  <2> HIDE DEF a
  <2>6. acb[s].pc # "end" /\ ("TIMER" \in f <=> In(s, "TIMER"))
    BY <1>2, SideInv DEF Busy, Sends, In, f
  <2>7. /\ Fields(s, acb[s].pc, "none", a.rti) /\ SameLen(s)
        /\ acb'[s].flags = f /\ SameWindow(s) /\ Counts(s) /\ Frame(s)
    BY <2>4, <2>5, <2>6, HandledAlike DEF SameLen
  <2> QED BY <1>2, <2>4, <2>5, <2>7 DEF Event, GainsTurn, Untouched, Fields, f
<1> QED BY <1>1, <1>2

(* S-TOKEN-PLEASE, outside or inside a transfer.                           *)
LEMMA PleaseIndEvent ==
    ASSUME TransferInv, NEW s \in Side, doSStoken(s), acb[s].ind = "please", UNCHANGED assoc
    PROVE  Event(s) /\ Frame(s)
<1> DEFINE old == acb[s]
<1>1. /\ old \in assocblk /\ Alike(old, old) /\ acb[s].rti = "none"
      /\ Busy(s) /\ old.flags \in SUBSET AcFlag
      /\ acb[s].pc \in {"user", "window", "end", "release"}
  BY SideInv DEF Alike, Placed
<1>2. CASE acb[s].pc \in {"window", "end"}
  <2>1. In(s, "TURN") /\ (acb[s].pc = "end" => In(s, "ACT"))
    BY <1>1, <1>2 DEF Busy, Sends
  <2> DEFINE f == IF assoc.upcalls THEN old.flags ELSE old.flags \cup {"PLEASE"}
             a == [old EXCEPT !.flags = f]
  <2>2. f \in SUBSET AcFlag
    BY <1>1 DEF AcFlag
  <2>3. /\ \A g \in {"TURN", "ACT", "TIMER"} : g \in f <=> g \in acb[s].flags
        /\ (acb[s].pc = "end" => "ACT" \in f) /\ ("TIMER" \in f <=> In(s, "TIMER"))
    BY <2>1 DEF In
  <2>4. \/ Handled(s, a) /\ UNCHANGED <<sb, net>>
        \/ /\ Refuses(s)
           /\ Performs(s, SActIntrRequest(s) /\ sb'[s].rs = "intr", Continues(old))
    BY <1>2 DEF doSStoken
  <2> HIDE DEF f
  <2>5. Alike(a, old) /\ a.flags = f /\ a.rti = "none" /\ a.len = old.len
    BY <1>1, <2>2, AlikeFlags
  <2> HIDE DEF a
  <2>6. CASE Handled(s, a) /\ UNCHANGED <<sb, net>>
    <3>1. /\ Fields(s, acb[s].pc, "none", "none") /\ SameLen(s)
          /\ acb'[s].flags = f /\ SameWindow(s) /\ Counts(s) /\ Frame(s)
      BY <2>3, <2>5, <2>6, HandledAlike DEF SameLen
    <3>2. acb[s].pc = "window" => WindowFull(acb'[s])
      BY <1>1, <3>1 DEF Busy, SameWindow, WindowFull, Frame
    <3> QED BY <2>3, <2>6, <3>1, <3>2, NotedSame
            DEF Event, NotesIndication, Untouched, SameTurn, SameWindow, Fields
  <2>7. CASE SActIntrRequest(s) /\ acb' = [acb EXCEPT ![s] = Continues(old)] /\ Refuses(s)
    <3>1. /\ Fields(s, acb[s].pc, "none", "none") /\ SameLen(s)
          /\ acb'[s].flags = acb[s].flags /\ SameWindow(s) /\ Counts(s) /\ Frame(s)
      BY <1>1, <2>1, <2>7, GoesOnWaiting DEF In, SameLen
    <3> QED BY <2>1, <2>7, <3>1, SideInv, InterruptRequest
            DEF Event, InterruptsActivity, SameTurn, Fields
  <2>8. CASE rtpktlose(s) /\ Refuses(s)
    BY <2>8, LosingEvent DEF Event
  <2> QED BY <2>4, <2>6, <2>7, <2>8 DEF Performs
<1>3. CASE acb[s].pc \notin {"window", "end"} /\ ~assoc.twa
  BY <1>3, UnexpectedEvent DEF doSStoken, Event
<1>4. CASE acb[s].pc \notin {"window", "end"} /\ assoc.twa
  <2> DEFINE a == Returns(old, "please")
  <2>1. Handled(s, a) /\ UNCHANGED <<sb, net>>
    BY <1>4 DEF doSStoken
  <2>2. "please" \in Rti
    BY DEF Rti
  <2> HIDE DEF old
  <2>3. /\ Alike(a, old) /\ a.flags = old.flags /\ a.len = old.len
        /\ a.rti \in {"none", "please"} /\ (a.rti # "none" => assoc.ros)
    BY <1>1, <2>2, ReturnsBlock
  <2> HIDE DEF a
  <2>4. /\ Fields(s, acb[s].pc, "none", a.rti) /\ SameLen(s)
        /\ acb'[s].flags = acb[s].flags /\ SameWindow(s) /\ Counts(s) /\ Frame(s)
    BY <1>4, <2>1, <2>3, HandledAlike DEF old, In, SameLen
  <2> QED BY <1>1, <1>4, <2>1, <2>3, <2>4, NotedSame
          DEF Event, NotesIndication, Untouched, SameTurn, SameWindow, Fields
<1> QED BY <1>2, <1>3, <1>4

(* S-SYNC-MINOR.INDICATION: the checkpoint is confirmed.                   *)
LEMMA MinorIndEvent ==
    ASSUME TransferInv, NEW s \in Side, doSSsync(s), acb[s].ind = "minorind", UNCHANGED assoc
    PROVE  Event(s) /\ Frame(s)
<1> DEFINE old == acb[s]
<1>1. /\ Alike(old, old) /\ acb[s].rti = "none" /\ Busy(s)
  BY SideInv DEF Alike, Placed
<1>2. CASE ~Receives(s)
  BY <1>2, UnexpectedEvent DEF doSSsync, Event
<1>3. CASE Receives(s)
  <2>1. ~In(s, "TURN") /\ acb[s].pc # "end"
    BY <1>1, <1>3 DEF Receives, Busy, Sends
  <2>2. CASE SMinSyncResponseTo(s) /\ Handled(s, old)
    <3>1. /\ Fields(s, acb[s].pc, "none", "none") /\ SameLen(s)
          /\ acb'[s].flags = acb[s].flags /\ SameWindow(s) /\ Counts(s) /\ Frame(s)
      BY <1>1, <2>1, <2>2, HandledAlike DEF In, SameLen
    <3> QED BY <1>3, <2>2, <3>1, SideInv, MinorResponse DEF Event, ConfirmsCheckpoint
  <2>3. CASE rtpktlose(s) /\ UNCHANGED log
    BY <2>3, LosingEvent DEF Event
  <2>4. CASE Reports(s, old)
    BY <1>1, <2>1, <2>4, ReportEvent DEF Event
  <2> QED BY <1>3, <2>2, <2>3, <2>4 DEF doSSsync, HandledBy
<1> QED BY <1>2, <1>3

(* S-SYNC-MINOR.CONFIRMATION: the window moves.                            *)
LEMMA MinorCnfEvent ==
    ASSUME TransferInv, NEW s \in Side, doSSsync(s), acb[s].ind = "minorcnf", UNCHANGED assoc
    PROVE  Event(s) /\ Frame(s)
<1>1. CASE ~Sends(s)
  BY <1>1, UnexpectedEvent DEF doSSsync, Event
<1>2. CASE Sends(s)
  <2> DEFINE b == acb[s]
             x == sb[s].V_A
             a == [b EXCEPT !.ack = x]
  <2>1. /\ b \in assocblk /\ x \in Int /\ b.rti = "none" /\ Busy(s) /\ RtTypeOK
        /\ b.pc \in {"user", "window", "end", "release"} /\ b.flags \in SUBSET AcFlag
    BY SideInv DEF Placed, Ssapblk
  <2>2. Handled(s, a) /\ UNCHANGED <<sb, net>>
    BY <1>2 DEF doSSsync
  <2> HIDE DEF x, b
  <2>3. /\ a \in assocblk /\ a.flags = b.flags /\ a.pc = b.pc /\ a.rti = b.rti
        /\ a.left = b.left /\ a.ssn = b.ssn /\ a.ack = x /\ a.len = b.len
    BY <2>1 DEF assocblk
  <2> HIDE DEF a
  <2>4. /\ acb'[s].ind = "none" /\ acb'[s].rti = a.rti
        /\ acb'[s].left = a.left /\ acb'[s].ssn = a.ssn /\ acb'[s].ack = a.ack
        /\ acb'[s].len = a.len
        /\ acb'[s].pc = IF a.pc = "window" /\ ~WindowFull(a) THEN "data"
                        ELSE IF a.pc = "end" /\ "ACT" \notin a.flags THEN "user" ELSE a.pc
        /\ acb'[s].flags = IF acb'[s].pc = "user" THEN a.flags \ {"TIMER"} ELSE a.flags
        /\ log'[s].ok = log[s].ok + Bit(/\ a.pc = "end" /\ acb'[s].pc = "user"
                                        /\ "TIMER" \notin a.flags)
        /\ log'[s].taken = log[s].taken /\ log'[s].of = log[s].of
        /\ log'[s].started = log[s].started /\ log'[s].size = log[s].size
        /\ Frame(s)
    BY <2>1, <2>2, <2>3, HandledFields DEF b
  <2>5. "ACT" \in a.flags
    BY <1>2, <2>3 DEF Sends, In, b
  <2>6. log'[s].ok = log[s].ok
    <3>1. log[s].ok \in Nat
      BY SideInv, LogTyped
    <3> QED BY <2>4, <2>5, <3>1 DEF Bit
  <2>7. acb'[s].flags = acb[s].flags
    BY <2>1, <2>3, <2>4, <2>5 DEF Busy, In, b
  <2>8. WindowFull(a) <=> WindowFull(acb'[s])
    BY <2>4 DEF WindowFull
  <2>9. \/ acb'[s].pc = acb[s].pc /\ (acb[s].pc = "window" => WindowFull(acb'[s]))
        \/ acb[s].pc = "window" /\ acb'[s].pc = "data" /\ Sends(s)
    BY <1>2, <2>3, <2>4, <2>5, <2>8 DEF b
  <2>10. acb'[s].len = acb[s].len + Bit(acb[s].ind = "data") /\ acb[s].ind = "minorcnf"
    <3>1. acb[s].ind = "minorcnf"
      OBVIOUS
    <3>2. SameLen(s)
      BY <2>3, <2>4 DEF SameLen, b
    <3> QED BY <3>1, <3>2, NotedSame
  <2> QED BY <2>1, <2>2, <2>3, <2>4, <2>6, <2>7, <2>8, <2>9, <2>10
          DEF Event, NotesIndication, Untouched, SameTurn, Counts, b, x
<1> QED BY <1>1, <1>2

(* S-ACTIVITY-START: we are receiving from now on.                         *)
LEMMA StartIndEvent ==
    ASSUME TransferInv, NEW s \in Side, ActStartInd(s), UNCHANGED assoc
    PROVE  Event(s) /\ Frame(s)
<1>1. acb[s].ind = "start"
  BY DEF ActStartInd
<1>2. CASE acb[s].flags \cap {"ACT", "TURN"} # {}
  BY <1>2, UnexpectedEvent DEF ActStartInd, Event
<1>3. CASE acb[s].flags \cap {"ACT", "TURN"} = {}
  <2> DEFINE b == acb[s]
             f == b.flags \cup {"ACT"}
             a == [b EXCEPT !.flags = f]
  <2>1. /\ b \in assocblk /\ b.rti = "none" /\ f \in SUBSET AcFlag /\ Busy(s)
        /\ ~In(s, "TURN") /\ ~In(s, "ACT") /\ Alike(b, b)
    BY <1>1, <1>3, SideInv DEF Placed, AcFlag, In, Alike
  <2>2. (Handled(s, a) /\ UNCHANGED <<sb, net>>) \/ Reports(s, b)
    BY <1>3 DEF ActStartInd
  <2>3. "ACT" \in f /\ ("TIMER" \in f <=> In(s, "TIMER"))
    BY DEF In
  <2> HIDE DEF f
  <2>4. Alike(a, b) /\ a.flags = f /\ a.rti = "none" /\ a.len = b.len
    BY <2>1, AlikeFlags
  <2> HIDE DEF a
  <2>5. CASE Handled(s, a) /\ UNCHANGED <<sb, net>>
    <3>1. /\ Fields(s, acb[s].pc, "none", "none") /\ SameLen(s)
          /\ acb'[s].flags = f /\ SameWindow(s) /\ Counts(s) /\ Frame(s)
      BY <1>1, <2>3, <2>4, <2>5, HandledAlike DEF SameLen
    <3> QED BY <1>1, <2>1, <2>5, <3>1 DEF Event, OpensActivity, Untouched, f
  <2>6. CASE Reports(s, b)
    BY <1>1, <2>1, <2>6, ReportEvent DEF Event
  <2> QED BY <2>2, <2>5, <2>6
<1> QED BY <1>2, <1>3

(* S-ACTIVITY-DISCARD or -INTERRUPT.INDICATION: answered at once.          *)
LEMMA DiscIndEvent ==
    ASSUME TransferInv, NEW s \in Side, ActDiscInd(s), UNCHANGED assoc
    PROVE  Event(s) /\ Frame(s)
<1>1. acb[s].ind = "discind"
  BY DEF ActDiscInd
<1>2. CASE ~Receives(s)
  BY <1>2, UnexpectedEvent DEF ActDiscInd, Event
<1>3. CASE Receives(s)
  <2> DEFINE b == acb[s]
             f == b.flags \ {"ACT"}
             a == [b EXCEPT !.flags = f, !.len = 0]
  <2>1. /\ b \in assocblk /\ b.rti = "none" /\ f \in SUBSET AcFlag
        /\ ("TIMER" \in f <=> In(s, "TIMER")) /\ acb[s].pc # "end"
    BY <1>1, <1>3, SideInv DEF Placed, Receives, Busy, Sends, In
  <2>2. HandledBy(s, SActIntrResponse(s), a)
    BY <1>3 DEF ActDiscInd
  <2> HIDE DEF f, b
  <2>3. Alike(a, b) /\ a.flags = f /\ a.rti = b.rti /\ a.len = 0
    BY <2>1 DEF Alike, assocblk
  <2> HIDE DEF a
  <2>4. CASE SActIntrResponse(s) /\ Handled(s, a)
    <3>1. /\ Fields(s, acb[s].pc, "none", "none") /\ acb'[s].len = 0
          /\ acb'[s].flags = f /\ SameWindow(s) /\ Counts(s) /\ Frame(s)
      BY <1>1, <2>1, <2>3, <2>4, HandledAlike DEF b
    <3> QED BY <1>1, <1>3, <2>4, <3>1, SideInv, InterruptResponse
            DEF Event, AcceptsDiscard, f, b
  <2>5. CASE rtpktlose(s) /\ UNCHANGED log
    BY <2>5, LosingEvent DEF Event
  <2> QED BY <2>2, <2>4, <2>5 DEF HandledBy
<1> QED BY <1>2, <1>3

(* Their confirmations, and that of an activity's end.                     *)
LEMMA CnfEvent ==
    ASSUME TransferInv, NEW s \in Side, ActCnf(s), UNCHANGED assoc
    PROVE  Event(s) /\ Frame(s)
<1>1. acb[s].ind \in {"disccnf", "endcnf"}
  BY DEF ActCnf
<1>2. CASE ~Sends(s)
  BY <1>2, UnexpectedEvent DEF ActCnf, Event
<1>3. CASE Sends(s)
  <2> DEFINE b == acb[s]
             f == b.flags \ {"ACT"}
             a == [b EXCEPT !.flags = f]
  <2>1. /\ b \in assocblk /\ b.rti = "none" /\ Busy(s) /\ RtTypeOK /\ f \in SUBSET AcFlag
        /\ b.pc \in {"user", "window", "end", "release"} /\ b.flags \in SUBSET AcFlag
    BY <1>1, SideInv DEF Placed
  <2>2. Handled(s, a) /\ UNCHANGED <<sb, net>>
    BY <1>3 DEF ActCnf
  <2>3. "ACT" \notin f /\ ("TIMER" \in f <=> In(s, "TIMER"))
    BY DEF In
  <2> HIDE DEF f, b
  <2>4. Alike(a, b) /\ a.flags = f /\ a.rti = b.rti /\ a.len = b.len
    BY <2>1, AlikeFlags
  <2>5. /\ a \in assocblk /\ a.pc = b.pc /\ a.left = b.left /\ a.ssn = b.ssn /\ a.ack = b.ack
    BY <2>4 DEF Alike
  <2> HIDE DEF a
  <2>6. /\ acb'[s].ind = "none" /\ acb'[s].rti = a.rti
        /\ acb'[s].left = a.left /\ acb'[s].ssn = a.ssn /\ acb'[s].ack = a.ack
        /\ acb'[s].len = a.len
        /\ acb'[s].pc = IF a.pc = "window" /\ ~WindowFull(a) THEN "data"
                        ELSE IF a.pc = "end" /\ "ACT" \notin a.flags THEN "user" ELSE a.pc
        /\ acb'[s].flags = IF acb'[s].pc = "user" THEN a.flags \ {"TIMER"} ELSE a.flags
        /\ log'[s].ok = log[s].ok + Bit(/\ a.pc = "end" /\ acb'[s].pc = "user"
                                        /\ "TIMER" \notin a.flags)
        /\ log'[s].taken = log[s].taken /\ log'[s].of = log[s].of
        /\ log'[s].started = log[s].started /\ log'[s].size = log[s].size
        /\ Frame(s)
    BY <2>1, <2>2, <2>4, <2>5, HandledFields DEF b
  <2>7. b.pc = "window" => WindowFull(a)
    BY <2>1, <2>5 DEF Busy, WindowFull, b
  <2>8. acb'[s].pc = IF b.pc = "end" THEN "user" ELSE b.pc
    BY <2>3, <2>4, <2>5, <2>6, <2>7
  <2>9. /\ acb'[s].flags \in {f, b.flags \ {"ACT", "TIMER"}}
        /\ acb'[s].pc = "user" => "TIMER" \notin acb'[s].flags
    <3>1. f \ {"TIMER"} = b.flags \ {"ACT", "TIMER"}
      BY DEF f
    <3> QED BY <2>4, <2>6, <3>1
  <2>10. log'[s].ok = log[s].ok + Bit(b.pc = "end" /\ ~In(s, "TIMER"))
    <3>1. (/\ a.pc = "end" /\ acb'[s].pc = "user" /\ "TIMER" \notin a.flags)
          <=> (b.pc = "end" /\ ~In(s, "TIMER"))
      BY <2>3, <2>4, <2>5, <2>8
    <3> QED BY <2>6, <3>1 DEF Bit
  <2> QED BY <1>1, <1>3, <2>1, <2>2, <2>4, <2>5, <2>6, <2>8, <2>9, <2>10
          DEF Event, ClosesActivity, Untouched, Fields, SameWindow, SameLen, f, b
<1> QED BY <1>2, <1>3

(* S-ACTIVITY-END.INDICATION: the transfer is confirmed, or refused.       *)
LEMMA EndIndEvent ==
    ASSUME TransferInv, NEW s \in Side, ActEndInd(s), UNCHANGED assoc
    PROVE  Event(s) /\ Frame(s)
<1>1. acb[s].ind = "endind"
  BY DEF ActEndInd
<1>2. CASE ~Receives(s) \/ (acb[s].len = 0 /\ ~assoc.upcalls)
  BY <1>2, UnexpectedEvent DEF ActEndInd, Event
<1>3. CASE ~(~Receives(s) \/ (acb[s].len = 0 /\ ~assoc.upcalls))
  <2> DEFINE b == acb[s]
             f == b.flags \ {"ACT"}
             c == [b EXCEPT !.flags = f, !.len = 0, !.ind = "none"]
             a == Returns(c, "transfer")
             d == [b EXCEPT !.len = 0]
  <2>1. /\ b \in assocblk /\ b.rti = "none" /\ f \in SUBSET AcFlag /\ Receives(s)
        /\ ~In(s, "TURN") /\ b.pc \in {"user", "window", "end", "release"}
        /\ Peer(s) \in Side /\ Peer(s) # s /\ log \in [Side -> Log]
    BY <1>1, <1>3, SideInv, PeerSide DEF Placed, Receives, RtTypeOK, Peer, Side
  <2>2. \/ /\ Performs(s, SMajSyncResponse(s), a)
           /\ log' = IF acb'[s].pc = "gone" THEN log
                     ELSE [log EXCEPT ![s].taken = @ + 1,
                                      ![s].of = log[Peer(s)].started]
        \/ Reports(s, d)
    BY <1>3 DEF ActEndInd
  <2> HIDE DEF f, b
  <2>3. Alike(c, b) /\ c.flags = f /\ c.rti = b.rti /\ c.ind = "none" /\ c.len = 0
    BY <2>1 DEF Alike, assocblk, Ind
  <2>4. Alike(d, b) /\ d.flags = b.flags /\ d.rti = b.rti /\ d.len = 0
    BY <2>1, AlikeLen
  <2> HIDE DEF c, d
  <2>5. /\ Alike(a, b) /\ a.flags = f /\ a.ind = "none" /\ a.len = 0
        /\ a.rti = IF assoc.ros THEN "transfer" ELSE "none"
    <3>1. c \in assocblk /\ "transfer" \in Rti
      BY <2>3 DEF Alike, Rti
    <3> QED BY <2>3, <3>1, ReturnsBlock, AlikeAgain
  <2> HIDE DEF a
  <2>6. CASE /\ SMajSyncResponse(s) /\ acb' = [acb EXCEPT ![s] = a]
             /\ log' = IF acb'[s].pc = "gone" THEN log
                       ELSE [log EXCEPT ![s].taken = @ + 1,
                                        ![s].of = log[Peer(s)].started]
    <3>1. acb'[s] = a /\ acb'[Peer(s)] = acb[Peer(s)] /\ acb' \in [Side -> assocblk]
      BY <2>5, <2>6, SideInv, SetsAcb DEF Alike
    <3>2. acb'[s].pc = b.pc /\ b.pc # "gone"
      BY <2>1, <2>5, <3>1 DEF Alike
    <3>3. log' = [log EXCEPT ![s].taken = @ + 1, ![s].of = log[Peer(s)].started]
      BY <2>6, <3>2
    <3>4. /\ log' \in [Side -> Log] /\ log'[Peer(s)] = log[Peer(s)]
          /\ log'[s].taken = log[s].taken + 1 /\ log'[s].of = log[Peer(s)].started
          /\ log'[s].ok = log[s].ok /\ log'[s].started = log[s].started
          /\ log'[s].size = log[s].size
      <4> DEFINE g == log[s]
                 x == g.taken + 1
                 y == log[Peer(s)].started
                 h == [g EXCEPT !.taken = x, !.of = y]
      <4>1. log' = [log EXCEPT ![s] = h]
        BY <3>3
      <4>2. g \in Log /\ x \in Nat /\ y \in Nat
        BY <2>1 DEF Log
      <4> HIDE DEF g, x, y
      <4>3. /\ h \in Log /\ h.taken = x /\ h.of = y
            /\ h.ok = g.ok /\ h.started = g.started /\ h.size = g.size
        BY <4>2 DEF Log
      <4> HIDE DEF h
      <4>4. log'[s] = h /\ log'[Peer(s)] = log[Peer(s)] /\ log' \in [Side -> Log]
        BY <2>1, <4>1, <4>3
      <4> QED BY <4>3, <4>4 DEF g, x, y
    <3>5. Frame(s)
      BY <3>1, <3>4, SideInv DEF Frame, RtTypeOK
    <3>6. /\ Puts(s, "MAA") /\ Steady(s) /\ ssapPsig(sb[s])
          /\ sb'[s].flags = ActivityAfterMajor(sb[s].flags) \ {"MAA", "AE"}
          /\ sb'[s].owned = sb[s].owned
      BY <2>6, SideInv, EndResponse
    <3>7. AcceptsEnd(s)
      BY <1>1, <2>1, <2>5, <3>1, <3>2, <3>4, <3>6
         DEF AcceptsEnd, Alike, SameWindow, Fields, f, b
    <3> QED BY <3>5, <3>7 DEF Event
  <2>7. CASE /\ rtpktlose(s)
             /\ log' = IF acb'[s].pc = "gone" THEN log
                       ELSE [log EXCEPT ![s].taken = @ + 1,
                                        ![s].of = log[Peer(s)].started]
    <3>1. acb'[s].pc = "gone"
      BY <2>7, LosingFields DEF Fields
    <3> QED BY <2>7, <3>1, LosingEvent DEF Event
  <2>8. CASE Reports(s, d)
    <3>1. Alike(d, acb[s]) /\ d.flags = acb[s].flags /\ d.rti = "none" /\ d.len = 0
      BY <2>1, <2>4 DEF b
    <3> QED BY <1>1, <2>1, <2>8, <3>1, ReportEvent DEF Event
  <2> QED BY <2>2, <2>6, <2>7, <2>8 DEF Performs
<1> QED BY <1>2, <1>3

(* S-U-EXCEPTION-REPORT: the sender discards.                              *)
LEMMA ReportIndEvent ==
    ASSUME TransferInv, NEW s \in Side, doSSreport(s), UNCHANGED assoc
    PROVE  Event(s) /\ Frame(s)
<1> DEFINE old == acb[s]
<1>1. acb[s].ind = "report" /\ Alike(old, old) /\ acb[s].rti = "none"
  BY SideInv DEF doSSreport, Alike, Placed
<1>2. CASE ~(assoc.service = "ss" /\ Sends(s))
  BY <1>2, UnexpectedEvent DEF doSSreport, Event
<1>3. CASE assoc.service = "ss" /\ Sends(s)
  <2>1. CASE SActDiscRequest(s) /\ Handled(s, old)
    <3>1. /\ Fields(s, acb[s].pc, "none", "none") /\ SameLen(s)
          /\ acb'[s].flags = acb[s].flags /\ SameWindow(s) /\ Counts(s) /\ Frame(s)
      BY <1>1, <1>3, <2>1, HandledAlike DEF Sends, In, SameLen
    <3>2. SActIntrRequest(s)
      BY <2>1 DEF SActDiscRequest
    <3> QED BY <1>1, <1>3, <3>1, <3>2, SideInv, InterruptRequest
            DEF Event, InterruptsActivity, SameTurn, Fields, Sends
  <2>2. CASE rtpktlose(s) /\ UNCHANGED log
    BY <2>2, LosingEvent DEF Event
  <2> QED BY <1>3, <2>1, <2>2 DEF doSSreport, HandledBy
<1> QED BY <1>2, <1>3

(* S-RELEASE.INDICATION: the peer closes.                                  *)
LEMMA FinishEvent ==
    ASSUME TransferInv, NEW s \in Side, doSSfinish(s), UNCHANGED assoc
    PROVE  Event(s) /\ Frame(s)
<1>1. acb[s].ind = "finish"
  BY DEF doSSfinish
<1>2. CASE (s = "init" /\ assoc.twa) \/ In(s, "TURN") \/ In(s, "ACT")
  BY <1>2, UnexpectedEvent DEF doSSfinish, Event
<1>3. CASE ~((s = "init" /\ assoc.twa) \/ In(s, "TURN") \/ In(s, "ACT"))
  <2> DEFINE b == acb[s]
             f == b.flags \cup {"FINN"}
             c == [b EXCEPT !.flags = f]
             a == Returns(c, "close")
  <2>1. /\ b \in assocblk /\ f \in SUBSET AcFlag /\ "close" \in Rti
        /\ b.pc \in {"user", "release"} /\ b.rti = "none"
        /\ ("TIMER" \in f <=> In(s, "TIMER"))
        /\ \A g \in {"TURN", "ACT", "TIMER"} : g \in f <=> g \in acb[s].flags
    BY <1>1, <1>3, SideInv DEF Placed, Busy, Sends, AcFlag, Rti, In
  <2>2. Handled(s, a) /\ UNCHANGED <<sb, net>>
    BY <1>3 DEF doSSfinish
  <2> HIDE DEF f, b
  <2>3. Alike(c, b) /\ c.flags = f /\ c.len = b.len
    BY <2>1, AlikeFlags
  <2> HIDE DEF c
  <2>4. /\ Alike(a, b) /\ a.flags = f /\ a.len = b.len
        /\ a.rti \in {"none", "close"} /\ (a.rti # "none" => assoc.ros)
    <3>1. c \in assocblk
      BY <2>3 DEF Alike
    <3> QED BY <2>1, <2>3, <3>1, ReturnsBlock, AlikeAgain
  <2> HIDE DEF a
  <2>5. /\ Fields(s, acb[s].pc, "none", a.rti) /\ SameLen(s)
        /\ acb'[s].flags = f /\ SameWindow(s) /\ Counts(s) /\ Frame(s)
    BY <1>1, <2>1, <2>2, <2>4, HandledAlike DEF b, SameLen
  <2> QED BY <1>1, <2>1, <2>2, <2>4, <2>5, NotedSame
          DEF Event, NotesIndication, Untouched, SameTurn, SameWindow, Fields, b
<1> QED BY <1>2, <1>3

(* All of them together.                                                   *)
LEMMA IndicationEvent ==
    ASSUME TransferInv, NEW s \in Side, RtIndication(s)
    PROVE  Event(s) /\ Frame(s)
<1>1. UNCHANGED assoc
  BY DEF RtIndication
<1>2. CASE doSSdata(s)
  BY <1>1, <1>2, DataEvent
<1>3. CASE doSStoken(s)
  <2>1. acb[s].ind \in {"control", "please"}
    BY <1>3 DEF doSStoken
  <2> QED BY <1>1, <1>3, <2>1, ControlEvent, PleaseIndEvent
<1>4. CASE doSSsync(s)
  <2>1. acb[s].ind \in {"minorind", "minorcnf"}
    BY <1>4 DEF doSSsync
  <2> QED BY <1>1, <1>4, <2>1, MinorIndEvent, MinorCnfEvent
<1>5. CASE doSSactivity(s)
  BY <1>1, <1>5, StartIndEvent, DiscIndEvent, CnfEvent, EndIndEvent DEF doSSactivity
<1>6. CASE doSSreport(s) \/ doSSfinish(s)
  BY <1>1, <1>6, ReportIndEvent, FinishEvent
<1> QED BY <1>2, <1>3, <1>4, <1>5, <1>6 DEF RtIndication

-----------------------------------------------------------------------------
(* Releasing, reading, and what remote operations does.                    *)

(* RtEndRequest and RtEndResponse.                                         *)
LEMMA ReleaseEvents ==
    ASSUME TransferInv, NEW s \in Side, RtEndRequest(s) \/ RtEndResponse(s)
    PROVE  Event(s) /\ Frame(s)
<1>1. CASE RtEndRequest(s)
  <2>1. /\ log' \in [Side -> Log] /\ log'[Peer(s)] = log[Peer(s)] /\ Counts(s)
        /\ Idle(s) /\ In(s, "TURN") /\ ~In(s, "ACT") /\ assoc' = assoc
    BY <1>1, SideInv DEF RtEndRequest, Callable, RtTypeOK, Log, Peer, Side, Counts
  <2> DEFINE b == acb[s]
             a == [b EXCEPT !.pc = "release"]
  <2>2. b \in assocblk /\ b.ind = "none" /\ b.rti = "none"
    BY <2>1, SideInv DEF Idle
  <2>3. CASE SRelRequest(s) /\ acb' = [acb EXCEPT ![s] = a]
    <3> HIDE DEF b
    <3>1. /\ a \in assocblk /\ a.pc = "release" /\ a.flags = b.flags /\ a.ind = "none"
          /\ a.rti = "none" /\ a.left = b.left /\ a.ssn = b.ssn /\ a.ack = b.ack
          /\ a.len = b.len
      BY <2>2 DEF assocblk, Pc
    <3> HIDE DEF a
    <3>2. /\ acb'[s] = a /\ acb'[Peer(s)] = acb[Peer(s)] /\ acb' \in [Side -> assocblk]
      BY <2>3, <3>1, SideInv, SetsAcb
    <3>3. Frame(s)
      BY <2>1, <3>2, SideInv DEF Frame, RtTypeOK
    <3> QED BY <2>1, <2>3, <3>1, <3>2, <3>3, SideInv, ReleaseCalls
            DEF Event, AsksRelease, Fields, SameWindow, SameLen, b
  <2>4. CASE rtpktlose(s)
    <3>1. RtTypeOK'
      BY <2>1, <2>4, LosingFields, SideInv DEF RtTypeOK
    <3> QED BY <2>1, <2>4, <3>1, LosingFields DEF Event, LosesAssoc, Frame, Counts
  <2> QED BY <1>1, <2>3, <2>4 DEF RtEndRequest, Performs
<1>2. CASE RtEndResponse(s)
  <2>1. Idle(s) /\ UNCHANGED <<assoc, log>>
    BY <1>2 DEF RtEndResponse
  <2>2. CASE AcceptsRelease(s) /\ Gone(s)
    <3> DEFINE g == [NewAcb({}) EXCEPT !.pc = "gone"]
    <3>1. g \in assocblk /\ g.pc = "gone" /\ g.ind = "none" /\ g.rti = "none" /\ g.flags = {}
      BY DEF NewAcb, assocblk, Pc, Ind, Rti
    <3>2. acb' = [acb EXCEPT ![s] = g]
      BY <2>2 DEF Gone
    <3> HIDE DEF g
    <3>3. acb'[s] = g /\ Frame(s) /\ Counts(s)
      BY <2>1, <3>1, <3>2, OwnFrame
    <3> QED BY <2>1, <2>2, <3>1, <3>3, SideInv, ReleaseCalls DEF Event, LeavesRelease, Fields
  <2>3. CASE rtpktlose(s)
    BY <2>1, <2>3, LosingEvent DEF Event
  <2> QED BY <1>2, <2>2, <2>3 DEF RtEndResponse
<1> QED BY <1>1, <1>2

(* A session block that is waiting or draining has nothing to say to its   *)
(* association block.                                                      *)
LEMMA ReadEvents ==
    ASSUME TransferInv, NEW s \in Side, RtRead(s) \/ RtDrain(s)
    PROVE  Event(s) /\ Frame(s)
<1> DEFINE g == [NewAcb({}) EXCEPT !.pc = "gone"]
<1>1. g \in assocblk /\ g.pc = "gone" /\ g.ind = "none" /\ g.rti = "none" /\ g.flags = {}
  BY DEF NewAcb, assocblk, Pc, Ind, Rti
<1>2. Gone(s) => acb' = [acb EXCEPT ![s] = g]
  BY DEF Gone
<1> HIDE DEF g
<1>3. CASE RtRead(s)
  <2>1. UNCHANGED <<assoc, log>> /\ Read(s) /\ Reading(s)
    BY <1>3 DEF RtRead
  <2>2. sb[s].mode \in {"open", "waiting"}
    BY <2>1, SideInv DEF Reading, Placed
  <2>3. CASE Loses(s)
    <3>1. Gone(s)
      BY <1>3, <2>3 DEF RtRead, Loses
    <3>2. acb'[s] = g /\ Frame(s) /\ Counts(s)
      BY <1>1, <1>2, <2>1, <3>1, OwnFrame
    <3> QED BY <1>1, <2>3, <3>2 DEF Event, LosesAssoc, Fields, Counts
  <2> DEFINE i == IF sb[s].mode = "open" THEN Indication(s) ELSE "none"
             b == acb[s]
             a == [b EXCEPT !.ind = i]
  <2>4. CASE Gets(s) /\ sb'[s].mode = sb[s].mode /\ Effect(s, i)
             /\ (sb[s].mode = "open" => Hearing(s, i))
             /\ (sb[s].mode = "waiting" => Head(net[s]).code = "FN" /\ sb'[s].pr = sb[s].pr)
             /\ (sb[s].mode # "open" => sb'[s].flags = sb[s].flags)
    <3>1. acb' = [acb EXCEPT ![s] = a]
      BY <1>3, <2>2, <2>4 DEF RtRead
    <3>2. i \in Ind /\ b \in assocblk
      <4>1. i # "none" => i \in Ind
        BY <2>4 DEF Effect, IndicationOf, Ind
      <4> QED BY <4>1, SideInv DEF Ind
    <3>3. IF sb[s].mode = "open" THEN i = Indication(s) ELSE i = "none"
      OBVIOUS
    <3> HIDE DEF b, i
    <3>4. /\ a \in assocblk /\ a.ind = i /\ a.pc = b.pc /\ a.flags = b.flags /\ a.rti = b.rti
          /\ a.left = b.left /\ a.ssn = b.ssn /\ a.ack = b.ack
          /\ a.len = b.len
      BY <3>2 DEF assocblk
    <3> HIDE DEF a
    <3>5. acb'[s] = a /\ Frame(s) /\ Counts(s)
      BY <2>1, <3>1, <3>4, OwnFrame
    <3> QED BY <2>1, <2>4, <3>3, <3>4, <3>5 DEF Event, ReadsNext, Reading, SameWindow, SameLen, b
  <2>5. CASE sb[s].mode = "open"
    <3>1. ReadsOpen(s)
      BY <2>1, <2>5, SideInv, OpenReads
    <3>2. sb'[s].mode = "open" => Hearing(s, Indication(s))
      BY <2>1, <2>5, SideInv, OpenHears
    <3> QED BY <2>3, <2>4, <2>5, <3>1, <3>2 DEF ReadsOpen
  <2>6. CASE sb[s].mode # "open"
    <3>1. \/ Loses(s)
          \/ /\ Gets(s) /\ sb'[s].mode = sb[s].mode /\ sb'[s].pr = sb[s].pr
             /\ sb'[s].flags = sb[s].flags /\ sb'[s].owned = sb[s].owned
             /\ sb'[s].V_M = sb[s].V_M
      BY <2>1, <2>6, SideInv, OtherReads
    <3>2. "Vnextact" \notin sb[s].flags
      BY SideInv DEF Carried
    <3>3. sb[s].mode = "waiting" /\ sb'[s].mode = "waiting" => Head(net[s]).code = "FN"
      BY <2>1, SideInv, WaitingHears
    <3> QED BY <2>3, <2>4, <2>6, <3>1, <3>2, <3>3 DEF Effect, Serials
  <2> QED BY <2>5, <2>6
<1>4. CASE RtDrain(s)
  <2>1. acb[s].pc = "gone" /\ Drain(s) /\ UNCHANGED <<assoc, acb, log>>
    BY <1>4 DEF RtDrain
  <2>2. /\ Placed(s) /\ sb[s].mode # "open" /\ acb[s].ind = "none" /\ acb[s].rti = "none"
        /\ acb[s].flags = {} /\ sb[s].flags = {}
    BY <2>1, SideInv DEF Placed
  <2>3. /\ Frame(s) /\ Counts(s) /\ SameWindow(s) /\ SameLen(s)
    BY <2>1, SideInv DEF Frame, Counts, SameWindow, SameLen, RtTypeOK
  <2>4. \/ Loses(s)
        \/ /\ Gets(s) /\ sb'[s].mode = sb[s].mode /\ sb'[s].pr = sb[s].pr
           /\ sb'[s].flags = sb[s].flags /\ sb'[s].owned = sb[s].owned
           /\ sb'[s].V_M = sb[s].V_M
    BY <2>1, <2>2, SideInv, OtherReads DEF Read
  <2>5. CASE Loses(s)
    BY <2>1, <2>2, <2>3, <2>5 DEF Event, LosesAssoc, Fields, Counts
  <2>6. CASE ~Loses(s)
    <3>1. Effect(s, "none")
      BY <2>2, <2>4, <2>6 DEF Effect, Serials
    <3>2. sb[s].mode = "draining"
      BY <2>1 DEF Drain
    <3> QED BY <2>1, <2>2, <2>3, <2>4, <2>6, <3>1, <3>2 DEF Event, ReadsNext
  <2> QED BY <2>5, <2>6
<1> QED BY <1>3, <1>4

(* What is returned is taken, or something is returned: nothing else.      *)
LEMMA OwnEvent ==
    ASSUME TransferInv, NEW s \in Side, UNCHANGED <<sb, net, assoc, log>>,
           acb[s].pc # "gone", acb[s].ind = "none",
           NEW f \in SUBSET AcFlag, NEW r \in {"none", "please"},
           r # "none" => assoc.ros /\ acb[s].pc = "user",
           \A g \in {"TURN", "ACT", "TIMER"} : g \in f <=> g \in acb[s].flags,
           acb' = [acb EXCEPT ![s].flags = f, ![s].rti = r]
    PROVE  Event(s) /\ Frame(s)
<1> DEFINE b == acb[s]
           a == [b EXCEPT !.flags = f, !.rti = r]
<1>1. acb' = [acb EXCEPT ![s] = a]
  BY SideInv DEF RtTypeOK
<1>2. b \in assocblk /\ r \in Rti
  BY SideInv DEF Rti
<1> HIDE DEF b
<1>3. /\ a \in assocblk /\ a.flags = f /\ a.rti = r /\ a.pc = b.pc /\ a.ind = b.ind
      /\ a.left = b.left /\ a.ssn = b.ssn /\ a.ack = b.ack /\ a.len = b.len
  BY <1>2 DEF assocblk
<1> HIDE DEF a
<1>4. acb'[s] = a /\ Frame(s) /\ Counts(s)
  BY <1>1, <1>3, OwnFrame
<1> QED BY <1>3, <1>4 DEF Event, StaysPut, Untouched, SameTurn, SameWindow, SameLen, b

(* RoTransfer, RoTurn and RoClose act on what RtWaitRequest returned with. *)
LEMMA TakenEvent ==
    ASSUME TransferInv, NEW s \in Side, acb[s].rti # "none",
           UNCHANGED <<sb, net, assoc, log>>, Taken_(s)
    PROVE  Event(s) /\ Frame(s)
<1>1. acb[s].pc # "gone" /\ acb[s].ind = "none" /\ acb[s] \in assocblk
  BY SideInv DEF Placed
<1> DEFINE f == acb[s].flags
<1>2. f \in SUBSET AcFlag
  BY SideInv
<1>3. acb' = [acb EXCEPT ![s].flags = f, ![s].rti = "none"]
  <2>1. [acb[s] EXCEPT !.rti = "none"] = [acb[s] EXCEPT !.flags = acb[s].flags, !.rti = "none"]
    BY <1>1 DEF assocblk
  <2>2. acb \in [Side -> assocblk]
    BY SideInv DEF RtTypeOK
  <2> QED BY <2>1, <2>2 DEF Taken_
<1> HIDE DEF f
<1> QED BY <1>1, <1>2, <1>3, OwnEvent DEF f

(* doRTSturn: the turn is given, or the event is noted.                    *)
LEMMA RoTurnEvent ==
    ASSUME TransferInv, NEW s \in Side, RoTurn(s)
    PROVE  Event(s) /\ Frame(s)
<1>1. /\ acb[s].rti # "none" /\ UNCHANGED <<assoc, log>>
      /\ acb[s].ind = "none" /\ acb[s].pc # "release"
      /\ acb[s].rti = "please" => acb[s].pc = "user"
  BY SideInv DEF RoTurn, Placed, Busy
<1> DEFINE b == acb[s]
           a == [b EXCEPT !.rti = "none"]
<1>2. CASE acb[s].rti = "please" /\ MayGiveTurn(s) /\ rt2ssgturn(s, a)
  <2>1. b \in assocblk /\ "none" \in Rti
    BY SideInv DEF Rti
  <2> HIDE DEF b
  <2>2. /\ a \in assocblk /\ a.flags = b.flags /\ a.rti = "none" /\ a.pc = b.pc
        /\ a.ind = b.ind /\ a.left = b.left /\ a.ssn = b.ssn /\ a.ack = b.ack /\ a.len = b.len
    BY <2>1 DEF assocblk
  <2> HIDE DEF a
  <2> QED BY <1>1, <1>2, <2>2, GiveEvent DEF Event, b
<1>3. CASE Taken_(s) /\ UNCHANGED <<sb, net>>
  BY <1>1, <1>3, TakenEvent
<1> QED BY <1>2, <1>3 DEF RoTurn

(* doRTSclose: the initiator aborts, the responder notes it.               *)
LEMMA RoCloseEvent ==
    ASSUME TransferInv, NEW s \in Side, RoClose(s)
    PROVE  Event(s) /\ Frame(s)
<1>1. /\ acb[s].rti = "close" /\ UNCHANGED <<assoc, log>>
      /\ acb[s].ind = "none" /\ acb[s].pc # "gone" /\ acb[s].flags \in SUBSET AcFlag
  BY SideInv DEF RoClose, Placed
<1>2. CASE s = "init"
  BY <1>1, <1>2, LosingEvent DEF RoClose, Event
<1>3. CASE s # "init"
  <2> DEFINE f == IF ro[s].calling THEN (acb[s].flags \cup {"CLOSING"}) \ {"FINN"}
                                   ELSE acb[s].flags
  <2>1. /\ f \in SUBSET AcFlag
        /\ \A g \in {"TURN", "ACT", "TIMER"} : g \in f <=> g \in acb[s].flags
    BY <1>1 DEF AcFlag
  <2>2. acb' = [acb EXCEPT ![s].rti = "none", ![s].flags = f] /\ UNCHANGED <<sb, net>>
    BY <1>3, SideInv DEF RoClose, RtTypeOK, assocblk
  <2>3. acb \in [Side -> assocblk]
    BY SideInv DEF RtTypeOK
  <2> HIDE DEF f
  <2>4. acb' = [acb EXCEPT ![s].flags = f, ![s].rti = "none"]
    BY <2>2, <2>3 DEF assocblk
  <2> QED BY <1>1, <2>1, <2>2, <2>4, OwnEvent
<1> QED BY <1>2, <1>3

(* RtWaitRequest and RO-WAIT.REQUEST return what was put aside.            *)
LEMMA WaitEvents ==
    ASSUME TransferInv, NEW s \in Side, RoWaitRequest(s) \/ WaitPlease(s)
    PROVE  Event(s) /\ Frame(s)
<1>1. /\ Idle(s) /\ UNCHANGED <<sb, net, assoc, log>>
      /\ acb[s].flags \in SUBSET AcFlag /\ acb[s].pc = "user" /\ acb[s].ind = "none"
      /\ acb[s].rti = "none" /\ acb \in [Side -> assocblk]
  BY SideInv DEF RoWaitRequest, WaitPlease, Callable, Idle, RtTypeOK
<1>2. PICK f \in SUBSET AcFlag, r \in {"none", "please"} :
        /\ acb' = [acb EXCEPT ![s].flags = f, ![s].rti = r]
        /\ r # "none" => assoc.ros
        /\ \A g \in {"TURN", "ACT", "TIMER"} : g \in f <=> g \in acb[s].flags
  <2>1. CASE acb' = acb
    <3>1. acb = [acb EXCEPT ![s].flags = acb[s].flags, ![s].rti = "none"]
      BY <1>1 DEF assocblk
    <3> QED BY <1>1, <2>1, <3>1
  <2>2. CASE acb' = [acb EXCEPT ![s].flags = (@ \ {"CLOSING"}) \cup {"FINN"}]
    <3> DEFINE f == (acb[s].flags \ {"CLOSING"}) \cup {"FINN"}
    <3>1. /\ f \in SUBSET AcFlag
          /\ \A g \in {"TURN", "ACT", "TIMER"} : g \in f <=> g \in acb[s].flags
      BY <1>1 DEF AcFlag
    <3>2. acb' = [acb EXCEPT ![s].flags = f]
      BY <2>2
    <3> HIDE DEF f
    <3>3. acb' = [acb EXCEPT ![s].flags = f, ![s].rti = "none"]
      BY <1>1, <3>2 DEF assocblk
    <3> QED BY <3>1, <3>3
  <2>3. CASE WaitPlease(s)
    <3> DEFINE f == acb[s].flags \ {"PLEASE"}
               r == IF assoc.ros THEN "please" ELSE "none"
    <3>1. /\ f \in SUBSET AcFlag /\ r \in {"none", "please"} /\ (r # "none" => assoc.ros)
          /\ \A g \in {"TURN", "ACT", "TIMER"} : g \in f <=> g \in acb[s].flags
      BY <1>1
    <3> DEFINE c == [acb[s] EXCEPT !.flags = f]
    <3>2. acb' = [acb EXCEPT ![s] = [c EXCEPT !.rti = r]]
      <4>1. acb' = [acb EXCEPT ![s] = Returns(c, "please")]
        BY <2>3 DEF WaitPlease
      <4> QED BY <4>1 DEF Returns
    <3> HIDE DEF f, r
    <3>3. acb' = [acb EXCEPT ![s].flags = f, ![s].rti = r]
      BY <3>2, <1>1
    <3> QED BY <3>1, <3>3
  <2> QED BY <2>1, <2>2, <2>3 DEF RoWaitRequest
<1>3. acb[s].pc # "gone" /\ (r # "none" => assoc.ros /\ acb[s].pc = "user")
  BY <1>1, <1>2
<1> QED BY <1>1, <1>2, <1>3, OwnEvent, Zenon

(* Writing an APDU is one of the two calls of reliable transfer.           *)
LEMMA WriteEvent ==
    ASSUME TransferInv, NEW s \in Side,
           RoInvokeRequest(s) \/ RoResultRequest(s) \/ RoReady(s)
    PROVE  Event(s) /\ Frame(s)
<1>1. Idle(s) /\ UNCHANGED assoc
  BY DEF RoInvokeRequest, RoResultRequest, RoReady, Call, MayCall, Callable
<1>2. (\E size \in 1..MaxChunks : rt2sstrans(s, size)) \/ rt2sspturn(s)
  BY DEF RoInvokeRequest, RoResultRequest, RoReady, Call, ro2rtswrite, ro2rtsready
<1> QED BY <1>1, <1>2, StartEvent, PleaseEvent DEF Event

(* Whatever one side does is one of the events.                            *)
LEMMA EveryStep ==
    ASSUME TransferInv, NEW s \in Side, RoStep(s)
    PROVE  Event(s) /\ Frame(s)
<1>1. CASE RoInvokeRequest(s) \/ RoResultRequest(s) \/ RoReady(s)
  BY <1>1, WriteEvent
<1>2. CASE RoTransfer(s)
  BY <1>2, TakenEvent DEF RoTransfer
<1>3. CASE RoTurn(s)
  BY <1>3, RoTurnEvent
<1>4. CASE RoClose(s)
  BY <1>4, RoCloseEvent
<1>5. CASE RoWaitRequest(s) \/ WaitPlease(s)
  BY <1>5, WaitEvents
<1>6. CASE RtRead(s) \/ RtDrain(s)
  BY <1>6, ReadEvents
<1>7. CASE RtEndRequest(s) \/ RtEndResponse(s)
  BY <1>7, ReleaseEvents
<1>8. CASE SendPart(s) \/ Checkpoint(s) \/ EndActivity(s)
  BY <1>8, PartEvent, CheckpointEvent, EndEvent DEF Event
<1>9. CASE RtIndication(s)
  BY <1>9, IndicationEvent
<1>10. CASE BadTransfer(s) \/ TimeLimit(s)
  BY <1>10, StopEvents DEF Event
<1>11. CASE RtPTurnRequest(s) \/ RtTransferRequest(s)
  <2>1. Idle(s) /\ UNCHANGED assoc
    BY <1>11 DEF RtPTurnRequest, RtTransferRequest, Callable
  <2>2. (\E size \in 1..MaxChunks : rt2sstrans(s, size)) \/ rt2sspturn(s)
    BY <1>11 DEF RtPTurnRequest, RtTransferRequest
  <2> QED BY <2>1, <2>2, StartEvent, PleaseEvent DEF Event
<1>12. CASE RtGTurnRequest(s)
  <2> DEFINE a == acb[s]
  <2>1. /\ a \in assocblk /\ a.pc = "user" /\ a.ind = "none" /\ a.rti = "none"
        /\ rt2ssgturn(s, a) /\ MayGiveTurn(s) /\ UNCHANGED <<assoc, log>>
    BY <1>12, SideInv DEF RtGTurnRequest, Callable, Idle
  <2>2. a = acb[s]
    OBVIOUS
  <2> HIDE DEF a
  <2> QED BY <2>1, <2>2, GiveEvent DEF Event
<1> QED BY <1>1, <1>2, <1>3, <1>4, <1>5, <1>6, <1>7, <1>8, <1>9, <1>10, <1>11, <1>12
        DEF RoStep, RoCloses, RoEvent, Waiting, Goes, Progress, RtUser

-----------------------------------------------------------------------------
(* The invariant is inductive.                                             *)

(* What the other side sees of a step: its session block and its           *)
(* association block stay as they are, its queue carries what it carried.  *)
LEMMA OtherSide ==
    ASSUME TransferInv, NEW s \in Side, Event(s), Frame(s)
    PROVE  /\ acb'[Peer(s)] = acb[Peer(s)] /\ sb'[Peer(s)] = sb[Peer(s)]
           /\ Conveys(net'[Peer(s)]) /\ Conveys(net'[s])
<1>1. acb'[Peer(s)] = acb[Peer(s)] /\ Peer(s) \in Side /\ Peer(s) # s
  BY DEF Frame, Peer, Side
<1>2. Conveys(net[s]) /\ Conveys(net[Peer(s)]) /\ Conveys(<<>>)
  BY <1>1, SideInv DEF Carried, Conveys
<1> USE <1>1, <1>2
<1>3. (\E c : Puts(s, c)) => Conveys(net'[Peer(s)]) /\ Conveys(net'[s])
  BY DEF Puts
<1>4. Steady(s) => sb'[Peer(s)] = sb[Peer(s)]
  BY DEF Steady
<1>5. /\ Untouched => /\ sb'[Peer(s)] = sb[Peer(s)]
                  /\ Conveys(net'[Peer(s)]) /\ Conveys(net'[s])
      /\ Loses(s) \/ Gets(s) => /\ sb'[Peer(s)] = sb[Peer(s)]
                                /\ Conveys(net'[Peer(s)]) /\ Conveys(net'[s])
  BY DEF Untouched, Loses, Gets
<1> QED BY <1>3, <1>4, <1>5
        DEF Event, LosesAssoc, StaysPut, AsksTurn, GivesTurn, StartsActivity, SendsPart,
            SendsCheckpoint, EndsActivity, InterruptsActivity, ReportsProblem,
            NotesIndication, GainsTurn, ConfirmsCheckpoint, OpensActivity, AcceptsDiscard,
            ClosesActivity, AcceptsEnd, AsksRelease, LeavesRelease, ReadsNext

(* Where a side may be.                                                    *)
LEMMA PlacedKept ==
    ASSUME TransferInv, NEW s \in Side, Event(s), Frame(s)
    PROVE  Placed(s)'
<1>1. /\ Placed(s) /\ Busy(s) /\ Carried(s) /\ assoc' = assoc /\ Conveys(net'[s])
  BY SideInv, OtherSide DEF Frame
<1> USE <1>1
<1>2. CASE LosesAssoc(s)
  BY <1>2 DEF LosesAssoc, Fields, Loses, Idle, Placed
<1>3. CASE StaysPut(s)
  BY <1>3 DEF StaysPut, Untouched, SameTurn, SameWindow, Idle, Placed
<1>4. CASE AsksTurn(s)
  BY <1>4 DEF AsksTurn, Idle, Placed
<1>5. CASE GivesTurn(s)
  BY <1>5 DEF GivesTurn, Fields, Steady, SameWindow, Idle, Placed
<1>6. CASE StartsActivity(s)
  BY <1>6 DEF StartsActivity, Fields, Steady, Idle, Placed
<1>7. CASE SendsPart(s)
  BY <1>7 DEF SendsPart, Idle, Placed
<1>8. CASE SendsCheckpoint(s)
  BY <1>8 DEF SendsCheckpoint, Steady, Idle, Placed
<1>9. CASE EndsActivity(s)
  BY <1>9 DEF EndsActivity, Fields, Steady, Idle, Placed
<1>10. CASE InterruptsActivity(s)
  BY <1>10 DEF InterruptsActivity, Fields, Steady, SameTurn, SameWindow, Idle, Placed
<1>11. CASE ReportsProblem(s)
  BY <1>11 DEF ReportsProblem, Fields, Steady, SameWindow, Idle, Placed
<1>12. CASE NotesIndication(s)
  BY <1>12 DEF NotesIndication, Untouched, SameTurn, Idle, Placed
<1>13. CASE GainsTurn(s)
  BY <1>13 DEF GainsTurn, Untouched, SameWindow, Idle, Placed
<1>14. CASE ConfirmsCheckpoint(s)
  BY <1>14 DEF ConfirmsCheckpoint, Fields, Steady, SameWindow, Receives, Idle, Placed
<1>15. CASE OpensActivity(s)
  BY <1>15 DEF OpensActivity, Fields, Untouched, SameWindow, Idle, Placed
<1>16. CASE AcceptsDiscard(s)
  BY <1>16 DEF AcceptsDiscard, Fields, Steady, SameWindow, Receives, Idle, Placed
<1>17. CASE ClosesActivity(s)
  BY <1>17 DEF ClosesActivity, Fields, Untouched, SameWindow, Idle, Placed
<1>18. CASE AcceptsEnd(s)
  BY <1>18 DEF AcceptsEnd, Fields, Steady, SameWindow, Receives, ActivityAfterMajor, Idle,
         Placed
<1>19. CASE AsksRelease(s)
  BY <1>19 DEF AsksRelease, Fields, SameWindow, Idle, Placed
<1>20. CASE LeavesRelease(s)
  BY <1>20 DEF LeavesRelease, Fields, Idle, Placed
<1>21. CASE ReadsNext(s)
  BY <1>21 DEF ReadsNext, Gets, Effect, SameWindow, Idle, Placed
<1> QED BY <1>2, <1>3, <1>4, <1>5, <1>6, <1>7, <1>8, <1>9, <1>10, <1>11, <1>12, <1>13,
           <1>14, <1>15, <1>16, <1>17, <1>18, <1>19, <1>20, <1>21
        DEF Event

(* A caller inside RtTransferRequest goes on sending.                      *)
LEMMA BusyKept ==
    ASSUME TransferInv, NEW s \in Side, Event(s), Frame(s)
    PROVE  Busy(s)'
<1>1. /\ Placed(s) /\ Busy(s) /\ Carried(s) /\ assoc' = assoc /\ Conveys(net'[s])
  BY SideInv, OtherSide DEF Frame
<1> USE <1>1
<1>2. CASE LosesAssoc(s)
  BY <1>2 DEF LosesAssoc, Fields, Loses, Idle, In, Sends, WindowFull, Placed, Busy
<1>3. CASE StaysPut(s)
  BY <1>3 DEF StaysPut, SameTurn, SameWindow, Idle, In, Sends, WindowFull, Placed, Busy
<1>4. CASE AsksTurn(s)
  BY <1>4 DEF AsksTurn, Idle, In, Sends, WindowFull, Placed, Busy
<1>5. CASE GivesTurn(s)
  BY <1>5 DEF GivesTurn, Fields, SameWindow, Idle, In, Sends, WindowFull, Placed, Busy
<1>6. CASE StartsActivity(s)
  BY <1>6 DEF StartsActivity, Fields, Idle, In, Sends, WindowFull, Placed, Busy
<1>7. CASE SendsPart(s)
  BY <1>7 DEF SendsPart, Idle, In, Sends, WindowFull, Placed, Busy
<1>8. CASE SendsCheckpoint(s)
  BY <1>8 DEF SendsCheckpoint, Idle, In, Sends, WindowFull, Placed, Busy
<1>9. CASE EndsActivity(s)
  BY <1>9 DEF EndsActivity, Fields, Idle, In, Sends, WindowFull, Placed, Busy
<1>10. CASE InterruptsActivity(s)
  BY <1>10 DEF InterruptsActivity, Fields, SameTurn, SameWindow, Idle, In, Sends,
         WindowFull, Placed, Busy
<1>11. CASE ReportsProblem(s)
  BY <1>11 DEF ReportsProblem, Fields, SameWindow, Idle, In, Sends, WindowFull, Placed, Busy
<1>12. CASE NotesIndication(s)
  BY <1>12 DEF NotesIndication, SameTurn, Idle, In, Sends, WindowFull, Placed, Busy
<1>13. CASE GainsTurn(s)
  BY <1>13 DEF GainsTurn, SameWindow, Idle, In, Sends, WindowFull, Placed, Busy
<1>14. CASE ConfirmsCheckpoint(s)
  BY <1>14 DEF ConfirmsCheckpoint, Fields, SameWindow, Receives, Idle, In, Sends,
         WindowFull, Placed, Busy
<1>15. CASE OpensActivity(s)
  BY <1>15 DEF OpensActivity, Fields, SameWindow, Idle, In, Sends, WindowFull, Placed, Busy
<1>16. CASE AcceptsDiscard(s)
  BY <1>16 DEF AcceptsDiscard, Fields, SameWindow, Receives, Idle, In, Sends, WindowFull,
         Placed, Busy
<1>17. CASE ClosesActivity(s)
  BY <1>17 DEF ClosesActivity, Fields, SameWindow, Idle, In, Sends, WindowFull, Placed, Busy
<1>18. CASE AcceptsEnd(s)
  BY <1>18 DEF AcceptsEnd, Fields, SameWindow, Receives, Idle, In, Sends, WindowFull,
         Placed, Busy
<1>19. CASE AsksRelease(s)
  BY <1>19 DEF AsksRelease, Fields, SameWindow, Idle, In, Sends, WindowFull, Placed, Busy
<1>20. CASE LeavesRelease(s)
  BY <1>20 DEF LeavesRelease, Fields, Idle, In, Sends, WindowFull, Placed, Busy
<1>21. CASE ReadsNext(s)
  BY <1>21 DEF ReadsNext, SameWindow, Idle, In, Sends, WindowFull, Placed, Busy
<1> QED BY <1>2, <1>3, <1>4, <1>5, <1>6, <1>7, <1>8, <1>9, <1>10, <1>11, <1>12, <1>13,
           <1>14, <1>15, <1>16, <1>17, <1>18, <1>19, <1>20, <1>21
        DEF Event

(* No SPDU of another service, and no half of one.                         *)
LEMMA CarriedKept ==
    ASSUME TransferInv, NEW s \in Side, Event(s), Frame(s)
    PROVE  Carried(s)'
<1>1. /\ Placed(s) /\ Busy(s) /\ Carried(s) /\ assoc' = assoc /\ Conveys(net'[s])
  BY SideInv, OtherSide DEF Frame
<1> USE <1>1
<1>2. CASE LosesAssoc(s)
  BY <1>2 DEF LosesAssoc, Fields, Loses, Carried
<1>3. CASE StaysPut(s)
  BY <1>3 DEF StaysPut, Untouched, Carried
<1>4. CASE AsksTurn(s)
  BY <1>4 DEF AsksTurn, Puts, Carried
<1>5. CASE GivesTurn(s)
  BY <1>5 DEF GivesTurn, Fields, Puts, Steady, Carried
<1>6. CASE StartsActivity(s)
  BY <1>6 DEF StartsActivity, Fields, Puts, Steady, Carried
<1>7. CASE SendsPart(s)
  BY <1>7 DEF SendsPart, Puts, Carried
<1>8. CASE SendsCheckpoint(s)
  BY <1>8 DEF SendsCheckpoint, Puts, Steady, Carried
<1>9. CASE EndsActivity(s)
  BY <1>9 DEF EndsActivity, Fields, Puts, Steady, Carried
<1>10. CASE InterruptsActivity(s)
  BY <1>10 DEF InterruptsActivity, Fields, Puts, Steady, Carried
<1>11. CASE ReportsProblem(s)
  BY <1>11 DEF ReportsProblem, Fields, Puts, Steady, Carried
<1>12. CASE NotesIndication(s)
  BY <1>12 DEF NotesIndication, Untouched, Carried
<1>13. CASE GainsTurn(s)
  BY <1>13 DEF GainsTurn, Untouched, Carried
<1>14. CASE ConfirmsCheckpoint(s)
  BY <1>14 DEF ConfirmsCheckpoint, Fields, Puts, Steady, Carried
<1>15. CASE OpensActivity(s)
  BY <1>15 DEF OpensActivity, Fields, Untouched, Carried
<1>16. CASE AcceptsDiscard(s)
  BY <1>16 DEF AcceptsDiscard, Fields, Puts, Steady, Carried
<1>17. CASE ClosesActivity(s)
  BY <1>17 DEF ClosesActivity, Fields, Untouched, Carried
<1>18. CASE AcceptsEnd(s)
  BY <1>18 DEF AcceptsEnd, Fields, Puts, Steady, ActivityAfterMajor, Carried
<1>19. CASE AsksRelease(s)
  BY <1>19 DEF AsksRelease, Fields, Puts, Carried
<1>20. CASE LeavesRelease(s)
  BY <1>20 DEF LeavesRelease, Fields, Puts, Carried
<1>21. CASE ReadsNext(s)
  BY <1>21 DEF ReadsNext, Gets, Effect, Carried
<1> QED BY <1>2, <1>3, <1>4, <1>5, <1>6, <1>7, <1>8, <1>9, <1>10, <1>11, <1>12, <1>13,
           <1>14, <1>15, <1>16, <1>17, <1>18, <1>19, <1>20, <1>21
        DEF Event

(* The invariant from which the rest is proved.                            *)
LEMMA TransferKept ==
    ASSUME TransferInv, [RoNext]_rovars
    PROVE  TransferInv'
<1>1. CASE UNCHANGED rovars
  BY <1>1 DEF rovars, TransferInv, TypeOK, RtTypeOK, Placed, Busy, Carried, In, Sends,
              WindowFull
<1>2. CASE RoNext
  <2>1. PICK s \in Side : RoStep(s)
    BY <1>2 DEF RoNext, RoStep
  <2>2. Event(s) /\ Frame(s)
    BY <2>1, EveryStep
  <2>3. TypeOK'
    <3>1. [Next]_vars
      BY StepImplements DEF TransferInv
    <3> QED BY <3>1, TypeStep DEF TransferInv
  <2>4. Placed(s)' /\ Busy(s)' /\ Carried(s)'
    BY <2>2, PlacedKept, BusyKept, CarriedKept
  <2>5. Placed(Peer(s))' /\ Busy(Peer(s))' /\ Carried(Peer(s))'
    <3>1. Placed(Peer(s)) /\ Busy(Peer(s)) /\ Carried(Peer(s))
      BY PeerSide, SideInv
    <3>2. /\ acb'[Peer(s)] = acb[Peer(s)] /\ sb'[Peer(s)] = sb[Peer(s)] /\ assoc' = assoc
          /\ Conveys(net'[Peer(s)])
      BY <2>2, OtherSide DEF Frame
    <3> QED BY <3>1, <3>2 DEF Placed, Busy, Carried, In, Sends, WindowFull
  <2>6. \A t \in Side : t = s \/ t = Peer(s)
    BY DEF Peer, Side
  <2> QED BY <2>2, <2>3, <2>4, <2>5, <2>6 DEF TransferInv, Frame
<1> QED BY <1>1, <1>2

(* The invariant holds on a fresh association.                             *)
LEMMA TransferInit == RoInit => TransferInv
<1> SUFFICES ASSUME RoInit PROVE TransferInv
  OBVIOUS
<1>1. TypeOK
  BY InitImplements, TypeInit
<1>2. PICK turn \in Side :
        /\ sb  = [s \in Side |-> newsblk(IF s = turn THEN Tokens ELSE {}, 0)]
        /\ acb = [s \in Side |-> NewAcb(IF s = turn THEN {"TURN"} ELSE {})]
  BY DEF RoInit, RtInit
<1>3. \A f \in SUBSET AcFlag : NewAcb(f) \in assocblk
  BY DEF NewAcb, assocblk, Pc, Ind, Rti
<1>4. RtTypeOK
  <2>1. acb \in [Side -> assocblk]
    BY <1>2, <1>3 DEF AcFlag
  <2> QED BY <2>1 DEF RoInit, RtInit, RtTypeOK, Log
<1>5. ASSUME NEW s \in Side PROVE Placed(s) /\ Busy(s) /\ Carried(s)
  <2>1. /\ sb[s].mode = "open" /\ sb[s].spdu = <<>> /\ ~sb[s].xspdu /\ sb[s].flags = {}
        /\ net[s] = <<>>
        /\ acb[s].pc = "user" /\ acb[s].ind = "none" /\ acb[s].rti = "none"
        /\ "TIMER" \notin acb[s].flags
    BY <1>2 DEF newsblk, NewAcb, RoInit, RtInit
  <2> QED BY <2>1 DEF Placed, Busy, Carried, Conveys, In
<1> QED BY <1>1, <1>4, <1>5 DEF TransferInv

(* Every behaviour of reliable transfer and remote operations is, to the   *)
(* session provider, one of its own: the calls rt2ss.c makes are requests  *)
(* and responses of SSAP users, each in a state in which it is allowed.    *)
THEOREM RoImplementsSession == RoSpec => Spec
<1>1. TransferInv /\ [RoNext]_rovars => [Next]_vars
  BY StepImplements DEF TransferInv
<1> QED BY <1>1, InitImplements, TransferInit, TransferKept, PTL DEF RoSpec, Spec

(* What has been proved of the session provider therefore holds of it      *)
(* under reliable transfer: the two ends never both own a token ...        *)
THEOREM TransferTokens == RoSpec => []TokenHeldOnce
BY RoImplementsSession, TokenAlwaysHeldOnce, PTL

(* ... and a release that is confirmed was agreed.                         *)
THEOREM TransferReleases == RoSpec => ReleaseAgreed
BY RoImplementsSession, ReleaseAlwaysAgreed, PTL

(* The association block stays well typed, a side that waits for something *)
(* or is freed leaves the session provider in the mode it should, and a    *)
(* caller inside RtTransferRequest keeps the turn.                         *)
THEOREM TransferAlwaysPlaced == RoSpec => []TransferInv
BY TransferInit, TransferKept, PTL DEF RoSpec

=============================================================================
