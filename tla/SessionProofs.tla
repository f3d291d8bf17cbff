---------------------------- MODULE SessionProofs ----------------------------
(***************************************************************************)
(* Theorems about Session, for every value of its constants.               *)
(***************************************************************************)
EXTENDS SessionProperties, TLAPS

-----------------------------------------------------------------------------
(* SPDUs: what the requests build is an SPDU.                              *)

(* Setting one field of an SPDU to a value of its type gives an SPDU and   *)
(* keeps its code.                                                         *)
LEMMA SpduFields ==
    \A m \in SpduShape :
        /\ \A x \in SpduType : /\ [m EXCEPT !.type = x] \in SpduShape
                               /\ [m EXCEPT !.type = x].code = m.code
                               /\ [m EXCEPT !.type = x].type = x
        /\ \A x \in Int : /\ [m EXCEPT !.ssn = x] \in SpduShape
                          /\ [m EXCEPT !.ssn = x].code = m.code
                          /\ [m EXCEPT !.ssn = x].type = m.type
        /\ \A x \in SUBSET Tokens : /\ [m EXCEPT !.tokens = x] \in SpduShape
                                    /\ [m EXCEPT !.tokens = x].code = m.code
                                    /\ [m EXCEPT !.tokens = x].type = m.type
        /\ \A x \in Settings : /\ [m EXCEPT !.settings = x] \in SpduShape
                               /\ [m EXCEPT !.settings = x].code = m.code
                               /\ [m EXCEPT !.settings = x].type = m.type
        /\ \A x \in BOOLEAN : /\ [m EXCEPT !.xpd = x] \in SpduShape
                              /\ [m EXCEPT !.xpd = x].code = m.code
                              /\ [m EXCEPT !.xpd = x].type = m.type
BY DEF SpduShape

(* An SPDU starts with the code it is made for and defaults elsewhere.     *)
LEMMA SpduTyped ==
    \A c \in Code : Spdu(c) \in SpduShape /\ Spdu(c).code = c
<1>1. NoSettings \in Settings
  BY DEF NoSettings, Settings
<1> QED BY <1>1 DEF Spdu, SpduShape, SpduType

(* Codes other than RS and PR need nothing filled in.                      *)
LEMMA PlainSpdu == \A c \in Code \ {"RS", "PR"} : Spdu(c) \in SpduSet
BY SpduTyped DEF SpduSet

(* Each SPDU the requests, SWriteRequestAux and spktlose build is one.     *)
LEMMA MessagesTyped ==
    /\ \A ts \in SUBSET Tokens : [Spdu("GT") EXCEPT !.tokens = ts] \in SpduSet
    /\ \A ts \in SUBSET Tokens : [Spdu("PT") EXCEPT !.tokens = ts] \in SpduSet
    /\ \A c \in {"MIP", "MIA", "MAA", "AR"}, n \in Int :
           [Spdu(c) EXCEPT !.ssn = n] \in SpduSet
    /\ \A n \in Int, x \in {"end", "noend"} :
           [Spdu("MAP") EXCEPT !.ssn = n, !.type = x] \in SpduSet
    /\ \A x \in ReSync, n \in Int, z \in Settings :
           [Spdu("RS") EXCEPT !.type = x, !.ssn = n, !.settings = z] \in SpduSet
    /\ \A n \in Int, z \in Settings :
           [Spdu("RA") EXCEPT !.ssn = n, !.settings = z] \in SpduSet
    /\ [Spdu("EX") EXCEPT !.xpd = TRUE] \in SpduSet
    /\ \A x \in PrType : Prepare(x) \in SpduSet
    /\ \A x \in {"user", "provider"} :
           Abort(x) \in SpduSet /\ [Abort(x) EXCEPT !.xpd = FALSE] \in SpduSet
<1>1. \A ts \in SUBSET Tokens : [Spdu("GT") EXCEPT !.tokens = ts] \in SpduSet
  <2> TAKE ts \in SUBSET Tokens
  <2> DEFINE m1 == [Spdu("GT") EXCEPT !.tokens = ts]
  <2>1. m1 \in SpduShape /\ m1.code = "GT"
    <3>1. Spdu("GT") \in SpduShape /\ Spdu("GT").code = "GT"
      BY SpduTyped DEF Code
    <3> QED BY <3>1, SpduFields, Zenon
  <2> QED BY <2>1, Zenon DEF SpduSet
<1>2. \A c \in {"MIP", "MIA", "MAA", "AR"}, n \in Int :
           [Spdu(c) EXCEPT !.ssn = n] \in SpduSet
  <2> TAKE c \in {"MIP", "MIA", "MAA", "AR"}, n \in Int
  <2> DEFINE m1 == [Spdu(c) EXCEPT !.ssn = n]
  <2>1. m1 \in SpduShape /\ m1.code = c
    <3>1. Spdu(c) \in SpduShape /\ Spdu(c).code = c
      BY SpduTyped DEF Code
    <3> QED BY <3>1, SpduFields, Zenon
  <2>2. c # "RS" /\ c # "PR"
    OBVIOUS
  <2> QED BY <2>1, <2>2, Zenon DEF SpduSet
<1>3. \A n \in Int, x \in {"end", "noend"} :
           [Spdu("MAP") EXCEPT !.ssn = n, !.type = x] \in SpduSet
  <2> TAKE n \in Int, x \in {"end", "noend"}
  <2> DEFINE m1 == [Spdu("MAP") EXCEPT !.ssn = n]
             m2 == [m1 EXCEPT !.type = x]
  <2>1. m1 \in SpduShape /\ m1.code = "MAP"
    <3>1. Spdu("MAP") \in SpduShape /\ Spdu("MAP").code = "MAP"
      BY SpduTyped DEF Code
    <3> QED BY <3>1, SpduFields, Zenon
  <2>2. m2 \in SpduShape /\ m2.code = "MAP"
    <3> HIDE DEF m1
    <3> QED BY <2>1, SpduFields DEF SpduType
  <2> QED BY <2>2, Zenon DEF SpduSet
<1>4. \A x \in ReSync, n \in Int, z \in Settings :
           [Spdu("RS") EXCEPT !.type = x, !.ssn = n, !.settings = z] \in SpduSet
  <2> TAKE x \in ReSync, n \in Int, z \in Settings
  <2> DEFINE m1 == [Spdu("RS") EXCEPT !.type = x]
             m2 == [m1 EXCEPT !.ssn = n]
             m3 == [m2 EXCEPT !.settings = z]
  <2>1. m1 \in SpduShape /\ m1.code = "RS" /\ m1.type = x
    <3>1. Spdu("RS") \in SpduShape /\ Spdu("RS").code = "RS"
      BY SpduTyped DEF Code
    <3>2. x \in SpduType
      BY DEF SpduType, SyncType
    <3> QED BY <3>1, <3>2, SpduFields, Zenon
  <2>2. m2 \in SpduShape /\ m2.code = "RS" /\ m2.type = x
    <3> HIDE DEF m1
    <3> QED BY <2>1, SpduFields
  <2>3. m3 \in SpduShape /\ m3.code = "RS" /\ m3.type = x
    <3> HIDE DEF m2
    <3> QED BY <2>2, SpduFields
  <2> QED BY <2>3, Zenon DEF SpduSet
<1>5. \A n \in Int, z \in Settings :
           [Spdu("RA") EXCEPT !.ssn = n, !.settings = z] \in SpduSet
  <2> TAKE n \in Int, z \in Settings
  <2> DEFINE m1 == [Spdu("RA") EXCEPT !.ssn = n]
             m2 == [m1 EXCEPT !.settings = z]
  <2>1. m1 \in SpduShape /\ m1.code = "RA"
    <3>1. Spdu("RA") \in SpduShape /\ Spdu("RA").code = "RA"
      BY SpduTyped DEF Code
    <3> QED BY <3>1, SpduFields, Zenon
  <2>2. m2 \in SpduShape /\ m2.code = "RA"
    <3> HIDE DEF m1
    <3> QED BY <2>1, SpduFields
  <2> QED BY <2>2, Zenon DEF SpduSet
<1>6. [Spdu("EX") EXCEPT !.xpd = TRUE] \in SpduSet
  <2> DEFINE m1 == [Spdu("EX") EXCEPT !.xpd = TRUE]
  <2>1. m1 \in SpduShape /\ m1.code = "EX"
    <3>1. Spdu("EX") \in SpduShape /\ Spdu("EX").code = "EX"
      BY SpduTyped DEF Code
    <3> QED BY <3>1, SpduFields, Zenon
  <2> QED BY <2>1, Zenon DEF SpduSet
<1>7. \A x \in PrType : Prepare(x) \in SpduSet
  <2> TAKE x \in PrType
  <2> DEFINE m1 == [Spdu("PR") EXCEPT !.type = x]
             m2 == [m1 EXCEPT !.xpd = TRUE]
  <2>1. m1 \in SpduShape /\ m1.code = "PR" /\ m1.type = x
    <3>1. Spdu("PR") \in SpduShape /\ Spdu("PR").code = "PR"
      BY SpduTyped DEF Code
    <3>2. x \in SpduType
      BY DEF SpduType
    <3> QED BY <3>1, <3>2, SpduFields, Zenon
  <2>2. m2 \in SpduShape /\ m2.code = "PR" /\ m2.type = x
    <3> HIDE DEF m1
    <3> QED BY <2>1, SpduFields
  <2> QED BY <2>2, Zenon DEF SpduSet, Prepare
<1>8. \A x \in {"user", "provider"} :
           Abort(x) \in SpduSet /\ [Abort(x) EXCEPT !.xpd = FALSE] \in SpduSet
  <2> TAKE x \in {"user", "provider"}
  <2> DEFINE m1 == [Spdu("AB") EXCEPT !.type = x]
             m2 == [m1 EXCEPT !.xpd = Expd]
             m3 == [m2 EXCEPT !.xpd = FALSE]
  <2>1. m1 \in SpduShape /\ m1.code = "AB"
    <3>1. Spdu("AB") \in SpduShape /\ Spdu("AB").code = "AB"
      BY SpduTyped DEF Code
    <3>2. x \in SpduType
      BY DEF SpduType
    <3> QED BY <3>1, <3>2, SpduFields, Zenon
  <2>2. m2 \in SpduShape /\ m2.code = "AB"
    <3> HIDE DEF m1
    <3> QED BY <2>1, SpduFields, ExpdAssumption
  <2>3. m3 \in SpduShape /\ m3.code = "AB"
    <3> HIDE DEF m2
    <3> QED BY <2>2, SpduFields
  <2> QED BY <2>2, <2>3, Zenon DEF SpduSet, Abort
<1>9. \A ts \in SUBSET Tokens : [Spdu("PT") EXCEPT !.tokens = ts] \in SpduSet
  <2> TAKE ts \in SUBSET Tokens
  <2> DEFINE m1 == [Spdu("PT") EXCEPT !.tokens = ts]
  <2>1. m1 \in SpduShape /\ m1.code = "PT"
    <3>1. Spdu("PT") \in SpduShape /\ Spdu("PT").code = "PT"
      BY SpduTyped DEF Code
    <3> QED BY <3>1, SpduFields, Zenon
  <2> QED BY <2>1, Zenon DEF SpduSet
<1> QED BY <1>1, <1>2, <1>3, <1>4, <1>5, <1>6, <1>7, <1>8, <1>9

-----------------------------------------------------------------------------
(* The transport: queues stay queues of SPDUs.                             *)

(* One SPDU is a queue.                                                    *)
LEMMA SingletonTyped == \A m \in SpduSet : <<m>> \in Seq(SpduSet)
OBVIOUS

(* An expedited TSDU put anywhere in a queue leaves a queue.               *)
LEMMA InsertAfterTyped ==
    ASSUME NEW q \in Seq(SpduSet), NEW i \in 0..Len(q), NEW m \in SpduSet
    PROVE  InsertAfter(q, i, m) \in Seq(SpduSet)
BY DEF InsertAfter

(* So does every way the transport may queue a TSDU.                       *)
LEMMA QueuedTyped ==
    ASSUME NEW q \in Seq(SpduSet), NEW m \in SpduSet
    PROVE  Queued(q, m) \subseteq Seq(SpduSet)
BY InsertAfterTyped DEF Queued, ExpeditedSlots

(* What SWriteRequestAux writes, the PR ahead included, joins the queue.   *)
LEMMA WrittenTyped ==
    ASSUME NEW q \in Seq(SpduSet), NEW m \in SpduSet
    PROVE  Written(q, m) \subseteq Seq(SpduSet)
<1>1. CASE Expd /\ Preparation(m.code) # "none"
  <2>1. Preparation(m.code) \in PrType
    BY <1>1 DEF Preparation, PrType
  <2>2. Queued(q, Prepare(Preparation(m.code))) \subseteq Seq(SpduSet)
    BY <2>1, MessagesTyped, QueuedTyped
  <2> QED BY <1>1, <2>2 DEF Written
<1>2. CASE ~(Expd /\ Preparation(m.code) # "none")
  BY <1>2 DEF Written
<1> QED BY <1>1, <1>2

(* What a freed block no longer receives is an empty queue.                *)
LEMMA ArrivingTyped ==
    ASSUME NEW s \in Side, NEW q \in Seq(SpduSet)
    PROVE  Arriving(s, q) \in Seq(SpduSet)
BY DEF Arriving

(* The peer of a side is a side.                                           *)
LEMMA PeerSide == \A s \in Side : Peer(s) \in Side
BY DEF Peer, Side

(* Writing one SPDU keeps both queues typed.                               *)
LEMMA SendTyped ==
    ASSUME TypeOK, NEW s \in Side, NEW m \in SpduSet,
           spkt2sd(s, m) \/ SWriteRequestAux(s, m)
    PROVE  net' \in [Side -> Seq(SpduSet)]
<1>1. net[Peer(s)] \in Seq(SpduSet)
  BY PeerSide DEF TypeOK
<1>2. PICK q \in Seq(SpduSet) :
          net' = [net EXCEPT ![Peer(s)] = Arriving(Peer(s), q)]
  BY <1>1, QueuedTyped, WrittenTyped DEF spkt2sd, SWriteRequestAux
<1>3. Arriving(Peer(s), q) \in Seq(SpduSet)
  BY PeerSide, ArrivingTyped
<1> QED BY <1>2, <1>3, PeerSide DEF TypeOK

-----------------------------------------------------------------------------
(* The block: assigning a value of its type to a field keeps it a block.   *)

(* Assigning one field of a block a value of its type keeps it a block.    *)
LEMMA BlockFields ==
    \A b \in Ssapblk :
        /\ \A x \in Mode : [b EXCEPT !.mode = x] \in Ssapblk
        /\ \A x \in SUBSET Flag : [b EXCEPT !.flags = x] \in Ssapblk
        /\ \A x \in SUBSET Tokens : [b EXCEPT !.owned = x] \in Ssapblk
        /\ \A x \in Int : [b EXCEPT !.V_A = x] \in Ssapblk
        /\ \A x \in Int : [b EXCEPT !.V_M = x] \in Ssapblk
        /\ \A x \in Int : [b EXCEPT !.V_R = x] \in Ssapblk
        /\ \A x \in SyncType : [b EXCEPT !.rs = x] \in Ssapblk
        /\ \A x \in Int : [b EXCEPT !.rsn = x] \in Ssapblk
        /\ \A x \in Settings : [b EXCEPT !.rsettings = x] \in Ssapblk
        /\ \A x \in {"PR"} \cup PrType : [b EXCEPT !.pr = x] \in Ssapblk
        /\ \A x \in BOOLEAN : [b EXCEPT !.xspdu = x] \in Ssapblk
        /\ \A x \in Seq(SpduSet) : [b EXCEPT !.spdu = x] \in Ssapblk
BY DEF Ssapblk

(* The fields of a block have their types.                                 *)
LEMMA BlockTyped ==
    ASSUME NEW b \in Ssapblk
    PROVE  /\ b.mode \in Mode /\ b.flags \in SUBSET Flag
           /\ b.owned \in SUBSET Tokens
           /\ b.V_A \in Int /\ b.V_M \in Int /\ b.V_R \in Int
           /\ b.rs \in SyncType /\ b.rsn \in Int /\ b.rsettings \in Settings
           /\ b.pr \in {"PR"} \cup PrType
           /\ b.xspdu \in BOOLEAN /\ b.spdu \in Seq(SpduSet)
BY DEF Ssapblk

(* Replacing one side's block by a block keeps both typed.                 *)
LEMMA SetsBlock ==
    ASSUME TypeOK, NEW s \in Side, NEW b \in Ssapblk, sb' = [sb EXCEPT ![s] = b]
    PROVE  sb' \in [Side -> Ssapblk]
BY DEF TypeOK

(* Starting or resuming an activity leaves a block.                        *)
LEMMA InActivityTyped ==
    ASSUME NEW b \in Ssapblk, NEW from \in Int
    PROVE  InActivity(b, from) \in Ssapblk
<1>1. b.flags \cup {"Vact"} \in SUBSET Flag /\ 1 \in Int
  BY BlockTyped DEF Flag
<1> QED BY <1>1, BlockFields, Zenon DEF InActivity

(* A connection starts with a block.                                       *)
LEMMA NewTyped ==
    ASSUME NEW owned \in SUBSET Tokens, NEW isn \in Int
    PROVE  newsblk(owned, isn) \in Ssapblk
<1>1. NoSettings \in Settings
  BY DEF NoSettings, Settings
<1> QED BY <1>1 DEF newsblk, Ssapblk, Mode, SyncType, ReSync

(* A freed block is one too: its mode tells that it is freed.              *)
LEMMA FreedTyped == \A mode \in Mode : Freed(mode) \in Ssapblk
BY NewTyped, BlockFields DEF Freed

(* freesblk keeps the type invariant, whatever the disconnect destroys.    *)
LEMMA Frees ==
    ASSUME TypeOK, NEW s \in Side, NEW mode \in Mode,
           NEW qs \in SUBSET Seq(SpduSet), freesblk(s, mode, qs)
    PROVE  TypeOK'
<1>1. sb' \in [Side -> Ssapblk]
  BY FreedTyped, SetsBlock DEF freesblk
<1>2. Spdu("TDISC") \in SpduSet
  BY PlainSpdu DEF Code
<1>3. PICK q \in qs : \E r \in Disconnected(q) :
          net' = [net EXCEPT ![s] = <<>>, ![Peer(s)] = Arriving(Peer(s), r)]
  BY Zenon DEF freesblk
<1>. PICK r \in Disconnected(q) :
          net' = [net EXCEPT ![s] = <<>>, ![Peer(s)] = Arriving(Peer(s), r)]
  BY <1>3
<1>4. r \in Seq(SpduSet)
  <2>1. q \in Seq(SpduSet) /\ (r = Append(q, Spdu("TDISC")) \/ r = <<Spdu("TDISC")>>)
    BY DEF Disconnected
  <2>2. Append(q, Spdu("TDISC")) \in Seq(SpduSet)
    BY <1>2, <2>1
  <2>3. <<Spdu("TDISC")>> \in Seq(SpduSet)
    BY <1>2, SingletonTyped
  <2> QED BY <2>1, <2>2, <2>3
<1>5. net' \in [Side -> Seq(SpduSet)]
  <2> DEFINE n1 == [net EXCEPT ![s] = <<>>]
  <2>1. n1 \in [Side -> Seq(SpduSet)]
    BY DEF TypeOK
  <2>2. Arriving(Peer(s), r) \in Seq(SpduSet)
    BY <1>4, PeerSide, ArrivingTyped
  <2>3. net' = [n1 EXCEPT ![Peer(s)] = Arriving(Peer(s), r)]
    OBVIOUS
  <2> HIDE DEF n1
  <2> QED BY <2>1, <2>2, <2>3, PeerSide
<1> QED BY <1>1, <1>5 DEF TypeOK

-----------------------------------------------------------------------------
(* Reading.                                                                *)

(* An abort of the provider is such a freesblk.                            *)
LEMMA Aborts ==
    ASSUME TypeOK, NEW s \in Side, ProtocolAbort(s)
    PROVE  TypeOK'
<1>1. net[Peer(s)] \in Seq(SpduSet) /\ Abort("provider") \in SpduSet
  BY PeerSide, MessagesTyped DEF TypeOK
<1>2. Queued(net[Peer(s)], Abort("provider")) \in SUBSET Seq(SpduSet)
  BY <1>1, QueuedTyped
<1> QED BY <1>2, Frees DEF ProtocolAbort, Mode

(* Counting a synchronization point of the peer leaves a block.            *)
LEMMA SyncPointTyped == \A b \in Ssapblk : SyncPointOfPeer(b) \in Ssapblk
<1> TAKE b \in Ssapblk
<1>1. (IF "Vsc" \in b.flags THEN b.V_A ELSE b.V_M) \in Int /\ b.V_M + 1 \in Int
  BY BlockTyped
<1> QED BY <1>1, BlockFields, Zenon DEF SyncPointOfPeer

(* What sb2spkt hands out is an SPDU, and it leaves a block and a queue.   *)
LEMMA IncomingTyped ==
    ASSUME TypeOK, NEW s \in Side, Readable(s)
    PROVE  /\ Incoming(s) \in SpduSet
           /\ Rest(s) \in Seq(SpduSet)
           /\ sb2spkt(sb[s]) \in Ssapblk
           /\ Taken(s) \in Ssapblk
<1>1. sb[s] \in Ssapblk /\ net[s] \in Seq(SpduSet) /\ sb[s].spdu \in Seq(SpduSet)
  BY BlockTyped DEF TypeOK
<1>2. Incoming(s) \in SpduSet
  <2>1. CASE XsduReady(sb[s])
    BY <2>1, MessagesTyped, Zenon DEF Incoming
  <2>2. CASE ~XsduReady(sb[s]) /\ sb[s].spdu # <<>>
    <3>1. Head(sb[s].spdu) \in SpduSet
      BY <1>1, <2>2
    <3> QED BY <2>2, <3>1, Zenon DEF Incoming
  <2>3. CASE ~XsduReady(sb[s]) /\ sb[s].spdu = <<>>
    <3>1. Head(net[s]) \in SpduSet
      BY <1>1, <2>3 DEF Readable, FromNet
    <3> QED BY <2>3, <3>1, Zenon DEF Incoming
  <2> QED BY <2>1, <2>2, <2>3, Zenon
<1>3. Rest(s) \in Seq(SpduSet)
  BY <1>1 DEF Rest, Readable, FromNet
<1>4. sb2spkt(sb[s]) \in Ssapblk
  <2>1. FALSE \in BOOLEAN /\ <<>> \in Seq(SpduSet)
    OBVIOUS
  <2>2. /\ [sb[s] EXCEPT !.xspdu = FALSE] \in Ssapblk
        /\ [sb[s] EXCEPT !.spdu = <<>>] \in Ssapblk
    BY <1>1, <2>1, BlockFields, Zenon
  <2> QED BY <2>2, Zenon DEF sb2spkt
<1>5. Taken(s) \in Ssapblk
  <2>1. (IF ~Incoming(s).xpd /\ EndsPreparation(sb2spkt(sb[s]).pr, Incoming(s))
            THEN "PR" ELSE sb2spkt(sb[s]).pr) \in {"PR"} \cup PrType
    BY <1>4, BlockTyped
  <2> QED BY <1>4, <2>1, BlockFields, Zenon DEF Taken
<1> QED BY <1>2, <1>3, <1>4, <1>5

(* Reading an SPDU and storing a new block keeps the type invariant.       *)
LEMMA Does ==
    ASSUME TypeOK, NEW s \in Side, Readable(s), NEW b \in Ssapblk, Done(s, b)
    PROVE  TypeOK'
<1>1. sb' \in [Side -> Ssapblk]
  BY SetsBlock DEF Done
<1>2. net' \in [Side -> Seq(SpduSet)]
  BY IncomingTyped DEF Done, TypeOK
<1> QED BY <1>1, <1>2 DEF TypeOK

-----------------------------------------------------------------------------
(* Every action preserves the type invariant.                              *)

(* No user request breaks the type invariant.                              *)
LEMMA RequestsTyped ==
    ASSUME TypeOK, NEW s \in Side, UserRequest(s)
    PROVE  TypeOK'
<1>b. sb[s] \in Ssapblk
  BY DEF TypeOK
<1>f. /\ sb[s].flags \in SUBSET Flag /\ sb[s].owned \in SUBSET Tokens
      /\ sb[s].V_A \in Int /\ sb[s].V_M \in Int /\ sb[s].V_R \in Int
  BY <1>b, BlockTyped
<1>p. \A c \in Code \ {"RS", "PR"} : Spdu(c) \in SpduSet
  BY PlainSpdu
<1>1. CASE SDataRequest(s) \/ STypedRequest(s)
  <2>1. Spdu("DT") \in SpduSet /\ Spdu("TD") \in SpduSet
    BY <1>p DEF Code
  <2>2. net' \in [Side -> Seq(SpduSet)]
    BY <1>1, <2>1, SendTyped DEF SDataRequest, STypedRequest
  <2> QED BY <1>1, <2>2 DEF SDataRequest, STypedRequest, TypeOK
<1>2. CASE SExpdRequest(s)
  <2>1. net' \in [Side -> Seq(SpduSet)]
    BY <1>2, MessagesTyped, SendTyped DEF SExpdRequest
  <2> QED BY <1>2, <2>1 DEF SExpdRequest, TypeOK
<1>3. CASE SGTokenRequest(s)
  <2>1. PICK ts \in (SUBSET sb[s].owned) \ {{}} :
          /\ spkt2sd(s, [Spdu("GT") EXCEPT !.tokens = ts])
          /\ sb' = [sb EXCEPT ![s].owned = @ \ ts,
                              ![s].flags = IF "dat" \in ts THEN @ \ {"EDACK"} ELSE @]
    BY <1>3, Zenon DEF SGTokenRequest
  <2>2. ts \in SUBSET Tokens
    BY <1>f
  <2>3. net' \in [Side -> Seq(SpduSet)]
    BY <2>1, <2>2, MessagesTyped, SendTyped
  <2>4. /\ sb[s].owned \ ts \in SUBSET Tokens
        /\ (IF "dat" \in ts THEN sb[s].flags \ {"EDACK"} ELSE sb[s].flags) \in SUBSET Flag
    BY <1>f
  <2>5. sb' \in [Side -> Ssapblk]
    BY <2>1, <2>4, BlockFields, Zenon DEF TypeOK
  <2> QED BY <2>3, <2>5 DEF TypeOK
<1>4. CASE SPTokenRequest(s)
  <2>1. PICK ts \in SUBSET Tokens : spkt2sd(s, [Spdu("PT") EXCEPT !.tokens = ts])
    BY <1>4 DEF SPTokenRequest
  <2>2. net' \in [Side -> Seq(SpduSet)]
    BY <2>1, MessagesTyped, SendTyped
  <2> QED BY <1>4, <2>2 DEF SPTokenRequest, TypeOK
<1>5. CASE SGControlRequest(s)
  <2>1. Spdu("GTC") \in SpduSet
    BY <1>p DEF Code
  <2>2. net' \in [Side -> Seq(SpduSet)]
    BY <1>5, <2>1, SendTyped DEF SGControlRequest
  <2>3. sb[s].flags \cup {"GTC"} \in SUBSET Flag /\ {} \in SUBSET Tokens
    BY <1>f DEF Flag
  <2>4. sb' \in [Side -> Ssapblk]
    BY <1>5, <2>3, BlockFields, Zenon DEF SGControlRequest, TypeOK
  <2> QED BY <2>2, <2>4 DEF TypeOK
<1>6. CASE SCapdRequest(s)
  <2>1. Spdu("CD") \in SpduSet
    BY <1>p DEF Code
  <2>2. net' \in [Side -> Seq(SpduSet)]
    BY <1>6, <2>1, SendTyped DEF SCapdRequest
  <2>3. sb[s].flags \cup {"CD"} \in SUBSET Flag
    BY <1>f DEF Flag
  <2>4. sb' \in [Side -> Ssapblk]
    BY <1>6, <2>3, BlockFields, Zenon DEF SCapdRequest, TypeOK
  <2> QED BY <2>2, <2>4 DEF TypeOK
<1>7. CASE SMinSyncRequest(s)
  <2>1. net' \in [Side -> Seq(SpduSet)]
    BY <1>7, <1>f, MessagesTyped, SendTyped DEF SMinSyncRequest
  <2>2. /\ ConfirmedTo(sb[s]) \in Int /\ sb[s].V_M + 1 \in Int
        /\ sb[s].flags \ {"Vsc"} \in SUBSET Flag
    BY <1>f DEF ConfirmedTo
  <2>3. sb' \in [Side -> Ssapblk]
    BY <1>7, <2>2, BlockFields, Zenon DEF SMinSyncRequest, TypeOK
  <2> QED BY <2>1, <2>3 DEF TypeOK
<1>8. CASE SMinSyncResponse(s)
  <2>1. PICK ssn \in sb[s].V_A .. MaxSsn :
          /\ SWriteRequestAux(s, [Spdu("MIA") EXCEPT !.ssn = ssn])
          /\ sb' = [sb EXCEPT ![s].V_A = ssn + 1]
    BY <1>8, Zenon DEF SMinSyncResponse
  <2>2. ssn \in Int /\ ssn + 1 \in Int
    BY <1>f, MaxSsnAssumption
  <2>3. net' \in [Side -> Seq(SpduSet)]
    BY <2>1, <2>2, MessagesTyped, SendTyped
  <2>4. sb' \in [Side -> Ssapblk]
    BY <2>1, <2>2, BlockFields, Zenon DEF TypeOK
  <2> QED BY <2>3, <2>4 DEF TypeOK
<1>9. CASE \E end \in BOOLEAN : SMajSyncRequestAux(s, end)
  <2>1. PICK end \in BOOLEAN : SMajSyncRequestAux(s, end)
    BY <1>9
  <2>2. (IF end THEN "end" ELSE "noend") \in {"end", "noend"}
    OBVIOUS
  <2>3. [Spdu("MAP") EXCEPT !.ssn = sb[s].V_M, !.type = IF end THEN "end" ELSE "noend"]
            \in SpduSet
    BY <1>f, <2>2, MessagesTyped, Zenon
  <2>4. net' \in [Side -> Seq(SpduSet)]
    BY <2>1, <2>3, SendTyped, Zenon DEF SMajSyncRequestAux
  <2>5. /\ ConfirmedTo(sb[s]) \in Int /\ sb[s].V_M + 1 \in Int
        /\ ((IF end THEN (sb[s].flags \ {"Vnextact"}) \cup {"AE"}
             ELSE IF Needs("ACTIVITY") THEN sb[s].flags \cup {"Vnextact"} ELSE sb[s].flags)
                \cup {"MAP"}) \ {"Vsc"} \in SUBSET Flag
    BY <1>f DEF ConfirmedTo, Flag
  <2>6. sb' \in [Side -> Ssapblk]
    BY <2>1, <2>5, BlockFields, Zenon DEF SMajSyncRequestAux, TypeOK
  <2> QED BY <2>4, <2>6 DEF TypeOK
<1>10. CASE SReSyncRequest(s)
  <2>1. PICK type \in ReSync, settings \in Proposals :
          \E ssn \in ResyncPoints(sb[s], type) :
            /\ SWriteRequestAux(s, [Spdu("RS") EXCEPT !.type = type, !.ssn = ssn,
                                                      !.settings = settings])
            /\ sb' = [sb EXCEPT ![s].flags = (@ \cup {"RS"}) \ {"RA", "EDACK"},
                                ![s].rs = type, ![s].rsn = ssn,
                                ![s].rsettings = settings]
    BY <1>10, Zenon DEF SReSyncRequest
  <2>2. PICK ssn \in ResyncPoints(sb[s], type) :
            /\ SWriteRequestAux(s, [Spdu("RS") EXCEPT !.type = type, !.ssn = ssn,
                                                      !.settings = settings])
            /\ sb' = [sb EXCEPT ![s].flags = (@ \cup {"RS"}) \ {"RA", "EDACK"},
                                ![s].rs = type, ![s].rsn = ssn,
                                ![s].rsettings = settings]
    BY <2>1, Zenon
  <2>3. ssn \in Int
    BY <1>f, MaxSsnAssumption DEF ResyncPoints, ReSync
  <2>4. settings \in Settings /\ type \in SyncType
    BY ProposalsAssumption DEF SyncType
  <2>5. [Spdu("RS") EXCEPT !.type = type, !.ssn = ssn, !.settings = settings] \in SpduSet
    BY <2>3, <2>4, MessagesTyped, Zenon
  <2>6. net' \in [Side -> Seq(SpduSet)]
    BY <2>2, <2>5, SendTyped, Zenon
  <2>7. (sb[s].flags \cup {"RS"}) \ {"RA", "EDACK"} \in SUBSET Flag
    BY <1>f DEF Flag
  <2>8. sb' \in [Side -> Ssapblk]
    BY <2>2, <2>3, <2>4, <2>7, BlockFields, Zenon DEF TypeOK
  <2> QED BY <2>6, <2>8 DEF TypeOK
<1>11. CASE SUReportRequest(s)
  <2>1. Spdu("ED") \in SpduSet
    BY <1>p DEF Code
  <2>2. net' \in [Side -> Seq(SpduSet)]
    BY <1>11, <2>1, SendTyped DEF SUReportRequest
  <2>3. sb[s].flags \cup {"ED"} \in SUBSET Flag
    BY <1>f DEF Flag
  <2>4. sb' \in [Side -> Ssapblk]
    BY <1>11, <2>3, BlockFields, Zenon DEF SUReportRequest, TypeOK
  <2> QED BY <2>2, <2>4 DEF TypeOK
<1>12. CASE SActStartRequest(s)
  <2>1. Spdu("AS") \in SpduSet
    BY <1>p DEF Code
  <2>2. net' \in [Side -> Seq(SpduSet)]
    BY <1>12, <2>1, SendTyped DEF SActStartRequest
  <2>3. InActivity(sb[s], 1) \in Ssapblk
    BY <1>b, InActivityTyped
  <2>4. sb' \in [Side -> Ssapblk]
    BY <1>12, <2>3, SetsBlock DEF SActStartRequest
  <2> QED BY <2>2, <2>4 DEF TypeOK
<1>13. CASE SActResumeRequest(s)
  <2>1. PICK ssn \in 0..MaxSsn :
          /\ SWriteRequestAux(s, [Spdu("AR") EXCEPT !.ssn = ssn])
          /\ sb' = [sb EXCEPT ![s] = InActivity(@, ssn + 1)]
    BY <1>13 DEF SActResumeRequest
  <2>2. ssn \in Int
    BY MaxSsnAssumption
  <2>3. net' \in [Side -> Seq(SpduSet)]
    BY <2>1, <2>2, MessagesTyped, SendTyped
  <2>4. InActivity(sb[s], ssn + 1) \in Ssapblk
    BY <1>b, <2>2, InActivityTyped
  <2>5. sb' \in [Side -> Ssapblk]
    BY <2>1, <2>4, SetsBlock
  <2> QED BY <2>3, <2>5 DEF TypeOK
<1>14. CASE SActIntrRequest(s)
  <2>1. PICK how \in {"intr", "disc"} :
          /\ SWriteRequestAux(s, Spdu(IF how = "intr" THEN "AI" ELSE "AD"))
          /\ sb' = [sb EXCEPT ![s].flags = (@ \cup {"AI"}) \ {"RA", "EDACK"},
                              ![s].rs = how]
    BY <1>14, Zenon DEF SActIntrRequest
  <2>2. Spdu(IF how = "intr" THEN "AI" ELSE "AD") \in SpduSet
    BY <1>p DEF Code
  <2>3. net' \in [Side -> Seq(SpduSet)]
    BY <2>1, <2>2, SendTyped
  <2>4. (sb[s].flags \cup {"AI"}) \ {"RA", "EDACK"} \in SUBSET Flag /\ how \in SyncType
    BY <1>f DEF Flag, SyncType
  <2>5. sb' \in [Side -> Ssapblk]
    BY <2>1, <2>4, BlockFields, Zenon DEF TypeOK
  <2> QED BY <2>3, <2>5 DEF TypeOK
<1>15. CASE SUAbortRequest(s)
  <2> DEFINE qs(long) == IF long THEN {Append(r, [Abort("user") EXCEPT !.xpd = FALSE]) :
                                        r \in Queued(net[Peer(s)], Prepare("AB"))}
                         ELSE Queued(net[Peer(s)], Abort("user"))
  <2>1. PICK long \in BOOLEAN : freesblk(s, "aborted", qs(long))
    BY <1>15, Zenon DEF SUAbortRequest
  <2>2. net[Peer(s)] \in Seq(SpduSet)
    BY PeerSide DEF TypeOK
  <2>3. Prepare("AB") \in SpduSet /\ Abort("user") \in SpduSet
            /\ [Abort("user") EXCEPT !.xpd = FALSE] \in SpduSet
    BY MessagesTyped DEF PrType
  <2>4. qs(long) \in SUBSET Seq(SpduSet)
    BY <2>2, <2>3, QueuedTyped
  <2> QED BY <2>1, <2>4, Frees DEF Mode
<1>16. CASE SRelRequest(s)
  <2>1. Spdu("FN") \in SpduSet
    BY <1>p DEF Code
  <2>2. net' \in [Side -> Seq(SpduSet)]
    BY <1>16, <2>1, SendTyped DEF SRelRequest
  <2>3. sb' \in [Side -> Ssapblk]
    BY <1>16, BlockFields DEF SRelRequest, TypeOK, Mode
  <2> QED BY <2>2, <2>3 DEF TypeOK
<1> QED
  BY <1>1, <1>2, <1>3, <1>4, <1>5, <1>6, <1>7, <1>8, <1>9, <1>10, <1>11, <1>12,
     <1>13, <1>14, <1>15, <1>16
     DEF UserRequest, SMajSyncRequest, SActEndRequest

(* Applying the outcome of a resynchronization leaves a block.             *)
LEMMA ResynchronizedTyped ==
    ASSUME NEW s \in Side, NEW b \in Ssapblk, NEW ssn \in Int, NEW settings
    PROVE  Resynchronized(s, b, ssn, settings) \in Ssapblk
<1>1. /\ b.V_R \in Int /\ b.owned \in SUBSET Tokens
  BY BlockTyped
<1>2. (IF b.rs # "restart" THEN 0 ELSE b.V_R) \in Int
  BY <1>1
<1>3. TokensOf(s, settings, b.owned) \in SUBSET Tokens
  BY <1>1 DEF TokensOf
<1> QED BY <1>2, <1>3, BlockFields, Zenon DEF Resynchronized

(* The activity flags after a confirmed major sync are flags.              *)
LEMMA ActivityAfterMajorTyped ==
    \A fs \in SUBSET Flag : ActivityAfterMajor(fs) \in SUBSET Flag
BY DEF ActivityAfterMajor, Flag

(* No user response breaks the type invariant.                             *)
LEMMA ResponsesTyped ==
    ASSUME TypeOK, NEW s \in Side, UserResponse(s)
    PROVE  TypeOK'
<1>b. sb[s] \in Ssapblk
  BY DEF TypeOK
<1>f. /\ sb[s].flags \in SUBSET Flag /\ sb[s].owned \in SUBSET Tokens
      /\ sb[s].V_A \in Int /\ sb[s].V_M \in Int /\ sb[s].V_R \in Int
  BY <1>b, BlockTyped
<1>p. \A c \in Code \ {"RS", "PR"} : Spdu(c) \in SpduSet
  BY PlainSpdu
<1>1. CASE SCapdResponse(s)
  <2>1. Spdu("CDA") \in SpduSet
    BY <1>p DEF Code
  <2>2. net' \in [Side -> Seq(SpduSet)]
    BY <1>1, <2>1, SendTyped DEF SCapdResponse
  <2>3. sb[s].flags \ {"CDA"} \in SUBSET Flag
    BY <1>f
  <2>4. sb' \in [Side -> Ssapblk]
    BY <1>1, <2>3, BlockFields, Zenon DEF SCapdResponse, TypeOK
  <2> QED BY <2>2, <2>4 DEF TypeOK
<1>2. CASE SMajSyncResponse(s)
  <2>1. sb[s].V_M - 1 \in Int
    BY <1>f
  <2>2. net' \in [Side -> Seq(SpduSet)]
    BY <1>2, <2>1, MessagesTyped, SendTyped DEF SMajSyncResponse
  <2>3. ActivityAfterMajor(sb[s].flags) \ {"MAA", "AE"} \in SUBSET Flag
    BY <1>f, ActivityAfterMajorTyped
  <2>4. sb' \in [Side -> Ssapblk]
    BY <1>2, <1>f, <2>3, BlockFields, Zenon DEF SMajSyncResponse, TypeOK
  <2> QED BY <2>2, <2>4 DEF TypeOK
<1>3. CASE SReSyncResponse(s)
  <2>1. PICK settings \in FinalSettings : \E ssn \in AcceptedPoints(sb[s]) :
          /\ SWriteRequestAux(s, [Spdu("RA") EXCEPT !.ssn = ssn, !.settings = settings])
          /\ sb' = [sb EXCEPT ![s] =
                     [Resynchronized(s, sb[s], ssn, settings) EXCEPT !.flags = @ \ {"RA"}]]
    BY <1>3, Zenon DEF SReSyncResponse
  <2>2. PICK ssn \in AcceptedPoints(sb[s]) :
          /\ SWriteRequestAux(s, [Spdu("RA") EXCEPT !.ssn = ssn, !.settings = settings])
          /\ sb' = [sb EXCEPT ![s] =
                     [Resynchronized(s, sb[s], ssn, settings) EXCEPT !.flags = @ \ {"RA"}]]
    BY <2>1, Zenon
  <2>3. ssn \in Int
    <3>1. sb[s].rsn \in Int
      BY <1>b, BlockTyped
    <3> QED BY <3>1, <1>f, MaxSsnAssumption DEF AcceptedPoints
  <2>4. settings \in Settings
    BY DEF FinalSettings, Settings
  <2>5. net' \in [Side -> Seq(SpduSet)]
    <3>1. [Spdu("RA") EXCEPT !.ssn = ssn, !.settings = settings] \in SpduSet
      BY <2>3, <2>4, MessagesTyped, Zenon
    <3> QED BY <2>2, <3>1, SendTyped, Zenon
  <2>6. Resynchronized(s, sb[s], ssn, settings) \in Ssapblk
    BY <1>b, <2>3, ResynchronizedTyped
  <2>7. Resynchronized(s, sb[s], ssn, settings).flags \ {"RA"} \in SUBSET Flag
    BY <2>6, BlockTyped
  <2>8. [Resynchronized(s, sb[s], ssn, settings) EXCEPT !.flags = @ \ {"RA"}] \in Ssapblk
    BY <2>6, <2>7, BlockFields, Zenon
  <2>9. sb' \in [Side -> Ssapblk]
    <3> DEFINE b1 == [Resynchronized(s, sb[s], ssn, settings) EXCEPT !.flags = @ \ {"RA"}]
    <3>1. sb' = [sb EXCEPT ![s] = b1]
      BY <2>2, Zenon
    <3>2. b1 \in Ssapblk
      BY <2>8, Zenon
    <3> HIDE DEF b1
    <3> QED BY <3>1, <3>2, SetsBlock
  <2> QED BY <2>5, <2>9 DEF TypeOK
<1>4. CASE SActIntrResponse(s)
  <2>1. Spdu("AIA") \in SpduSet
    BY <1>p DEF Code
  <2>2. net' \in [Side -> Seq(SpduSet)]
    BY <1>4, <2>1, SendTyped DEF SActIntrResponse
  <2>3. sb[s].flags \ {"AIA", "Vact"} \in SUBSET Flag /\ {} \in SUBSET Tokens
    BY <1>f
  <2>4. sb' \in [Side -> Ssapblk]
    <3>1. sb' = [sb EXCEPT ![s].flags = @ \ {"AIA", "Vact"}, ![s].owned = {}]
      BY <1>4, Zenon DEF SActIntrResponse
    <3>2. [sb[s] EXCEPT !.flags = @ \ {"AIA", "Vact"}] \in Ssapblk
      BY <1>b, <2>3, BlockFields, Zenon
    <3> QED BY <3>1, <3>2, <2>3, BlockFields, Zenon DEF TypeOK
  <2> QED BY <2>2, <2>4 DEF TypeOK
<1>5. CASE SRelResponse(s)
  <2>1. Spdu("DN") \in SpduSet /\ Spdu("NF") \in SpduSet
    BY <1>p DEF Code
  <2>2. net' \in [Side -> Seq(SpduSet)]
    BY <1>5, <2>1, SendTyped DEF SRelResponse
  <2>3. sb[s].flags \ {"FINN"} \in SUBSET Flag /\ Freed("draining") \in Ssapblk
    BY <1>f, FreedTyped DEF Mode
  <2>4. \/ sb' = [sb EXCEPT ![s] = Freed("draining")]
        \/ sb' = [sb EXCEPT ![s].flags = @ \ {"FINN"}]
    BY <1>5, Zenon DEF SRelResponse
  <2>5. sb' \in [Side -> Ssapblk]
    <3>1. CASE sb' = [sb EXCEPT ![s] = Freed("draining")]
      BY <2>3, <3>1, SetsBlock
    <3>2. CASE sb' = [sb EXCEPT ![s].flags = @ \ {"FINN"}]
      BY <2>3, <3>2, BlockFields, Zenon DEF TypeOK
    <3> QED BY <2>4, <3>1, <3>2
  <2> QED BY <2>2, <2>5 DEF TypeOK
<1>6. CASE SRelRetryRequest(s)
  <2>1. "waiting" \in Mode
    BY DEF Mode
  <2>2. sb' \in [Side -> Ssapblk]
    BY <1>6, <2>1, BlockFields, Zenon DEF SRelRetryRequest, TypeOK
  <2> QED BY <1>6, <2>2 DEF SRelRetryRequest, TypeOK
<1> QED
  BY <1>1, <1>2, <1>3, <1>4, <1>5, <1>6 DEF UserResponse

(* No time-out of a release breaks the type invariant.                     *)
LEMMA TimersTyped ==
    ASSUME TypeOK, NEW s \in Side, Timer(s)
    PROVE  TypeOK'
<1>1. CASE SRelTimeout(s)
  <2>1. sb[s] \in Ssapblk
    BY DEF TypeOK
  <2>2. sb[s].flags \cup {"RELEASE"} \in SUBSET Flag /\ "open" \in Mode
    BY <2>1, BlockTyped DEF Flag, Mode
  <2>3. sb' \in [Side -> Ssapblk]
    BY <1>1, <2>2, BlockFields, Zenon DEF SRelTimeout, TypeOK
  <2> QED BY <1>1, <2>3 DEF SRelTimeout, TypeOK
<1>2. CASE DrainTimeout(s)
  <2>1. {net[Peer(s)]} \in SUBSET Seq(SpduSet)
    BY PeerSide DEF TypeOK
  <2> QED BY <1>2, <2>1, Frees DEF DrainTimeout, Mode
<1> QED BY <1>1, <1>2 DEF Timer

(* Every SPDU read leads to Done with a new block, to freesblk, or to an   *)
(* answer the provider itself writes.                                      *)
LEMMA Answers ==
    ASSUME TypeOK, NEW s \in Side, Readable(s), NEW b \in Ssapblk, NEW m \in SpduSet,
           sb' = [sb EXCEPT ![s] = b],
           net' = [net EXCEPT ![s] = Rest(s),
                       ![Peer(s)] = Arriving(Peer(s), Append(@, m))]
    PROVE  TypeOK'
<1>1. sb' \in [Side -> Ssapblk]
  BY SetsBlock
<1>2. net' \in [Side -> Seq(SpduSet)]
  <2> DEFINE n1 == [net EXCEPT ![s] = Rest(s)]
  <2>1. n1 \in [Side -> Seq(SpduSet)]
    BY IncomingTyped DEF TypeOK
  <2>2. net' = [n1 EXCEPT ![Peer(s)] = Arriving(Peer(s), Append(n1[Peer(s)], m))]
    <3>1. Peer(s) # s
      BY DEF Peer, Side
    <3>2. n1[Peer(s)] = net[Peer(s)]
      BY <3>1, PeerSide DEF TypeOK
    <3> QED BY <3>2, Zenon
  <2> HIDE DEF n1
  <2>3. Append(n1[Peer(s)], m) \in Seq(SpduSet)
    BY <2>1, PeerSide
  <2>4. Arriving(Peer(s), Append(n1[Peer(s)], m)) \in Seq(SpduSet)
    BY <2>3, PeerSide, ArrivingTyped
  <2> QED BY <2>1, <2>2, <2>4, PeerSide
<1> QED BY <1>1, <1>2 DEF TypeOK

(* No SPDU that is read, in any state, breaks the type invariant.          *)
LEMMA ReadsTyped ==
    ASSUME TypeOK, NEW s \in Side, Read(s)
    PROVE  TypeOK'
<1> DEFINE m == Incoming(s)
           b == Taken(s)
<1>r. Readable(s) \/ Drain(s)
  BY DEF Read, Drop, RecvData, RecvGT, RecvEX, RecvCD, RecvGTC, RecvGTA, RecvMAP, RecvMAA,
         RecvMIP, RecvMIA, RecvRS, RecvRA, RecvPR, RecvED, RecvAS, RecvAI, RecvAIA, RecvFN,
         RecvAB, RecvUnexpected, RecvTDISC, RelFN, RelDN, RelNF, RelRS, RelAB, RelUnexpected,
         Arrives, Reads, Waits
<1>q. {net[Peer(s)]} \in SUBSET Seq(SpduSet)
  BY PeerSide DEF TypeOK
<1>1. CASE Drain(s)
  <2>1. net[s] \in Seq(SpduSet) /\ net[s] # <<>>
    BY <1>1 DEF Drain, TypeOK
  <2>2. Tail(net[s]) \in Seq(SpduSet) /\ <<>> \in Seq(SpduSet)
    BY <2>1
  <2>3. net' \in [Side -> Seq(SpduSet)]
    BY <1>1, <2>2 DEF Drain, TypeOK
  <2>4. sb' \in [Side -> Ssapblk]
    BY <1>1, FreedTyped, SetsBlock DEF Drain, TypeOK, Mode
  <2> QED BY <2>3, <2>4 DEF TypeOK
<1> SUFFICES ASSUME Readable(s) PROVE TypeOK'
  BY <1>r, <1>1
<1>m. m \in SpduSet /\ b \in Ssapblk /\ sb2spkt(sb[s]) \in Ssapblk
  BY IncomingTyped
<1>f. /\ b.flags \in SUBSET Flag /\ b.owned \in SUBSET Tokens
      /\ b.V_A \in Int /\ b.V_M \in Int /\ b.V_R \in Int
  BY <1>m, BlockTyped
<1>i. /\ m.code \in Code /\ m.type \in SpduType /\ m.ssn \in Int
      /\ m.tokens \in SUBSET Tokens /\ m.settings \in Settings
      /\ m.code = "RS" => m.type \in ReSync
      /\ m.code = "PR" => m.type \in PrType
  BY <1>m DEF SpduSet, SpduShape
<1> HIDE DEF m, b
<1>2. CASE Drop(s) \/ RecvData(s)
  BY <1>2, <1>m, Does DEF Drop, RecvData, b
<1>3. CASE RecvGT(s)
  <2> DEFINE x == [b EXCEPT !.owned = @ \cup m.tokens,
                            !.flags = IF "dat" \in m.tokens THEN @ \ {"ED"} ELSE @]
  <2>1. Done(s, b) \/ Done(s, x)
    BY <1>3 DEF RecvGT, b, m
  <2>2. /\ b.owned \cup m.tokens \in SUBSET Tokens
        /\ (IF "dat" \in m.tokens THEN b.flags \ {"ED"} ELSE b.flags) \in SUBSET Flag
    BY <1>f, <1>i
  <2>3. x \in Ssapblk
    BY <1>m, <2>2, BlockFields, Zenon
  <2> QED BY <1>m, <2>1, <2>3, Does
<1>4. CASE RecvEX(s)
  <2> DEFINE x == [b EXCEPT !.xspdu = TRUE]
  <2>1. Done(s, b) \/ Done(s, x) \/ ProtocolAbort(s)
    BY <1>4 DEF RecvEX, b
  <2>2. x \in Ssapblk
    BY <1>m, BlockFields
  <2> QED BY <1>m, <2>1, <2>2, Does, Aborts
<1>5. CASE RecvCD(s)
  <2> DEFINE fs == IF m.code = "CD" THEN b.flags \cup {"CDA"} ELSE b.flags \ {"CD"}
             x  == [b EXCEPT !.flags = fs]
  <2>1. Done(s, x)
    BY <1>5, Zenon DEF RecvCD, b, m
  <2>2. fs \in SUBSET Flag
    BY <1>f DEF Flag
  <2>3. x \in Ssapblk
    BY <1>m, <2>2, BlockFields, Zenon
  <2> QED BY <2>1, <2>3, Does
<1>6. CASE RecvGTC(s)
  <2> DEFINE x == [b EXCEPT !.owned = Tokens]
  <2>1. CASE Done(s, b)
    BY <1>m, <2>1, Does
  <2>2. CASE ~Done(s, b)
    <3>1. /\ sb' = [sb EXCEPT ![s] = x]
          /\ net' = [net EXCEPT ![s] = Rest(s),
                          ![Peer(s)] = Arriving(Peer(s), Append(@, Spdu("GTA")))]
      BY <1>6, <2>2 DEF RecvGTC, b
    <3>2. x \in Ssapblk /\ Spdu("GTA") \in SpduSet
      BY <1>m, BlockFields, PlainSpdu DEF Code
    <3> HIDE DEF x
    <3> QED BY <3>1, <3>2, Answers
  <2> QED BY <2>1, <2>2
<1>7. CASE RecvGTA(s)
  <2> DEFINE x == [b EXCEPT !.flags = @ \ {"GTC"}]
  <2>1. Done(s, x)
    BY <1>7 DEF RecvGTA, b
  <2>2. x \in Ssapblk
    BY <1>m, <1>f, BlockFields
  <2> QED BY <2>1, <2>2, Does
<1>8. CASE RecvMAP(s)
  <2> DEFINE p == SyncPointOfPeer(b)
             x == [p EXCEPT !.flags = (@ \ {"Vnextact"}) \cup {"MAA", "AE"}]
             y == [p EXCEPT !.flags = @ \cup {"MAA"} \cup
                                      (IF Needs("ACTIVITY") THEN {"Vnextact"} ELSE {})]
  <2>1. Done(s, b) \/ Done(s, p) \/ Done(s, x) \/ Done(s, y)
    BY <1>8 DEF RecvMAP, b, m
  <2>2. p \in Ssapblk
    BY <1>m, SyncPointTyped
  <2> HIDE DEF p
  <2>3. /\ (p.flags \ {"Vnextact"}) \cup {"MAA", "AE"} \in SUBSET Flag
        /\ p.flags \cup {"MAA"} \cup (IF Needs("ACTIVITY") THEN {"Vnextact"} ELSE {})
              \in SUBSET Flag
    BY <2>2, BlockTyped DEF Flag
  <2>4. x \in Ssapblk /\ y \in Ssapblk
    BY <2>2, <2>3, BlockFields, Zenon
  <2> QED BY <1>m, <2>1, <2>2, <2>4, Does
<1>9. CASE RecvMAA(s)
  <2> DEFINE x == [b EXCEPT !.V_A = b.V_M, !.V_R = b.V_M,
                            !.flags = ActivityAfterMajor(@) \ {"MAP", "AE"}]
  <2>1. Done(s, b) \/ Done(s, x)
    BY <1>9 DEF RecvMAA, b
  <2>2. ActivityAfterMajor(b.flags) \ {"MAP", "AE"} \in SUBSET Flag
    BY <1>f, ActivityAfterMajorTyped
  <2>3. x \in Ssapblk
    BY <1>m, <1>f, <2>2, BlockFields, Zenon
  <2> QED BY <1>m, <2>1, <2>3, Does
<1>10. CASE RecvMIP(s)
  <2> DEFINE p == SyncPointOfPeer(b)
             x == [p EXCEPT !.flags = @ \cup {"Vsc"}]
  <2>1. Done(s, x)
    BY <1>10 DEF RecvMIP, b
  <2>2. p \in Ssapblk
    BY <1>m, SyncPointTyped
  <2> HIDE DEF p
  <2>3. p.flags \cup {"Vsc"} \in SUBSET Flag
    BY <2>2, BlockTyped DEF Flag
  <2>4. x \in Ssapblk
    BY <2>2, <2>3, BlockFields, Zenon
  <2> QED BY <2>1, <2>4, Does
<1>11. CASE RecvMIA(s)
  <2> DEFINE x == [b EXCEPT !.V_A = m.ssn]
  <2>1. Done(s, b) \/ Done(s, x)
    BY <1>11 DEF RecvMIA, b, m
  <2>2. x \in Ssapblk
    BY <1>m, <1>i, BlockFields
  <2> QED BY <1>m, <2>1, <2>2, Does
<1>12. CASE RecvRS(s)
  <2> DEFINE x == [b EXCEPT !.flags = (@ \ {"RS"}) \cup {"RA"}, !.rs = m.type,
                            !.rsn = m.ssn, !.rsettings = m.settings]
  <2>1. Done(s, b) \/ Done(s, x)
    BY <1>12 DEF RecvRS, b, m
  <2>2. m.type \in SyncType
    BY <1>12, <1>i DEF RecvRS, Arrives, SyncType, m
  <2>3. (b.flags \ {"RS"}) \cup {"RA"} \in SUBSET Flag
    BY <1>f DEF Flag
  <2>4. x \in Ssapblk
    BY <1>m, <1>i, <2>2, <2>3, BlockFields, Zenon
  <2> QED BY <1>m, <2>1, <2>4, Does
<1>13. CASE RecvRA(s)
  <2> DEFINE p == Resynchronized(s, b, m.ssn, m.settings)
             x == [p EXCEPT !.flags = @ \ {"RS"}, !.rsettings = m.settings]
  <2>1. Done(s, x)
    BY <1>13, Zenon DEF RecvRA, b, m
  <2>2. p \in Ssapblk
    BY <1>m, <1>i, ResynchronizedTyped
  <2> HIDE DEF p
  <2>3. p.flags \ {"RS"} \in SUBSET Flag
    BY <2>2, BlockTyped
  <2>4. x \in Ssapblk
    BY <2>2, <2>3, <1>i, BlockFields, Zenon
  <2> QED BY <2>1, <2>4, Does
<1>14. CASE RecvPR(s)
  <2> DEFINE x == [b EXCEPT !.pr = m.type,
                            !.flags = IF m.type = "RS" THEN @ \ {"ED"} ELSE @]
  <2>1. Done(s, x)
    BY <1>14 DEF RecvPR, b, m
  <2>2. /\ m.type \in {"PR"} \cup PrType
        /\ (IF m.type = "RS" THEN b.flags \ {"ED"} ELSE b.flags) \in SUBSET Flag
    BY <1>14, <1>f, <1>i DEF RecvPR, Arrives, m
  <2>3. x \in Ssapblk
    BY <1>m, <2>2, BlockFields, Zenon
  <2> QED BY <2>1, <2>3, Does
<1>15. CASE RecvED(s)
  <2> DEFINE fs == IF Owns(sb[s], "dat") THEN b.flags \cup {"EDACK"} ELSE b.flags
             x  == [b EXCEPT !.flags = fs]
  <2>1. Done(s, x)
    BY <1>15, Zenon DEF RecvED, b
  <2>2. fs \in SUBSET Flag
    BY <1>f DEF Flag
  <2>3. x \in Ssapblk
    BY <1>m, <2>2, BlockFields, Zenon
  <2> QED BY <2>1, <2>3, Does
<1>16. CASE RecvAS(s)
  <2>1. Done(s, b) \/ Done(s, InActivity(b, m.ssn + 1))
    BY <1>16 DEF RecvAS, b, m
  <2>2. InActivity(b, m.ssn + 1) \in Ssapblk
    BY <1>m, <1>i, InActivityTyped
  <2> QED BY <1>m, <2>1, <2>2, Does
<1>17. CASE RecvAI(s)
  <2> DEFINE x == [b EXCEPT !.flags = (@ \ {"RS", "RA"}) \cup {"AIA"}, !.rs = "intr"]
  <2>1. Done(s, b) \/ Done(s, x)
    BY <1>17 DEF RecvAI, b
  <2>2. (b.flags \ {"RS", "RA"}) \cup {"AIA"} \in SUBSET Flag /\ "intr" \in SyncType
    BY <1>f DEF Flag, SyncType
  <2>3. x \in Ssapblk
    BY <1>m, <2>2, BlockFields, Zenon
  <2> QED BY <1>m, <2>1, <2>3, Does
<1>18. CASE RecvAIA(s)
  <2> DEFINE x == [b EXCEPT !.flags = @ \ {"AI", "Vact"}, !.owned = Tokens]
  <2>1. Done(s, b) \/ Done(s, x)
    BY <1>18 DEF RecvAIA, b
  <2>2. b.flags \ {"AI", "Vact"} \in SUBSET Flag /\ Tokens \in SUBSET Tokens
    BY <1>f
  <2>3. x \in Ssapblk
    <3> DEFINE y == [b EXCEPT !.flags = @ \ {"AI", "Vact"}]
    <3>1. y \in Ssapblk
      BY <1>m, <2>2, BlockFields, Zenon
    <3> HIDE DEF y
    <3>2. [y EXCEPT !.owned = Tokens] \in Ssapblk
      BY <3>1, BlockFields
    <3> QED BY <3>2, Zenon DEF y
  <2> QED BY <1>m, <2>1, <2>3, Does
<1>19. CASE RecvFN(s)
  <2> DEFINE x == [b EXCEPT !.flags = @ \cup {"FINN"}]
  <2>1. Done(s, x)
    BY <1>19 DEF RecvFN, b
  <2>2. b.flags \cup {"FINN"} \in SUBSET Flag
    BY <1>f DEF Flag
  <2>3. x \in Ssapblk
    BY <1>m, <2>2, BlockFields, Zenon
  <2> QED BY <2>1, <2>3, Does
<1>20. CASE RecvAB(s) \/ RelDN(s) \/ RelAB(s)
  BY <1>20, <1>q, Frees DEF RecvAB, RelDN, RelAB, Mode
<1>21. CASE RecvUnexpected(s) \/ RelUnexpected(s)
  BY <1>21, Aborts DEF RecvUnexpected, RelUnexpected
<1>22. CASE RecvTDISC(s)
  <2>1. Freed("aborted") \in Ssapblk /\ <<>> \in Seq(SpduSet)
    BY FreedTyped DEF Mode
  <2>2. sb' \in [Side -> Ssapblk] /\ net' \in [Side -> Seq(SpduSet)]
    BY <1>22, <2>1, SetsBlock DEF RecvTDISC, TypeOK
  <2> QED BY <2>2 DEF TypeOK
<1>23. CASE RelFN(s)
  <2>1. Spdu("DN") \in SpduSet
    BY PlainSpdu DEF Code
  <2>2. /\ sb' = [sb EXCEPT ![s] = sb2spkt(sb[s])]
        /\ net' = [net EXCEPT ![s] = Rest(s),
                      ![Peer(s)] = Arriving(Peer(s), Append(@, Spdu("DN")))]
    BY <1>23 DEF RelFN
  <2> QED BY <1>m, <2>1, <2>2, Answers
<1>24. CASE RelNF(s)
  <2> DEFINE c == sb2spkt(sb[s])
             x == [c EXCEPT !.mode = "open"]
  <2>1. Done(s, x)
    BY <1>24 DEF RelNF
  <2> HIDE DEF c
  <2>2. x \in Ssapblk
    BY <1>m, BlockFields DEF c, Mode
  <2> QED BY <2>1, <2>2, Does
<1>25. CASE RelRS(s)
  <2> DEFINE c == sb2spkt(sb[s])
             x == [c EXCEPT !.mode = "open", !.spdu = <<m>>]
  <2>1. Done(s, x)
    BY <1>25 DEF RelRS, m
  <2>2. c \in Ssapblk /\ "open" \in Mode /\ <<m>> \in Seq(SpduSet)
    BY <1>m, SingletonTyped DEF Mode
  <2> HIDE DEF c
  <2>3. x \in Ssapblk
    BY <2>2, BlockFields, Zenon
  <2> QED BY <2>1, <2>3, Does
<1> QED
  BY <1>1, <1>2, <1>3, <1>4, <1>5, <1>6, <1>7, <1>8, <1>9, <1>10, <1>11, <1>12, <1>13,
     <1>14, <1>15, <1>16, <1>17, <1>18, <1>19, <1>20, <1>21, <1>22, <1>23, <1>24, <1>25
     DEF Read

(* A connection starts, and every step leaves it, well typed.              *)
LEMMA TypeInit == Init => TypeOK
<1> SUFFICES ASSUME Init PROVE TypeOK
  OBVIOUS
<1>1. PICK share \in [Tokens -> Side], isn \in {0, 1} :
        /\ sb = [s \in Side |-> newsblk({t \in Tokens : share[t] = s}, isn)]
        /\ net = [s \in Side |-> <<>>]
  BY DEF Init
<1>2. \A s \in Side : newsblk({t \in Tokens : share[t] = s}, isn) \in Ssapblk
  BY NewTyped
<1> QED BY <1>1, <1>2 DEF TypeOK

(* Every step of the session provider keeps its types.                     *)
LEMMA TypeStep == TypeOK /\ [Next]_vars => TypeOK'
<1> SUFFICES ASSUME TypeOK, [Next]_vars PROVE TypeOK'
  OBVIOUS
<1>1. CASE Next
  BY <1>1, RequestsTyped, ResponsesTyped, ReadsTyped, TimersTyped DEF Next
<1>2. CASE UNCHANGED vars
  BY <1>2 DEF vars, TypeOK
<1> QED BY <1>1, <1>2

(* The type invariant holds, whatever functional units were negotiated and *)
(* whatever the transport may reorder: in particular sb_pr and sb_rs only  *)
(* ever hold codes the filters of SReadRequestAux know.                    *)
THEOREM Typing == Spec => []TypeOK
BY TypeInit, TypeStep, PTL DEF Spec

-----------------------------------------------------------------------------
(* Collisions.                                                             *)

(* Of two resynchronizations that cross, or of one and an interrupt or     *)
(* discard, exactly one stands: the two providers, each on its own, decide *)
(* for the same one, whatever serial numbers are involved.  Two interrupts *)
(* or two discards are the exception (both stand); the activity token of   *)
(* their one owner is what keeps them from crossing.                       *)
THEOREM CollisionOneWinner ==
    \A a, b \in SyncType : \A n, k \in Int :
        ~(a = b /\ a \in {"intr", "disc"}) =>
            (SDoCollideAux(TRUE, a, n, b, k) <=> ~SDoCollideAux(FALSE, b, k, a, n))
<1> TAKE a \in SyncType, b \in SyncType
<1> TAKE n \in Int, k \in Int
<1>1. Rank[a] \in Int /\ Rank[b] \in Int /\ (Rank[a] = Rank[b] <=> a = b)
  BY DEF Rank, SyncType, ReSync
<1>2. CASE a # b
  BY <1>1, <1>2 DEF SDoCollideAux
<1>3. CASE a = b /\ a \notin {"intr", "disc"}
  <2>1. a \in {"abandon", "set", "restart"}
    BY <1>3 DEF SyncType, ReSync
  <2> QED BY <1>1, <1>3, <2>1 DEF SDoCollideAux
<1> QED BY <1>2, <1>3

=============================================================================
