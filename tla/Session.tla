------------------------------- MODULE Session -------------------------------
(***************************************************************************)
(* Two session protocol machines over one transport connection, from the   *)
(* moment S-CONNECT has succeeded until both blocks are freed.  Each user  *)
(* request is one action, each SPDU a provider reads is one action.        *)
(*                                                                         *)
(* net[s] holds what the transport still has to deliver to s, in order; an *)
(* expedited TSDU may overtake normal ones, never another expedited one,   *)
(* and is never overtaken by anything sent after it.                       *)
(***************************************************************************)
EXTENDS SessionBlock

CONSTANTS
    Overtake,       \* expedited TSDUs may overtake normal ones
    Asyn,           \* sides that called SSetIndications (SB_ASYN)
    Calls,          \* the user requests the two users make
    Proposals,      \* token settings the users propose in S-RESYNCHRONIZE
    MaxQueue        \* requests stop while this many TSDUs are undelivered

ASSUME OvertakeAssumption  == Overtake \in BOOLEAN
ASSUME AsynAssumption      == Asyn \subseteq Side
ASSUME ProposalsAssumption == Proposals \subseteq Settings
ASSUME MaxQueueAssumption  == MaxQueue \in Nat

VARIABLES
    sb,     \* the block of each side
    net     \* the TSDUs on their way to each side

vars == <<sb, net>>

TypeOK ==
    /\ sb \in [Side -> Ssapblk]
    /\ net \in [Side -> Seq(SpduSet)]

Init ==
    \E share \in [Tokens -> Side], isn \in {0, 1} :
        /\ sb = [s \in Side |-> newsblk({t \in Tokens : share[t] = s}, isn)]
        /\ net = [s \in Side |-> <<>>]

-----------------------------------------------------------------------------
(* The transport.                                                          *)

InsertAfter(q, i, m) == SubSeq(q, 1, i) \o <<m>> \o SubSeq(q, i + 1, Len(q))

(* Where an expedited TSDU may end up in the queue it is added to.         *)
ExpeditedSlots(q) ==
    { i \in 0..Len(q) : \A j \in 1..Len(q) : j > i => Overtake /\ ~q[j].xpd }

Queued(q, m) ==
    IF m.xpd THEN {InsertAfter(q, i, m) : i \in ExpeditedSlots(q)}
             ELSE {Append(q, m)}

(* What is sent to a side whose block is freed is not delivered any more.  *)
Closed(b) == b.mode \in {"released", "aborted"}
Arriving(s, q) == IF Closed(sb[s]) THEN <<>> ELSE q

(* The PR SPDU that goes ahead of some SPDUs on the expedited flow.        *)
Prepare(type) == [Spdu("PR") EXCEPT !.type = type, !.xpd = TRUE]

Preparation(code) ==
    CASE code = "MAA"                -> "MAA"
      [] code \in {"AI", "AD", "RS"} -> "RS"
      [] code \in {"AIA", "RA"}      -> "RA"
      [] OTHER                       -> "none"

Written(q, m) ==
    LET prepared == IF Expd /\ Preparation(m.code) # "none"
                    THEN Queued(q, Prepare(Preparation(m.code)))
                    ELSE {q}
    IN  {Append(r, m) : r \in prepared}

SWriteRequestAux(s, m) ==
    \E q \in Written(net[Peer(s)], m) :
        net' = [net EXCEPT ![Peer(s)] = Arriving(Peer(s), q)]

spkt2sd(s, m) ==
    \E q \in Queued(net[Peer(s)], m) :
        net' = [net EXCEPT ![Peer(s)] = Arriving(Peer(s), q)]

(* A user request of kind call is made, and the bound on the queue holds.  *)
Requests(s, call) == call \in Calls /\ Len(net[Peer(s)]) < MaxQueue

-----------------------------------------------------------------------------
(* Data and tokens.                                                        *)

SDataRequest(s) ==
    /\ Requests(s, "data")
    /\ ssapPsig(sb[s])
    /\ OwnsIfAny(sb[s], "dat")
    /\ spkt2sd(s, Spdu("DT"))
    /\ UNCHANGED sb

STypedRequest(s) ==
    /\ Requests(s, "typed")
    /\ ssapPsig(sb[s])
    /\ Needs("TYPEDATA")
    /\ spkt2sd(s, Spdu("TD"))
    /\ UNCHANGED sb

SExpdRequest(s) ==
    /\ Requests(s, "expd")
    /\ ssapPsig(sb[s])
    /\ Needs("EXPEDITED")
    /\ spkt2sd(s, [Spdu("EX") EXCEPT !.xpd = TRUE])
    /\ UNCHANGED sb

\* Mutants: what is given is still owned; or the exception is not cleared.
SGTokenRequest_owned(s) ==
    /\ Requests(s, "give") /\ ssapXsig(sb[s])
    /\ \E ts \in (SUBSET sb[s].owned) \ {{}} :
        spkt2sd(s, [Spdu("GT") EXCEPT !.tokens = ts])
    /\ UNCHANGED sb

SGTokenRequest_edack(s) ==
    /\ Requests(s, "give") /\ ssapXsig(sb[s])
    /\ \E ts \in (SUBSET sb[s].owned) \ {{}} :
        /\ spkt2sd(s, [Spdu("GT") EXCEPT !.tokens = ts])
        /\ sb' = [sb EXCEPT ![s].owned = @ \ ts]

SGTokenRequest(s) ==
    /\ Requests(s, "give")
    /\ ssapXsig(sb[s])
    /\ "GTC" \notin sb[s].flags
    /\ \E ts \in (SUBSET sb[s].owned) \ {{}} :
        /\ "dat" \in ts \/ "EDACK" \notin sb[s].flags
        /\ spkt2sd(s, [Spdu("GT") EXCEPT !.tokens = ts])
        /\ sb' = [sb EXCEPT ![s].owned = @ \ ts,
                            ![s].flags = IF "dat" \in ts THEN @ \ {"EDACK"} ELSE @]

SPTokenRequest(s) ==
    /\ Requests(s, "please")
    /\ ssapPsig(sb[s])
    /\ "GTC" \notin sb[s].flags
    /\ \E ts \in (SUBSET (Tokens \ sb[s].owned)) \ {{}} :
        spkt2sd(s, [Spdu("PT") EXCEPT !.tokens = ts])
    /\ UNCHANGED sb

SGControlRequest(s) ==
    /\ Requests(s, "control")
    /\ ssapPsig(sb[s])
    /\ SDoActivityAux(sb[s], TRUE, TRUE)
    /\ "GTC" \notin sb[s].flags
    /\ spkt2sd(s, Spdu("GTC"))
    /\ sb' = [sb EXCEPT ![s].owned = {}, ![s].flags = @ \cup {"GTC"}]

SCapdRequest(s) ==
    /\ Requests(s, "capd")
    /\ ssapPsig(sb[s])
    /\ Needs("CAPABILITY")
    /\ SDoActivityAux(sb[s], TRUE, FALSE)
    /\ "CD" \notin sb[s].flags
    /\ SWriteRequestAux(s, Spdu("CD"))
    /\ sb' = [sb EXCEPT ![s].flags = @ \cup {"CD"}]

SCapdResponse(s) ==
    /\ ssapPsig(sb[s])
    /\ Needs("CAPABILITY")
    /\ "CDA" \in sb[s].flags
    /\ SWriteRequestAux(s, Spdu("CDA"))
    /\ sb' = [sb EXCEPT ![s].flags = @ \ {"CDA"}]

-----------------------------------------------------------------------------
(* Synchronization points.                                                 *)

(* A sync point of our own while Vsc held the right to confirm the peer's: *)
(* the points before it count as confirmed, and V(A) restarts here.        *)
ConfirmedTo(b) == IF "Vsc" \in b.flags THEN b.V_M ELSE b.V_A

SMinSyncRequest(s) ==
    /\ Requests(s, "minor")
    /\ ssapPsig(sb[s])
    /\ Needs("MINORSYNC")
    /\ OwnsIfAny(sb[s], "dat")
    /\ Owns(sb[s], "min")
    /\ Needs("ACTIVITY") => "Vact" \in sb[s].flags
    /\ "MAA" \notin sb[s].flags
    /\ sb[s].V_M <= MaxSsn
    /\ SWriteRequestAux(s, [Spdu("MIP") EXCEPT !.ssn = sb[s].V_M])
    /\ sb' = [sb EXCEPT ![s].V_A = ConfirmedTo(sb[s]),
                        ![s].V_M = @ + 1,
                        ![s].flags = @ \ {"Vsc"}]

SMinSyncResponse(s) ==
    /\ Requests(s, "minresp")
    /\ ssapPsig(sb[s])
    /\ Needs("MINORSYNC")
    /\ "Vsc" \in sb[s].flags
    /\ \E ssn \in sb[s].V_A .. MaxSsn :
        /\ SWriteRequestAux(s, [Spdu("MIA") EXCEPT !.ssn = ssn])
        /\ sb' = [sb EXCEPT ![s].V_A = ssn + 1]

(* S-MAJOR-SYNC.REQUEST and S-ACTIVITY-END.REQUEST: end tells them apart.  *)
SMajSyncRequestAux(s, end) ==
    /\ ssapPsig(sb[s])
    /\ SDoActivityAux(sb[s], FALSE, FALSE)
    /\ Needs("ACTIVITY") => "Vact" \in sb[s].flags
    /\ "MAA" \notin sb[s].flags
    /\ sb[s].V_M <= MaxSsn
    /\ SWriteRequestAux(s, [Spdu("MAP") EXCEPT !.ssn = sb[s].V_M,
                                               !.type = IF end THEN "end" ELSE "noend"])
    /\ sb' = [sb EXCEPT
                ![s].V_A = ConfirmedTo(sb[s]),
                ![s].V_M = @ + 1,
                ![s].flags =
                    ((IF end THEN (@ \ {"Vnextact"}) \cup {"AE"}
                      ELSE IF Needs("ACTIVITY") THEN @ \cup {"Vnextact"} ELSE @)
                     \cup {"MAP"}) \ {"Vsc"}]

SMajSyncRequest(s) == Requests(s, "major") /\ SMajSyncRequestAux(s, FALSE)
SActEndRequest(s)  == Requests(s, "actend") /\ SMajSyncRequestAux(s, TRUE)

(* After a confirmed major sync an activity is in progress iff the MAP did *)
(* not end it.                                                             *)
ActivityAfterMajor(flags) ==
    IF ~Needs("ACTIVITY") THEN flags
    ELSE IF "Vnextact" \in flags THEN flags \cup {"Vact"}
    ELSE flags \ {"Vact"}

SMajSyncResponse(s) ==
    /\ ssapPsig(sb[s])
    /\ Needs("MAJORSYNC") \/ Needs("ACTIVITY") \/ "Vact" \in sb[s].flags
    /\ "MAA" \in sb[s].flags
    /\ SWriteRequestAux(s, [Spdu("MAA") EXCEPT !.ssn = sb[s].V_M - 1])
    /\ sb' = [sb EXCEPT ![s].V_A = sb[s].V_M,
                        ![s].V_R = sb[s].V_M,
                        ![s].flags = ActivityAfterMajor(@) \ {"MAA", "AE"}]

-----------------------------------------------------------------------------
(* Resynchronization.                                                      *)

ResyncPoints(b, type) ==
    CASE type = "restart" -> {n \in 0..MaxSsn + 1 : b.V_R <= n /\ n <= b.V_M}
      [] type = "abandon" -> {b.V_M}
      [] type = "set"     -> 0..MaxSsn + 1

SReSyncRequest(s) ==
    /\ Requests(s, "resync")
    /\ ssapRsig(sb[s])
    /\ Needs("RESYNC")
    /\ Needs("ACTIVITY") => "Vact" \in sb[s].flags
    /\ \E type \in ReSync, settings \in Proposals :
       \E ssn \in ResyncPoints(sb[s], type) :
        /\ "RA" \in sb[s].flags =>
               SDoCollideAux(s = "init", type, ssn, sb[s].rs, sb[s].rsn)
        /\ SWriteRequestAux(s, [Spdu("RS") EXCEPT !.type = type, !.ssn = ssn,
                                                  !.settings = settings])
        /\ sb' = [sb EXCEPT ![s].flags = (@ \cup {"RS"}) \ {"RA", "EDACK"},
                            ![s].rs = type, ![s].rsn = ssn,
                            ![s].rsettings = settings]

AcceptedPoints(b) ==
    CASE b.rs = "restart" -> {b.rsn}
      [] b.rs = "abandon" -> {b.V_A}
      [] OTHER            -> 0..MaxSsn + 1

Resynchronized(s, b, ssn, settings) ==
    [b EXCEPT !.V_A = ssn, !.V_M = ssn,
              !.V_R = IF b.rs # "restart" THEN 0 ELSE @,
              !.owned = TokensOf(s, settings, @)]

SReSyncResponse(s) ==
    /\ ssapRsig(sb[s])
    /\ Needs("RESYNC")
    /\ "RA" \in sb[s].flags
    /\ \E settings \in FinalSettings, ssn \in AcceptedPoints(sb[s]) :
        /\ \A t \in Tokens : sb[s].rsettings[t] \in {"call", settings[t]}
        /\ SWriteRequestAux(s, [Spdu("RA") EXCEPT !.ssn = ssn, !.settings = settings])
        /\ sb' = [sb EXCEPT ![s] =
                    [Resynchronized(s, sb[s], ssn, settings) EXCEPT !.flags = @ \ {"RA"}]]

-----------------------------------------------------------------------------
(* Exceptions and activities.                                              *)

SUReportRequest(s) ==
    /\ Requests(s, "report")
    /\ ssapPsig(sb[s])
    /\ Needs("EXCEPTIONS") /\ "dat" \in Tokens
    /\ ~Owns(sb[s], "dat")
    /\ Needs("ACTIVITY") => "Vact" \in sb[s].flags
    /\ SWriteRequestAux(s, Spdu("ED"))
    /\ sb' = [sb EXCEPT ![s].flags = @ \cup {"ED"}]

InActivity(b, from) == [b EXCEPT !.V_A = from, !.V_M = from, !.V_R = 1,
                                 !.flags = @ \cup {"Vact"}]

SActStartRequest(s) ==
    /\ Requests(s, "actstart")
    /\ ssapPsig(sb[s])
    /\ SDoActivityAux(sb[s], TRUE, FALSE)
    /\ SWriteRequestAux(s, Spdu("AS"))
    /\ sb' = [sb EXCEPT ![s] = InActivity(@, 1)]

SActResumeRequest(s) ==
    /\ Requests(s, "actresume")
    /\ ssapPsig(sb[s])
    /\ SDoActivityAux(sb[s], TRUE, FALSE)
    /\ \E ssn \in 0..MaxSsn :
        /\ SWriteRequestAux(s, [Spdu("AR") EXCEPT !.ssn = ssn])
        /\ sb' = [sb EXCEPT ![s] = InActivity(@, ssn + 1)]

(* S-ACTIVITY-INTERRUPT.REQUEST (AI) and S-ACTIVITY-DISCARD.REQUEST (AD).  *)
SActIntrRequest(s) ==
    /\ Requests(s, "actintr")
    /\ ssapXsig(sb[s])
    /\ "MAP" \notin sb[s].flags
    /\ Needs("ACTIVITY")
    /\ Owns(sb[s], "maj")
    /\ "Vact" \in sb[s].flags
    /\ \E how \in {"intr", "disc"} :
        /\ "RA" \in sb[s].flags => SDoCollideAux(s = "init", how, 0, sb[s].rs, sb[s].rsn)
        /\ SWriteRequestAux(s, Spdu(IF how = "intr" THEN "AI" ELSE "AD"))
        /\ sb' = [sb EXCEPT ![s].flags = (@ \cup {"AI"}) \ {"RA", "EDACK"},
                            ![s].rs = how]

\* Mutant: the activity goes on for the side that confirms its end.
SActIntrResponse_Vact(s) ==
    /\ ssapAsig(sb[s])
    /\ {"Vact", "AIA"} \subseteq sb[s].flags
    /\ SWriteRequestAux(s, Spdu("AIA"))
    /\ sb' = [sb EXCEPT ![s].flags = @ \ {"AIA"}, ![s].owned = {}]

(* AIA and ADA: nothing but the name of the confirmation differs.          *)
SActIntrResponse(s) ==
    /\ ssapAsig(sb[s])
    /\ Needs("ACTIVITY")
    /\ {"Vact", "AIA"} \subseteq sb[s].flags
    /\ SWriteRequestAux(s, Spdu("AIA"))
    /\ sb' = [sb EXCEPT ![s].flags = @ \ {"AIA", "Vact"}, ![s].owned = {}]

-----------------------------------------------------------------------------
(* Release and abort.                                                      *)

(* freesblk: TDiscRequest may destroy what the transport has not delivered.*)
Disconnected(q) == {Append(q, Spdu("TDISC")), <<Spdu("TDISC")>>}

Freed(mode) == [newsblk({}, 0) EXCEPT !.mode = mode]

\* Mutant: the block is freed and the transport connection left as it is.
freesblk_silent(s, mode, qs) ==
    /\ \E q \in qs :
        net' = [net EXCEPT ![s] = <<>>, ![Peer(s)] = Arriving(Peer(s), q)]
    /\ sb' = [sb EXCEPT ![s] = Freed(mode)]

(* qs: what the peer's queue may be when the disconnect is requested.      *)
freesblk(s, mode, qs) ==
    /\ \E q \in qs : \E r \in Disconnected(q) :
        net' = [net EXCEPT ![s] = <<>>, ![Peer(s)] = Arriving(Peer(s), r)]
    /\ sb' = [sb EXCEPT ![s] = Freed(mode)]

(* spktlose in SReadRequestAux, and the abort of the user.                 *)
Abort(by) == [Spdu("AB") EXCEPT !.type = by, !.xpd = Expd]

ProtocolAbort(s) == freesblk(s, "aborted", Queued(net[Peer(s)], Abort("provider")))

(* A long abort of version 2 goes on the normal flow, prepared for by PR.  *)
SUAbortRequest(s) ==
    /\ "abort" \in Calls
    /\ sb[s].mode = "open"
    /\ \E long \in BOOLEAN :
        /\ long => Expd
        /\ LET q == net[Peer(s)] IN
           freesblk(s, "aborted",
                    IF long THEN {Append(r, [Abort("user") EXCEPT !.xpd = FALSE]) :
                                    r \in Queued(q, Prepare("AB"))}
                            ELSE Queued(q, Abort("user")))

SRelRequest(s) ==
    /\ Requests(s, "release")
    /\ ssapPsig(sb[s])
    /\ sb[s].owned = Tokens
    /\ ~Has(sb[s], {"CD", "CDA", "GTC", "MAA"})
    /\ ~sb[s].xspdu /\ sb[s].spdu = <<>>
    /\ spkt2sd(s, Spdu("FN"))
    /\ sb' = [sb EXCEPT ![s].mode = "waiting"]

(* The wait of SRelRetryRequestAux times out, and is taken up again.       *)
SRelTimeout(s) ==
    /\ "timeout" \in Calls
    /\ sb[s].mode = "waiting"
    /\ sb' = [sb EXCEPT ![s].mode = "open", ![s].flags = @ \cup {"RELEASE"}]
    /\ UNCHANGED net

SRelRetryRequest(s) ==
    /\ sb[s].mode = "open"
    /\ "RELEASE" \in sb[s].flags
    /\ sb' = [sb EXCEPT ![s].mode = "waiting"]
    /\ UNCHANGED net

(* Accepting drains the connection inside freesblk before it is closed.    *)
SRelResponse(s) ==
    /\ ssapFsig(sb[s])
    /\ \/ /\ spkt2sd(s, Spdu("DN"))
          /\ sb' = [sb EXCEPT ![s] = Freed("draining")]
       \/ /\ "reject" \in Calls
          /\ "rls" \in Tokens /\ ~Owns(sb[s], "rls")
          /\ spkt2sd(s, Spdu("NF"))
          /\ sb' = [sb EXCEPT ![s].flags = @ \ {"FINN"}]

Drain(s) ==
    /\ sb[s].mode = "draining"
    /\ net[s] # <<>>
    /\ IF Head(net[s]).code = "TDISC"
       THEN /\ net' = [net EXCEPT ![s] = <<>>]
            /\ sb' = [sb EXCEPT ![s] = Freed("released")]
       ELSE /\ net' = [net EXCEPT ![s] = Tail(@)]
            /\ UNCHANGED sb

DrainTimeout(s) ==
    /\ "timeout" \in Calls
    /\ sb[s].mode = "draining"
    /\ freesblk(s, "released", {net[Peer(s)]})

-----------------------------------------------------------------------------
(* Reading.  sb2spkt hands out the saved XSDU, then the saved SPDU, then   *)
(* what the transport delivers.                                            *)

\* Mutant: the saved XSDU is handed out while the preparation lasts.
XsduReady_early(b) == b.xspdu /\ b.pr # "PR"

XsduReady(b) == b.xspdu /\ b.pr = "PR"
FromNet(s)   == ~XsduReady(sb[s]) /\ sb[s].spdu = <<>>
Readable(s)  == FromNet(s) => net[s] # <<>>

Incoming(s) ==
    IF XsduReady(sb[s]) THEN [Spdu("EX") EXCEPT !.xpd = TRUE]
    ELSE IF sb[s].spdu # <<>> THEN Head(sb[s].spdu)
    ELSE Head(net[s])

(* The block and the queue after the SPDU was taken.                       *)
sb2spkt(b) == IF XsduReady(b) THEN [b EXCEPT !.xspdu = FALSE]
                              ELSE [b EXCEPT !.spdu = <<>>]
Rest(s) == IF FromNet(s) THEN Tail(net[s]) ELSE net[s]

(* Preparation: which SPDU on the normal flow ends it, which it lets pass. *)
EndsPreparation(pr, m) ==
    \/ pr = "MAA" /\ m.code = "MAA"
    \/ pr = "RS"  /\ m.code \in {"AI", "AD", "RS"}
    \/ pr = "RA"  /\ m.code \in {"AIA", "RA"}
    \/ pr = "AB"  /\ m.code \in {"AB", "AI"}

PreparationDrops(pr, m) ==
    \/ pr \in {"RS", "RA"} /\ ~EndsPreparation(pr, m) /\ m.code # "AB"
    \/ pr = "AB" /\ ~EndsPreparation(pr, m)

(* Our own resynchronization or interrupt is outstanding.                  *)
CollisionDrops(s, b, m) ==
    LET wins(op, ssn) == SDoCollideAux(s = "init", b.rs, b.rsn, op, ssn)
    IN  /\ Has(b, {"RS", "AI"})
        /\ \/ m.code = "PR" /\ m.type \notin {"RS", "RA"}
           \/ m.code = "RS" /\ wins(m.type, m.ssn)
           \/ m.code = "AD" /\ wins("disc", 0)
           \/ m.code = "AI" /\ wins("intr", 0)

\* Mutants: sync points are dropped; or the token that clears the exception.
ExceptionDrops_MIP(b, m) ==
    /\ "ED" \in b.flags
    /\ m.code \notin {"AB", "AI"}
    /\ ~(m.code = "PR" /\ m.type = "RS")
    /\ ~(m.code = "GT" /\ "dat" \in m.tokens)

ExceptionDrops_GT(b, m) ==
    /\ "ED" \in b.flags
    /\ m.code \notin {"AB", "AI", "MAP", "MIP"}
    /\ ~(m.code = "PR" /\ m.type = "RS")

(* Our own exception report is outstanding.                                *)
ExceptionDrops(b, m) ==
    /\ "ED" \in b.flags
    /\ m.code \notin {"AB", "AI", "MAP", "MIP"}
    /\ ~(m.code = "PR" /\ m.type = "RS")
    /\ ~(m.code = "GT" /\ "dat" \in m.tokens)

Dropped(s, b, m) ==
    \/ ~m.xpd /\ PreparationDrops(b.pr, m)
    \/ CollisionDrops(s, b, m)
    \/ ExceptionDrops(b, m)

(* SReadRequest refuses once FINN is set; TDATAser reads all the same.     *)
Reads(s) == /\ sb[s].mode = "open"
            /\ s \in Asyn \/ "FINN" \notin sb[s].flags
            /\ Readable(s)

PrAfterPr(s) == Incoming(s).code = "PR" /\ sb[s].pr # "PR"

(* The block as the main switch of SReadRequestAux finds it.               *)
Taken(s) ==
    [sb2spkt(sb[s]) EXCEPT
        !.pr = IF ~Incoming(s).xpd /\ EndsPreparation(@, Incoming(s)) THEN "PR" ELSE @]

Arrives(s, codes) ==
    /\ Reads(s)
    /\ Incoming(s).code \in codes
    /\ ~PrAfterPr(s)
    /\ ~Dropped(s, sb[s], Incoming(s))

(* s is done with the SPDU it read, and its block is now b.                *)
Done(s, b) == /\ net' = [net EXCEPT ![s] = Rest(s)]
              /\ sb' = [sb EXCEPT ![s] = b]

Drop(s) ==
    /\ Reads(s)
    /\ Incoming(s).code # "TDISC"
    /\ ~PrAfterPr(s)
    /\ Dropped(s, sb[s], Incoming(s))
    /\ Done(s, Taken(s))

RecvData(s) == Arrives(s, {"DT", "TD", "PT"}) /\ Done(s, Taken(s))

\* Mutant: the tokens received replace those owned.
RecvGT_replaces(s) ==
    /\ Arrives(s, {"GT"})
    /\ Done(s, [Taken(s) EXCEPT !.owned = Incoming(s).tokens])

RecvGT(s) ==
    /\ Arrives(s, {"GT"})
    /\ LET m == Incoming(s) IN
       Done(s, IF "GTC" \in sb[s].flags THEN Taken(s)
               ELSE [Taken(s) EXCEPT !.owned = @ \cup m.tokens,
                                     !.flags = IF "dat" \in m.tokens THEN @ \ {"ED"} ELSE @])

RecvEX(s) ==
    /\ Arrives(s, {"EX"})
    /\ IF Taken(s).pr = "PR" THEN Done(s, Taken(s))
       ELSE IF Taken(s).xspdu THEN ProtocolAbort(s)
       ELSE Done(s, [Taken(s) EXCEPT !.xspdu = TRUE])

RecvCD(s) ==
    /\ Arrives(s, {"CD", "CDA"})
    /\ Done(s, [Taken(s) EXCEPT !.flags =
                    IF Incoming(s).code = "CD" THEN @ \cup {"CDA"} ELSE @ \ {"CD"}])

RecvGTC(s) ==
    /\ Arrives(s, {"GTC"})
    /\ IF "Vact" \in sb[s].flags THEN Done(s, Taken(s))
       ELSE /\ sb' = [sb EXCEPT ![s] = [Taken(s) EXCEPT !.owned = Tokens]]
            /\ net' = [net EXCEPT ![s] = Rest(s),
                          ![Peer(s)] = Arriving(Peer(s), Append(@, Spdu("GTA")))]

RecvGTA(s) ==
    /\ Arrives(s, {"GTA"})
    /\ Done(s, [Taken(s) EXCEPT !.flags = @ \ {"GTC"}])

\* Mutant: while Vsc is held the peer's points are not counted.
SyncPointOfPeer_Vsc(b) ==
    IF "Vsc" \in b.flags THEN b ELSE [b EXCEPT !.V_A = b.V_M, !.V_M = @ + 1]

(* A sync point of the peer: V(A) restarts here unless Vsc is held.        *)
SyncPointOfPeer(b) ==
    [b EXCEPT !.V_A = IF "Vsc" \in b.flags THEN @ ELSE b.V_M, !.V_M = @ + 1]

RecvMAP(s) ==
    /\ Arrives(s, {"MAP"})
    /\ LET m == Incoming(s)
           b == SyncPointOfPeer(Taken(s))
       IN  Done(s,
             IF sb[s].V_M # m.ssn THEN Taken(s)
             ELSE IF m.type = "end"
             THEN [b EXCEPT !.flags = (@ \ {"Vnextact"}) \cup {"MAA", "AE"}]
             ELSE IF "ED" \in b.flags THEN b
             ELSE [b EXCEPT !.flags = @ \cup {"MAA"} \cup
                                      (IF Needs("ACTIVITY") THEN {"Vnextact"} ELSE {})])

\* Mutant: the confirmed number is compared with the next one.
RecvMAA_next(s) ==
    /\ Arrives(s, {"MAA"})
    /\ LET b == Taken(s) IN
       Done(s, IF b.V_M # Incoming(s).ssn THEN b
               ELSE [b EXCEPT !.V_A = b.V_M, !.V_R = b.V_M,
                              !.flags = ActivityAfterMajor(@) \ {"MAP", "AE"}])

RecvMAA(s) ==
    /\ Arrives(s, {"MAA"})
    /\ LET b == Taken(s) IN
       Done(s, IF b.V_M # Incoming(s).ssn + 1 THEN b
               ELSE [b EXCEPT !.V_A = b.V_M, !.V_R = b.V_M,
                              !.flags = ActivityAfterMajor(@) \ {"MAP", "AE"}])

RecvMIP(s) ==
    /\ Arrives(s, {"MIP"})
    /\ Done(s, [SyncPointOfPeer(Taken(s)) EXCEPT !.flags = @ \cup {"Vsc"}])

RecvMIA(s) ==
    /\ Arrives(s, {"MIA"})
    /\ LET b   == Taken(s)
           ssn == Incoming(s).ssn
       IN  Done(s, IF "Vsc" \in b.flags \/ ssn < b.V_A \/ ssn >= b.V_M THEN b
                   ELSE [b EXCEPT !.V_A = ssn])

RecvRS(s) ==
    /\ Arrives(s, {"RS"})
    /\ LET m == Incoming(s)
           b == Taken(s)
       IN  Done(s, IF m.type = "restart" /\ b.V_R > m.ssn THEN b
                   ELSE [b EXCEPT !.flags = (@ \ {"RS"}) \cup {"RA"},
                                  !.rs = m.type, !.rsn = m.ssn,
                                  !.rsettings = m.settings])

\* Mutants: V(M) of the answer, or its token settings, are not applied.
RecvRA_V_M(s) ==
    /\ Arrives(s, {"RA"})
    /\ LET m == Incoming(s) IN
       Done(s, [Resynchronized(s, Taken(s), m.ssn, m.settings) EXCEPT
                    !.V_M = sb[s].V_M, !.flags = @ \ {"RS"}, !.rsettings = m.settings])

RecvRA_settings(s) ==
    /\ Arrives(s, {"RA"})
    /\ Done(s, [Resynchronized(s, Taken(s), Incoming(s).ssn, NoSettings) EXCEPT
                    !.flags = @ \ {"RS"}])

RecvRA(s) ==
    /\ Arrives(s, {"RA"})
    /\ LET m == Incoming(s) IN
       Done(s, [Resynchronized(s, Taken(s), m.ssn, m.settings) EXCEPT
                    !.flags = @ \ {"RS"}, !.rsettings = m.settings])

RecvPR(s) ==
    /\ Arrives(s, {"PR"})
    /\ LET type == Incoming(s).type IN
       Done(s, [Taken(s) EXCEPT !.pr = type,
                                !.flags = IF type = "RS" THEN @ \ {"ED"} ELSE @])

RecvED(s) ==
    /\ Arrives(s, {"ED"})
    /\ Done(s, [Taken(s) EXCEPT !.flags =
                    IF Owns(sb[s], "dat") THEN @ \cup {"EDACK"} ELSE @])

(* AS and AR: AS stands for a resumption at 0.                             *)
RecvAS(s) ==
    /\ Arrives(s, {"AS", "AR"})
    /\ Done(s, IF "Vact" \in sb[s].flags THEN Taken(s)
               ELSE InActivity(Taken(s), Incoming(s).ssn + 1))

\* Mutant: a resynchronization of our own is not given up.
RecvAI_RS(s) ==
    /\ Arrives(s, {"AI", "AD"})
    /\ Done(s, IF "Vact" \notin sb[s].flags THEN Taken(s)
               ELSE [Taken(s) EXCEPT !.flags = (@ \ {"RA"}) \cup {"AIA"}, !.rs = "intr"])

(* sb_rs becomes SYNC_INTR for a discard as well.                          *)
RecvAI(s) ==
    /\ Arrives(s, {"AI", "AD"})
    /\ Done(s, IF "Vact" \notin sb[s].flags THEN Taken(s)
               ELSE [Taken(s) EXCEPT !.flags = (@ \ {"RS", "RA"}) \cup {"AIA"},
                                     !.rs = "intr"])

\* Mutants: the tokens do not come along; or all four do, negotiated or not.
RecvAIA_none(s) ==
    /\ Arrives(s, {"AIA"})
    /\ Done(s, [Taken(s) EXCEPT !.flags = @ \ {"AI", "Vact"}])

RecvAIA_all(s) ==
    /\ Arrives(s, {"AIA"})
    /\ Done(s, [Taken(s) EXCEPT !.flags = @ \ {"AI", "Vact"},
                                !.owned = {"rls", "maj", "min", "dat"}])

RecvAIA(s) ==
    /\ Arrives(s, {"AIA"})
    /\ Done(s, IF "Vact" \notin sb[s].flags THEN Taken(s)
               ELSE [Taken(s) EXCEPT !.flags = @ \ {"AI", "Vact"}, !.owned = Tokens])

RecvFN(s) ==
    /\ Arrives(s, {"FN"})
    /\ Done(s, [Taken(s) EXCEPT !.flags = @ \cup {"FINN"}])

RecvAB(s) == Arrives(s, {"AB"}) /\ freesblk(s, "aborted", {net[Peer(s)]})

(* DN and NF are not expected outside S-RELEASE.REQUEST.                   *)
RecvUnexpected(s) ==
    /\ \/ Arrives(s, {"DN", "NF"})
       \/ Reads(s) /\ PrAfterPr(s)
    /\ ProtocolAbort(s)

(* The transport connection is gone: the read fails, or TDISCser runs.     *)
RecvTDISC(s) ==
    /\ Reads(s) /\ Incoming(s).code = "TDISC"
    /\ sb' = [sb EXCEPT ![s] = Freed("aborted")]
    /\ net' = [net EXCEPT ![s] = <<>>]

-----------------------------------------------------------------------------
(* Inside S-RELEASE.REQUEST: SRelRetryRequestAux reads by itself.          *)

Waits(s, codes) == sb[s].mode = "waiting" /\ Readable(s) /\ Incoming(s).code \in codes

RelFN(s) ==
    /\ Waits(s, {"FN"})
    /\ sb' = [sb EXCEPT ![s] = sb2spkt(@)]
    /\ net' = [net EXCEPT ![s] = Rest(s),
                  ![Peer(s)] = Arriving(Peer(s), Append(@, Spdu("DN")))]

\* Mutant: data of the peer is taken for its answer.
RelDN_data(s) == Waits(s, {"DN", "DT", "TD", "EX"}) /\ freesblk(s, "released", {net[Peer(s)]})

RelDN(s) == Waits(s, {"DN"}) /\ freesblk(s, "released", {net[Peer(s)]})

\* Mutant: a refusal is taken for an acceptance.
RelNF_accepts(s) == Waits(s, {"NF"}) /\ freesblk(s, "released", {net[Peer(s)]})

RelNF(s) ==
    /\ Waits(s, {"NF"})
    /\ "rls" \in Tokens /\ Owns(sb[s], "rls")
    /\ Done(s, [sb2spkt(sb[s]) EXCEPT !.mode = "open"])

\* Mutant: the wait goes on when the peer resynchronizes.
RelRS_waits(s) ==
    /\ Waits(s, {"RS"})
    /\ Done(s, sb2spkt(sb[s]))

RelRS(s) ==
    /\ Waits(s, {"RS"})
    /\ Done(s, [sb2spkt(sb[s]) EXCEPT !.mode = "open", !.spdu = <<Incoming(s)>>])

RelAB(s) == Waits(s, {"AB", "TDISC"}) /\ freesblk(s, "aborted", {net[Peer(s)]})

RelUnexpected(s) ==
    /\ \/ Waits(s, Code \ {"FN", "DN", "NF", "RS", "AB", "TDISC"})
       \/ Waits(s, {"NF"}) /\ ~("rls" \in Tokens /\ Owns(sb[s], "rls"))
    /\ ProtocolAbort(s)

-----------------------------------------------------------------------------
UserRequest(s) ==
    \/ SDataRequest(s) \/ STypedRequest(s) \/ SExpdRequest(s)
    \/ SGTokenRequest(s) \/ SPTokenRequest(s) \/ SGControlRequest(s)
    \/ SCapdRequest(s) \/ SMinSyncRequest(s) \/ SMinSyncResponse(s)
    \/ SMajSyncRequest(s) \/ SReSyncRequest(s) \/ SUReportRequest(s)
    \/ SActStartRequest(s) \/ SActResumeRequest(s) \/ SActIntrRequest(s)
    \/ SActEndRequest(s) \/ SUAbortRequest(s) \/ SRelRequest(s)

UserResponse(s) ==
    \/ SCapdResponse(s) \/ SMajSyncResponse(s) \/ SReSyncResponse(s)
    \/ SActIntrResponse(s) \/ SRelResponse(s) \/ SRelRetryRequest(s)

Read(s) ==
    \/ Drop(s) \/ RecvData(s) \/ RecvGT(s) \/ RecvEX(s) \/ RecvCD(s)
    \/ RecvGTC(s) \/ RecvGTA(s) \/ RecvMAP(s) \/ RecvMAA(s) \/ RecvMIP(s)
    \/ RecvMIA(s) \/ RecvRS(s) \/ RecvRA(s) \/ RecvPR(s) \/ RecvED(s)
    \/ RecvAS(s) \/ RecvAI(s) \/ RecvAIA(s) \/ RecvFN(s) \/ RecvAB(s)
    \/ RecvUnexpected(s) \/ RecvTDISC(s) \/ Drain(s)
    \/ RelFN(s) \/ RelDN(s) \/ RelNF(s) \/ RelRS(s) \/ RelAB(s)
    \/ RelUnexpected(s)

Timer(s) == SRelTimeout(s) \/ DrainTimeout(s)

Next == \E s \in Side : UserRequest(s) \/ UserResponse(s) \/ Read(s) \/ Timer(s)

(* The users read when there is something to read and answer the indica-   *)
(* tions that require an answer; nobody has to make a request.             *)
Fairness == \A s \in Side : WF_vars(Read(s)) /\ WF_vars(UserResponse(s))

Spec     == Init /\ [][Next]_vars
FairSpec == Spec /\ Fairness

=============================================================================
