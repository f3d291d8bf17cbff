--------------------------- MODULE ReliableTransfer ---------------------------
(***************************************************************************)
(* The reliable transfer provider (rtsap): two associations blocks, one on *)
(* each end of a session connection, driving the session provider of       *)
(* module Session with the calls rt2ss.c (or rt2ps.c) makes.  Every session*)
(* request, and every session indication that is read, is one step, so the *)
(* two ends interleave between the calls of one transfer.                  *)
(*                                                                         *)
(* The association is established; a user requests the turn, gives it,     *)
(* transfers, waits and closes.  RtTransferRequest only returns when its   *)
(* activity has ended, so pc says where inside it the caller is.           *)
(***************************************************************************)
EXTENDS Session

CONSTANTS
    Windows,        \* window sizes the ends may have agreed on
    MaxChunks,      \* checkpoints an APDU is cut into, at most
    MaxTransfers,   \* transfers the two sides start, together
    MaxPlease,      \* requests for the turn on their way to one side
    MaxRefusals     \* refusals of the upcalls and lacks of memory, per side

ASSUME WindowsAssumption   == Windows \subseteq Nat
ASSUME MaxChunksAssumption == MaxChunks \in Nat \ {0}
ASSUME MaxTransfersAssumption == MaxTransfers \in Nat
ASSUME MaxPleaseAssumption == MaxPlease \in Nat
ASSUME MaxRefusalsAssumption == MaxRefusals \in Nat

(* rtpktlose aborts the session: the call is always there to be made.      *)
ASSUME AbortAssumption == "abort" \in Calls

VARIABLES
    assoc,  \* what the ends agreed on: it does not change
    acb,    \* the association block of each side
    log     \* what each side's user has seen: for the properties only

rtvars == <<sb, net, assoc, acb, log>>

(* twa: turns may be exchanged.  ckpoint: transfers are cut by checkpoints.*)
(* upcalls: RtSetUpTrans and RtSetDownTrans were called on both sides.     *)
(* service: SetSS2RtService or SetPS2RtService filled in the entry points. *)
(* ros: RoRtService bound the association to remote operations.            *)
Association == [ twa : BOOLEAN, ckpoint : BOOLEAN, window : Windows,
                 upcalls : BOOLEAN, service : {"ss", "ps"}, ros : BOOLEAN ]

AcFlag == {"TURN", "ACT", "PLEASE", "TIMER", "FINN", "CLOSING"}

(* pc: "user" outside RtTransferRequest; inside it about to send the next  *)
(* part ("data"), to checkpoint it, to end or to discard the activity, or  *)
(* waiting for the window to open or for the activity to end; "release" in *)
(* RtEndRequest; "gone" when the block is freed.  ind is the session       *)
(* indication being worked on, rti what RtWaitRequest returns with.        *)
Pc  == {"user", "data", "ckpoint", "done", "window", "end", "release", "gone"}
Ind == {"none", "data", "control", "please", "minorind", "minorcnf", "start",
        "discind", "disccnf", "endind", "endcnf", "report", "finish"}
Rti == {"none", "turn", "please", "transfer", "close"}

assocblk ==
    [ flags : SUBSET AcFlag, pc : Pc, ind : Ind, rti : Rti, left : Nat,
      ssn : Int, ack : Int, len : Nat ]

(* size: parts of the last APDU given to RtTransferRequest; then how many  *)
(* were started, returned OK, and were indicated; of: which transfer of the*)
(* peer's the last indicated one was; refusals; whether it closed; whether *)
(* it asked for a turn whose receipt was not acknowledged.                 *)
Log == [ size : Nat, started : Nat, ok : Nat, taken : Nat, of : Nat,
         refused : Nat, closes : BOOLEAN, hasty : BOOLEAN ]

RtTypeOK ==
    /\ assoc \in Association
    /\ acb \in [Side -> assocblk]
    /\ log \in [Side -> Log]

NewAcb(flags) ==
    [ flags |-> flags, pc |-> "user", ind |-> "none", rti |-> "none", left |-> 0,
      ssn |-> 0, ack |-> 0, len |-> 0 ]

(* All the tokens are with the side that has the first turn.               *)
RtInit ==
    /\ assoc \in Association
    /\ \E turn \in Side :
        /\ sb  = [s \in Side |-> newsblk(IF s = turn THEN Tokens ELSE {}, 0)]
        /\ acb = [s \in Side |-> NewAcb(IF s = turn THEN {"TURN"} ELSE {})]
    /\ net = [s \in Side |-> <<>>]
    /\ log = [s \in Side |-> [size |-> 0, started |-> 0, ok |-> 0,
                              taken |-> 0, of |-> 0, refused |-> 0,
                              closes |-> FALSE, hasty |-> FALSE]]

In(s, f)   == f \in acb[s].flags
Idle(s)    == acb[s].pc = "user" /\ acb[s].ind = "none" /\ acb[s].rti = "none"
Callable(s) == Idle(s) /\ ~In(s, "FINN")

-----------------------------------------------------------------------------
(* Losing the association.                                                 *)

Gone(s) == acb' = [acb EXCEPT ![s] = [NewAcb({}) EXCEPT !.pc = "gone"]]

(* rtpktlose, ss2rtslose, freeacblk: S-U-ABORT and the block is freed.     *)
rtpktlose(s) ==
    /\ freesblk(s, "aborted", Queued(net[Peer(s)], Abort("user")))
    /\ Gone(s)

(* A session request whose failure costs the association.                  *)
Performs(s, request, a) ==
    \/ request /\ acb' = [acb EXCEPT ![s] = a]
    \/ ~ENABLED request /\ rtpktlose(s)

-----------------------------------------------------------------------------
(* The turn.                                                               *)

PleaseForTurn(s) ==
    /\ SPTokenRequest(s)
    /\ \A i \in 1..Len(net'[Peer(s)]) :
         net'[Peer(s)][i].code = "PT" => net'[Peer(s)][i].tokens = {"dat"}

rt2sspturn(s) ==
    /\ assoc.twa /\ ~In(s, "TURN")
    /\ Cardinality({i \in 1..Len(net[Peer(s)]) : net[Peer(s)][i].code = "PT"}) < MaxPlease
    /\ Performs(s, PleaseForTurn(s), acb[s])
    /\ log' = [log EXCEPT ![s].hasty = @ \/ "GTC" \in sb[s].flags]

\* Mutant: the giver goes on as if it had the turn.
rt2ssgturn_kept(s, a) ==
    Performs(s, SGControlRequest(s), [a EXCEPT !.flags = @ \ {"PLEASE"}])

rt2ssgturn(s, a) ==
    Performs(s, SGControlRequest(s), [a EXCEPT !.flags = @ \ {"TURN", "PLEASE"}])

MayGiveTurn(s) == assoc.twa /\ In(s, "TURN") /\ ~In(s, "ACT")

RtPTurnRequest(s) ==
    /\ Callable(s)
    /\ rt2sspturn(s)
    /\ UNCHANGED assoc

RtGTurnRequest(s) ==
    /\ Callable(s)
    /\ MayGiveTurn(s)
    /\ rt2ssgturn(s, acb[s])
    /\ UNCHANGED <<assoc, log>>

-----------------------------------------------------------------------------
(* RtTransferRequest.                                                      *)

\* Mutant: the sender lets one checkpoint too many go unconfirmed.
WindowFull_late(a) == a.ssn - a.ack > assoc.window

(* rt2ss.c stops at the window, rt2ps.c one checkpoint beyond it.          *)
WindowFull(a) ==
    IF assoc.service = "ss" THEN a.ssn - a.ack >= assoc.window
                            ELSE a.ssn - a.ack > assoc.window

MoreTransfers == log["init"].started + log["resp"].started < MaxTransfers

(* APDU of size parts; without checkpoints it is sent in one S-DATA.       *)
rt2sstrans(s, size) ==
    /\ In(s, "TURN") /\ ~In(s, "ACT")
    /\ MoreTransfers
    /\ ~assoc.ckpoint => size = 1
    /\ Performs(s, SActStartRequest(s),
            [acb[s] EXCEPT !.flags = @ \cup {"ACT"}, !.pc = "data", !.left = size,
                           !.ssn = IF assoc.ckpoint THEN 0 ELSE @,
                           !.ack = IF assoc.ckpoint THEN 0 ELSE @])
    /\ log' = [log EXCEPT ![s].size = size, ![s].started = @ + 1]

RtTransferRequest(s) ==
    /\ Callable(s)
    /\ \E size \in 1..MaxChunks : rt2sstrans(s, size)
    /\ UNCHANGED assoc

\* Mutant: the last part does not end the loop.
SendPart_past(s) ==
    /\ acb[s].pc = "data"
    /\ Performs(s, SDataRequest(s),
            [acb[s] EXCEPT !.left = @ - 1, !.pc = IF acb[s].left = 0 THEN "done" ELSE "ckpoint"])
    /\ UNCHANGED <<assoc, log>>

SendPart(s) ==
    /\ acb[s].pc = "data"
    /\ Performs(s, SDataRequest(s),
            [acb[s] EXCEPT !.left = @ - 1, !.pc = IF acb[s].left = 1 THEN "done" ELSE "ckpoint"])
    /\ UNCHANGED <<assoc, log>>

Checkpoint(s) ==
    /\ acb[s].pc = "ckpoint"
    /\ LET a == [acb[s] EXCEPT !.ssn = sb[s].V_M] IN
       Performs(s, SMinSyncRequest(s),
            [a EXCEPT !.pc = IF WindowFull(a) THEN "window" ELSE "data"])
    /\ UNCHANGED <<assoc, log>>

EndActivity(s) ==
    /\ acb[s].pc = "done"
    /\ Performs(s, SActEndRequest(s), [acb[s] EXCEPT !.pc = "end", !.ssn = sb[s].V_M])
    /\ UNCHANGED <<assoc, log>>

SActDiscRequest(s) == SActIntrRequest(s) /\ sb'[s].rs = "disc"

MayRefuse(s) == log[s].refused < MaxRefusals
Refuses(s)   == log' = [log EXCEPT ![s].refused = @ + 1]

(* bad_trans: the downtrans upcall has no more data for us.                *)
BadTransfer(s) ==
    /\ assoc.upcalls
    /\ acb[s].pc \in {"data", "ckpoint"}
    /\ acb[s].pc = "data" => acb[s].left = log[s].size
    /\ MayRefuse(s)
    /\ Refuses(s)
    /\ Performs(s, SActDiscRequest(s), [acb[s] EXCEPT !.pc = "done"])
    /\ UNCHANGED assoc

\* Mutant: the time limit also applies to the wait for the end.
TimeLimit_end(s) ==
    /\ acb[s].pc \in {"ckpoint", "end"}
    /\ "timeout" \in Calls
    /\ Performs(s, SActDiscRequest(s),
            [acb[s] EXCEPT !.pc = "end", !.flags = @ \cup {"TIMER"}])
    /\ UNCHANGED <<assoc, log>>

(* The time the caller allows for the transfer is over.                    *)
TimeLimit(s) ==
    /\ acb[s].pc = "ckpoint"
    /\ "timeout" \in Calls
    /\ Performs(s, SActDiscRequest(s),
            [acb[s] EXCEPT !.pc = "end", !.flags = @ \cup {"TIMER"}])
    /\ UNCHANGED <<assoc, log>>

-----------------------------------------------------------------------------
(* Reading: the indication a session SPDU gives rise to.                   *)

Raises(b, m) ==
    \/ m.code \in {"DT", "MIP", "ED", "FN"}
    \/ m.code = "PT"  /\ "GTC" \notin b.flags
    \/ m.code \in {"GTC", "AS"} /\ "Vact" \notin b.flags
    \/ m.code \in {"AD", "AI", "AIA"} /\ "Vact" \in b.flags
    \/ m.code = "MIA" /\ "Vsc" \notin b.flags /\ b.V_A <= m.ssn /\ m.ssn < b.V_M
    \/ m.code = "MAP" /\ b.V_M = m.ssn
    \/ m.code = "MAA" /\ b.V_M = m.ssn + 1

IndicationOf ==
    [ DT |-> "data", PT |-> "please", GTC |-> "control", MIP |-> "minorind",
      MIA |-> "minorcnf", ED |-> "report", FN |-> "finish", AS |-> "start",
      AD |-> "discind", AI |-> "discind", AIA |-> "disccnf", MAP |-> "endind",
      MAA |-> "endcnf" ]

Indication(s) ==
    LET m == Incoming(s) IN
    IF Dropped(s, sb[s], m) \/ ~Raises(sb[s], m) THEN "none" ELSE IndicationOf[m.code]

(* The caller is in RtWaitRequest, or waits inside another call.           *)
Reading(s) ==
    /\ acb[s].pc \in {"user", "window", "end", "release"}
    /\ acb[s].ind = "none" /\ acb[s].rti = "none"
    /\ acb[s].pc = "user" => ~In(s, "FINN") /\ ~In(s, "PLEASE")

RtRead(s) ==
    /\ Reading(s)
    /\ Read(s)
    /\ IF sb'[s].mode \in {"open", "waiting"}
       THEN acb' = [acb EXCEPT ![s].ind =
                        IF sb[s].mode = "open" THEN Indication(s) ELSE "none"]
       ELSE Gone(s)
    /\ UNCHANGED <<assoc, log>>

(* Indications are kept for remote operations, which acts on each of them. *)
Returns(a, rti) == [a EXCEPT !.rti = IF assoc.ros THEN rti ELSE "none"]

(* RtWaitRequestAux: the turn was asked for during a transfer.             *)
WaitPlease(s) ==
    /\ Callable(s) /\ In(s, "PLEASE")
    /\ acb' = [acb EXCEPT ![s] = Returns([acb[s] EXCEPT !.flags = @ \ {"PLEASE"}],
                                      "please")]
    /\ UNCHANGED <<sb, net, assoc, log>>

-----------------------------------------------------------------------------
(* What is done about each indication.  Handled re-evaluates the condition *)
(* of the loop that waits.                                                 *)

\* Mutant: the reply of RtTransferRequest does not wait for the activity.
Continues_early(a) ==
    [a EXCEPT !.ind = "none",
        !.pc = IF a.pc = "window" /\ ~WindowFull(a) THEN "data"
               ELSE IF a.pc = "end" THEN "user" ELSE a.pc]

Continues(a) ==
    [a EXCEPT !.ind = "none",
        !.pc = IF a.pc = "window" /\ ~WindowFull(a) THEN "data"
               ELSE IF a.pc = "end" /\ "ACT" \notin a.flags THEN "user" ELSE a.pc]

(* RtTransferRequest returns: OK, or that the time was over.               *)
Transferred(s, a) ==
    IF acb[s].pc = "end" /\ Continues(a).pc = "user" /\ "TIMER" \notin a.flags
    THEN [log EXCEPT ![s].ok = @ + 1] ELSE log

Settled(a) == IF a.pc = "user" THEN [a EXCEPT !.flags = @ \ {"TIMER"}] ELSE a

Handled(s, a) ==
    /\ acb' = [acb EXCEPT ![s] = Settled(Continues(a))]
    /\ log' = Transferred(s, a)

HandledBy(s, request, a) ==
    \/ request /\ Handled(s, a)
    \/ ~ENABLED request /\ rtpktlose(s) /\ UNCHANGED log

Unexpected(s) == rtpktlose(s) /\ UNCHANGED log

(* S-U-EXCEPTION-REPORT: this side will not have what it was sent.         *)
Reports(s, a) ==
    /\ MayRefuse(s)
    /\ Refuses(s)
    /\ Performs(s, SUReportRequest(s), Continues(a))

(* We are receiving a transfer.                                            *)
Receives(s) == In(s, "ACT") /\ ~In(s, "TURN")
Sends(s)    == In(s, "ACT") /\ In(s, "TURN")

doSSdata(s) ==
    /\ acb[s].ind = "data"
    /\ IF ~Receives(s) THEN Unexpected(s)
       ELSE \/ /\ Handled(s, [acb[s] EXCEPT !.len = @ + 1])
               /\ UNCHANGED <<sb, net>>
            \/ /\ assoc.upcalls \/ acb[s].len > 0
               /\ Reports(s, [acb[s] EXCEPT !.len = 0])

(* A request for the turn while the caller waits inside a transfer: the    *)
(* downtrans upcall decides whether to interrupt, else it is kept.         *)
doSStoken(s) ==
    \/ /\ acb[s].ind = "control"
       /\ IF ~assoc.twa \/ In(s, "ACT") THEN Unexpected(s)
          ELSE /\ Handled(s, Returns([acb[s] EXCEPT !.flags = @ \cup {"TURN"}], "turn"))
               /\ UNCHANGED <<sb, net>>
    \/ /\ acb[s].ind = "please" /\ acb[s].pc \in {"window", "end"}
       /\ \/ /\ Handled(s, [acb[s] EXCEPT !.flags = IF assoc.upcalls THEN @
                                                    ELSE @ \cup {"PLEASE"}])
             /\ UNCHANGED <<sb, net>>
          \/ /\ assoc.upcalls /\ MayRefuse(s)
             /\ Refuses(s)
             /\ Performs(s, SActIntrRequest(s) /\ sb'[s].rs = "intr", Continues(acb[s]))
    \/ /\ acb[s].ind = "please" /\ acb[s].pc \notin {"window", "end"}
       /\ IF ~assoc.twa THEN Unexpected(s)
          ELSE Handled(s, Returns(acb[s], "please")) /\ UNCHANGED <<sb, net>>

\* Mutant: the confirmation is read and not counted.
doSSsync_ack(s) ==
    \/ /\ acb[s].ind = "minorind"
       /\ HandledBy(s, SMinSyncResponse(s) /\ sb'[s].V_A = sb[s].V_M, acb[s])
    \/ /\ acb[s].ind = "minorcnf"
       /\ Handled(s, acb[s])
       /\ UNCHANGED <<sb, net>>

SMinSyncResponseTo(s) == SMinSyncResponse(s) /\ sb'[s].V_A = sb[s].V_M

doSSsync(s) ==
    \/ /\ acb[s].ind = "minorind"
       /\ IF ~Receives(s) THEN Unexpected(s)
          ELSE \/ HandledBy(s, SMinSyncResponseTo(s), acb[s])
               \/ assoc.upcalls /\ Reports(s, acb[s])
    \/ /\ acb[s].ind = "minorcnf"
       /\ IF ~Sends(s) THEN Unexpected(s)
          ELSE /\ Handled(s, [acb[s] EXCEPT !.ack = sb[s].V_A])
               /\ UNCHANGED <<sb, net>>

ActStartInd(s) ==
    /\ acb[s].ind = "start"
    /\ IF acb[s].flags \cap {"ACT", "TURN"} # {} THEN Unexpected(s)
       ELSE \/ /\ Handled(s, [acb[s] EXCEPT !.flags = @ \cup {"ACT"}])
               /\ UNCHANGED <<sb, net>>
            \/ assoc.upcalls /\ Reports(s, acb[s])

\* Mutant: the parts of the discarded transfer are not thrown away.
ActDiscInd_kept(s) ==
    /\ acb[s].ind = "discind"
    /\ IF ~Receives(s) THEN Unexpected(s)
       ELSE HandledBy(s, SActIntrResponse(s), [acb[s] EXCEPT !.flags = @ \ {"ACT"}])

ActDiscInd(s) ==
    /\ acb[s].ind = "discind"
    /\ IF ~Receives(s) THEN Unexpected(s)
       ELSE HandledBy(s, SActIntrResponse(s),
                [acb[s] EXCEPT !.flags = @ \ {"ACT"}, !.len = 0])

(* S-ACTIVITY-DISCARD.CONFIRM, and S-ACTIVITY-END.CONFIRM.                 *)
ActCnf(s) ==
    /\ acb[s].ind \in {"disccnf", "endcnf"}
    /\ IF ~Sends(s) THEN Unexpected(s)
       ELSE /\ Handled(s, [acb[s] EXCEPT !.flags = @ \ {"ACT"}])
            /\ UNCHANGED <<sb, net>>

(* Nothing was assembled: what arrived cannot be decoded.                  *)
ActEndInd(s) ==
    /\ acb[s].ind = "endind"
    /\ IF ~Receives(s) \/ (acb[s].len = 0 /\ ~assoc.upcalls) THEN Unexpected(s)
       ELSE \/ /\ Performs(s, SMajSyncResponse(s),
                      Returns([acb[s] EXCEPT !.flags = @ \ {"ACT"}, !.len = 0,
                                             !.ind = "none"], "transfer"))
               /\ log' = IF acb'[s].pc = "gone" THEN log
                         ELSE [log EXCEPT ![s].taken = @ + 1,
                                          ![s].of = log[Peer(s)].started]
            \/ Reports(s, [acb[s] EXCEPT !.len = 0])

doSSactivity(s) == ActStartInd(s) \/ ActDiscInd(s) \/ ActCnf(s) \/ ActEndInd(s)

(* rt2ps.c has the test the other way round: a report is only acted on     *)
(* when no transfer is in progress, and then there is nothing to discard.  *)
doSSreport(s) ==
    /\ acb[s].ind = "report"
    /\ IF assoc.service = "ss" /\ Sends(s)
       THEN HandledBy(s, SActDiscRequest(s), acb[s])
       ELSE Unexpected(s)

doSSfinish(s) ==
    /\ acb[s].ind = "finish"
    /\ IF (s = "init" /\ assoc.twa) \/ In(s, "TURN") \/ In(s, "ACT") THEN Unexpected(s)
       ELSE /\ Handled(s, Returns([acb[s] EXCEPT !.flags = @ \cup {"FINN"}], "close"))
            /\ UNCHANGED <<sb, net>>

RtIndication(s) ==
    /\ \/ doSSdata(s) \/ doSStoken(s) \/ doSSsync(s)
       \/ doSSactivity(s) \/ doSSreport(s) \/ doSSfinish(s)
    /\ UNCHANGED assoc

-----------------------------------------------------------------------------
(* RtEndRequest and RtEndResponse.                                         *)

RtEndRequest(s) ==
    /\ Callable(s)
    /\ s = "init" \/ ~assoc.twa
    /\ In(s, "TURN") /\ ~In(s, "ACT") /\ ~In(s, "PLEASE")
    /\ Performs(s, SRelRequest(s), [acb[s] EXCEPT !.pc = "release"])
    /\ log' = [log EXCEPT ![s].closes = TRUE]
    /\ UNCHANGED assoc

AcceptsRelease(s) == SRelResponse(s) /\ sb'[s].mode = "draining"

RtEndResponse(s) ==
    /\ Idle(s) /\ In(s, "FINN")
    /\ \/ AcceptsRelease(s) /\ Gone(s)
       \/ ~ENABLED AcceptsRelease(s) /\ rtpktlose(s)
    /\ UNCHANGED <<assoc, log>>

(* The session block of an accepted release waits for the disconnect.      *)
RtDrain(s) ==
    /\ acb[s].pc = "gone"
    /\ Drain(s)
    /\ UNCHANGED <<assoc, acb, log>>

-----------------------------------------------------------------------------
(* What goes on inside a call that was made, whatever the user does.       *)
Progress(s) ==
    \/ SendPart(s) \/ Checkpoint(s) \/ EndActivity(s)
    \/ RtIndication(s) \/ RtDrain(s)

(* What an RtS-user that is not remote operations calls by itself.         *)
RtUser(s) ==
    /\ ~assoc.ros
    /\ \/ RtPTurnRequest(s) \/ RtGTurnRequest(s) \/ RtTransferRequest(s)
       \/ RtEndRequest(s) \/ BadTransfer(s) \/ TimeLimit(s)

=============================================================================
