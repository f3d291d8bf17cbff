--------------------------- MODULE RemoteOperations ---------------------------
(***************************************************************************)
(* Remote operations (rosap) over reliable transfer: ro2rts.c.  Both users *)
(* invoke and answer; an APDU is written by RtTransferRequest once the turn*)
(* is there, and is read by RtWaitRequest.  A user that wants to write     *)
(* without the turn waits for it inside its call, and what arrives there   *)
(* instead is kept in the association block until the user waits.          *)
(*                                                                         *)
(* An association that is not bound to remote operations is driven by its  *)
(* RtS-users directly (assoc.ros is FALSE): then ro does not change.       *)
(***************************************************************************)
EXTENDS ReliableTransfer

VARIABLE ro     \* what remote operations adds to each association block

rovars == <<sb, net, assoc, acb, log, ro>>

Kind == {"invoke", "result"}
Apdu == [kind : Kind, id : Nat]
None == [kind |-> "invoke", id |-> 0]

(* calling: inside ro2rtsready, to write todo afterwards.  apdu: acb_apdu. *)
(* sent, handed: every APDU this side wrote, and every one its user got.   *)
Ro == [ calling : BOOLEAN, todo : Apdu, apdu : Apdu,
        sent : Seq(Apdu), handed : Seq(Apdu) ]

RoTypeOK == RtTypeOK /\ ro \in [Side -> Ro]

RoInit ==
    /\ RtInit
    /\ assoc.ros => ~assoc.upcalls
    /\ ro = [s \in Side |-> [ calling |-> FALSE, todo |-> None, apdu |-> None,
                              sent |-> <<>>, handed |-> <<>>]]

Handed(s, kind) == {ro[s].handed[i].id : i \in
                        {j \in 1..Len(ro[s].handed) : ro[s].handed[j].kind = kind}}
Sent(s, kind)   == {ro[s].sent[i].id : i \in
                        {j \in 1..Len(ro[s].sent) : ro[s].sent[j].kind = kind}}

(* rosapPsig, and ro2rtsready while something is kept.                     *)
MayCall(s) == /\ assoc.ros
              /\ Callable(s)
              /\ ~ro[s].calling
              /\ ~In(s, "CLOSING")

-----------------------------------------------------------------------------
(* Writing.                                                                *)

(* ro2rtswrite: RtTransferRequest without a time limit.                    *)
ro2rtswrite(s, apdu) ==
    /\ \E size \in 1..MaxChunks : rt2sstrans(s, size)
    /\ ro' = [ro EXCEPT ![s].calling = FALSE, ![s].todo = None,
                        ![s].sent = Append(@, apdu)]

ro2rtsready(s, apdu) ==
    /\ ~In(s, "TURN")
    /\ ro[s].apdu = None
    /\ MoreTransfers
    /\ rt2sspturn(s)
    /\ ro' = [ro EXCEPT ![s].calling = TRUE, ![s].todo = apdu]

Call(s, apdu) ==
    /\ MayCall(s)
    /\ ro2rtswrite(s, apdu) \/ ro2rtsready(s, apdu)
    /\ UNCHANGED assoc

RoInvokeRequest(s) ==
    Call(s, [kind |-> "invoke", id |-> Cardinality(Sent(s, "invoke")) + 1])

RoResultRequest(s) ==
    \E id \in Handed(s, "invoke") \ Sent(s, "result") :
        Call(s, [kind |-> "result", id |-> id])

(* The turn is here: the call goes on to write.                            *)
RoReady(s) ==
    /\ ro[s].calling
    /\ Idle(s) /\ In(s, "TURN")
    /\ ro2rtswrite(s, ro[s].todo)
    /\ UNCHANGED assoc

-----------------------------------------------------------------------------
(* Reading.  The APDU of an RTI_TRANSFER is what the transfer carried that *)
(* was going on at the peer when its end was indicated.                    *)

Arrived(s) == ro[Peer(s)].sent[log[s].of]

Taken_(s) == acb' = [acb EXCEPT ![s].rti = "none"]

(* ro2rtsready returns ROS_WAITING and keeps the APDU; ro2rtswait gives it *)
(* to the user.                                                            *)
RoTransfer(s) ==
    /\ acb[s].rti = "transfer"
    /\ Taken_(s)
    /\ ro' = IF ro[s].calling
             THEN [ro EXCEPT ![s].calling = FALSE, ![s].todo = None,
                             ![s].apdu = Arrived(s)]
             ELSE [ro EXCEPT ![s].handed = Append(@, Arrived(s))]
    /\ UNCHANGED <<sb, net, assoc, log>>

\* Mutant: the turn is not given while a call of our own is going on.
RoTurn_ignored(s) ==
    /\ acb[s].rti \in {"turn", "please"}
    /\ Taken_(s)
    /\ UNCHANGED <<sb, net, assoc, log, ro>>

(* doRTSturn: who is asked for the turn gives it; if it is not ours to     *)
(* give the caller gets an error.                                          *)
RoTurn(s) ==
    /\ acb[s].rti \in {"turn", "please"}
    /\ \/ /\ acb[s].rti = "please" /\ MayGiveTurn(s)
          /\ rt2ssgturn(s, [acb[s] EXCEPT !.rti = "none"])
          /\ UNCHANGED ro
       \/ /\ acb[s].rti = "please" => ~MayGiveTurn(s)
          /\ Taken_(s)
          /\ ro' = IF acb[s].rti = "please" THEN [ro EXCEPT ![s].calling = FALSE] ELSE ro
          /\ UNCHANGED <<sb, net>>
    /\ UNCHANGED <<assoc, log>>

(* doRTSclose, and the two ways it is passed on.                           *)
RoClose(s) ==
    /\ acb[s].rti = "close"
    /\ IF s = "init" THEN rtpktlose(s)
       ELSE /\ acb' = [acb EXCEPT ![s].rti = "none",
                           ![s].flags = IF ro[s].calling THEN (@ \cup {"CLOSING"}) \ {"FINN"}
                                                         ELSE @]
            /\ UNCHANGED <<sb, net>>
    /\ ro' = [ro EXCEPT ![s].calling = FALSE, ![s].todo = None]
    /\ UNCHANGED <<assoc, log>>

(* ro2rtswait: what was kept comes first.                                  *)
RoWaitRequest(s) ==
    /\ assoc.ros /\ ~ro[s].calling
    /\ Callable(s)
    /\ \/ /\ ro[s].apdu # None
          /\ ro' = [ro EXCEPT ![s].apdu = None, ![s].handed = Append(@, ro[s].apdu)]
          /\ UNCHANGED acb
       \/ /\ ro[s].apdu = None /\ In(s, "CLOSING")
          /\ acb' = [acb EXCEPT ![s].flags = (@ \ {"CLOSING"}) \cup {"FINN"}]
          /\ UNCHANGED ro
    /\ UNCHANGED <<sb, net, assoc, log>>

\* Mutant: the user's wait does not look at the APDU that was kept.
Keeps_close(s) == In(s, "CLOSING")

Keeps(s) == ro[s].apdu # None \/ In(s, "CLOSING")

-----------------------------------------------------------------------------
(* The composition.                                                        *)

(* What remote operations does about an event it has been given.           *)
RoEvent(s) == RoReady(s) \/ RoTransfer(s) \/ RoTurn(s) \/ RoClose(s) \/ RoWaitRequest(s)

RoCloses(s) == MayCall(s) /\ RtEndRequest(s) /\ UNCHANGED ro

Waiting(s) == ~Keeps(s) /\ (RtRead(s) \/ WaitPlease(s)) /\ UNCHANGED ro

Goes(s) == (Progress(s) \/ RtEndResponse(s)) /\ UNCHANGED ro

RoNext == \E s \in Side :
    \/ RoInvokeRequest(s) \/ RoResultRequest(s) \/ RoCloses(s)
    \/ RoEvent(s) \/ Waiting(s) \/ Goes(s)
    \/ RtUser(s) /\ UNCHANGED ro

(* A call that was made runs on; the user of an idle association waits for *)
(* what comes, takes what was kept for it and answers a close.             *)
RoFairness == \A s \in Side :
    WF_rovars(RoEvent(s)) /\ WF_rovars(Waiting(s)) /\ WF_rovars(Goes(s))

RoSpec == RoInit /\ [][RoNext]_rovars /\ RoFairness

=============================================================================
