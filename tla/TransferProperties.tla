-------------------------- MODULE TransferProperties --------------------------
(***************************************************************************)
(* What reliable transfer and remote operations owe their users.           *)
(***************************************************************************)
EXTENDS RemoteOperations

Alive(s) == acb[s].pc # "gone"
BothAlive == \A s \in Side : Alive(s)

OnTheWay(s, code) == Cardinality({i \in 1..Len(net[s]) : net[s][i].code = code})
Bit(P) == IF P THEN 1 ELSE 0

(* A transfer that returned OK was indicated to the peer, and one that was *)
(* indicated and has not returned is still waiting for its confirmation,   *)
(* or its sender has lost the association: never twice, never a phantom.   *)
DeliveredOnce ==
    \A s \in Side :
        /\ log[s].ok <= log[Peer(s)].taken
        /\ log[Peer(s)].taken <= log[s].ok + Bit(acb[s].pc \in {"end", "gone"})

(* An APDU is indicated whole: no part of it is missing, none is left over *)
(* from a transfer that was discarded before.                              *)
DeliveredWhole ==
    [][\A s \in Side : log'[s].taken > log[s].taken => acb[s].len = log[Peer(s)].size]_rovars

(* The turn kept in the association block is what the session provider     *)
(* thinks: its owner has all the tokens, both never have it, and when      *)
(* nobody has it the tokens are on their way.                              *)
TurnInStep ==
    /\ \A s \in Side : In(s, "TURN") => sb[s].owned = Tokens
    /\ ~(In("init", "TURN") /\ In("resp", "TURN"))
    /\ BothAlive =>
        \E s \in Side :
            In(s, "TURN") \/ OnTheWay(s, "GTC") > 0 \/ acb[s].ind = "control"

(* No more checkpoints are under way, to the receiver, in its hands or on  *)
(* their way back, than the window the ends agreed on allows.              *)
WindowKept ==
    \A s \in Side : BothAlive /\ acb[s].pc \in {"data", "ckpoint", "window"} =>
        OnTheWay(Peer(s), "MIP") + Bit(acb[Peer(s)].ind = "minorind")
            + OnTheWay(s, "MIA") + Bit(acb[s].ind = "minorcnf")
          <= assoc.window + Bit(assoc.service = "ps")

(* However turns, transfers, checkpoints, discards after a time limit and  *)
(* waits of the two ends interleave, no end makes a session request that   *)
(* is refused or sees an indication it did not expect: an association is   *)
(* only lost when an application refused data, somebody closes it, or the  *)
(* turn is asked back before the session provider knows it has arrived.    *)
LostOnlyByRefusal ==
    (\A s \in Side : log[s].refused = 0 /\ ~log[s].closes /\ ~log[s].hasty)
        => BothAlive

(* RtTransferRequest returns, unless the receiver refused what it was sent.*)
TransferReturns ==
    \A s \in Side : Sends(s) ~> ~Sends(s) \/ \E t \in Side : log[t].refused > 0

(* The user is given the APDUs of the peer in the order they were sent,    *)
(* none twice and none left out, whether they arrive while it waits or in  *)
(* the middle of a call of its own.                                        *)
HandedInOrder ==
    \A s \in Side : ro[s].handed = SubSeq(ro[Peer(s)].sent, 1, Len(ro[s].handed))

(* A call that waits for the turn ends: with the turn, because something   *)
(* arrived that the user must take first, or with the association.         *)
ReadyReturns ==
    \A s \in Side : ro[s].calling ~> ~ro[s].calling \/ ~Alive(s)

=============================================================================
