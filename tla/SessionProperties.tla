------------------------- MODULE SessionProperties -------------------------
(***************************************************************************)
(* What two session providers owe their users, stated over both blocks and *)
(* the SPDUs between them.                                                 *)
(***************************************************************************)
EXTENDS Session

Flagged(s, f) == f \in sb[s].flags
Live(s)       == sb[s].mode \in {"open", "waiting"}
BothLive      == \A s \in Side : Live(s)

(* The SPDUs s has still to see, the one a release wait put back included. *)
Ahead(s)       == sb[s].spdu \o net[s]
Coming(s, cs)  == \E i \in 1..Len(Ahead(s)) : Ahead(s)[i].code \in cs
Count(s, cs)   == Cardinality({i \in 1..Len(Ahead(s)) : Ahead(s)[i].code \in cs})
One(P)         == IF P THEN 1 ELSE 0

-----------------------------------------------------------------------------
(* Tokens.                                                                 *)

Holds(s, t) == \/ t \in sb[s].owned
               \/ \E i \in 1..Len(Ahead(s)) :
                    Ahead(s)[i].code = "GT" /\ t \in Ahead(s)[i].tokens

(* A side that waits for RA or AIA makes no request that needs a token.    *)
Suspended(s) == sb[s].flags \cap {"RS", "AI"} # {}

(* No token is held twice: two sides hold one (in their block, or in a GT  *)
(* on its way to them) only while one of them waits for the end of a       *)
(* resynchronization or an interrupt that will settle its tokens.          *)
TokenHeldOnce ==
    BothLive => \A t \in Tokens :
        Holds("init", t) /\ Holds("resp", t) => \E s \in Side : Suspended(s)

Quiet == /\ \A s \in Side : sb[s].mode = "open" /\ Ahead(s) = <<>>
         /\ \A s \in Side : sb[s].flags \cap {"RS", "RA", "AI", "AIA"} = {}

(* No token is lost: when nothing is on its way and no resynchronization   *)
(* or interrupt is open, each token has an owner.                          *)
TokenNotLost == Quiet => \A t \in Tokens : \E s \in Side : t \in sb[s].owned

-----------------------------------------------------------------------------
(* Serial numbers and synchronization points.                              *)

Resynchronizing ==
    \E s \in Side :
        \/ sb[s].flags \cap {"RS", "RA", "AI", "AIA"} # {}
        \/ Coming(s, {"RS", "RA", "AI", "AD", "AIA", "AS", "AR"})

(* Outside resynchronization both ends count the same points: V(M) of an   *)
(* end plus the points on their way to it is V(M) of the other end plus    *)
(* the points on their way there.  Were it not so, RecvMAP would discard   *)
(* the next major sync point without a word.                               *)
SsnInStep ==
    BothLive /\ ~Resynchronizing =>
        sb["init"].V_M + Count("init", {"MIP", "MAP"}) =
        sb["resp"].V_M + Count("resp", {"MIP", "MAP"})

(* A major sync (or activity end) that is not confirmed is in exactly one  *)
(* place: the MAP on its way, the peer's user, or the MAA on its way back. *)
MajorSyncPaired ==
    BothLive => \A s \in Side :
        One(Flagged(s, "MAP")) =
            Count(Peer(s), {"MAP"}) + One(Flagged(Peer(s), "MAA")) + Count(s, {"MAA"})

(* Every major sync is confirmed in the end, since users must answer them. *)
MajorSyncCompletes ==
    \A s \in Side : Flagged(s, "MAP") ~> ~Flagged(s, "MAP")

-----------------------------------------------------------------------------
(* Resynchronization.                                                      *)

(* Whatever requests crossed, a user that is asked to answer one is asked  *)
(* about the very request its peer waits on: type, serial number, tokens.  *)
ResyncAgreed ==
    BothLive => \A s \in Side :
        Flagged(s, "RA") =>
            LET p == Peer(s) IN
            /\ Flagged(p, "RS")
            /\ sb[p].rs = sb[s].rs
            /\ sb[p].rsn = sb[s].rsn
            /\ sb[p].rsettings = sb[s].rsettings

(* A resynchronization request is answered or loses against the peer's.    *)
ResyncCompletes ==
    \A s \in Side : Flagged(s, "RS") ~> ~Flagged(s, "RS")

-----------------------------------------------------------------------------
(* Activities and exceptions.                                              *)

(* When nothing is outstanding the ends agree whether an activity is on.   *)
ActivityInStep ==
    Quiet /\ (\A s \in Side : sb[s].flags \cap {"MAP", "MAA"} = {})
        => (Flagged("init", "Vact") <=> Flagged("resp", "Vact"))

(* An interrupt or discard is answered.                                    *)
InterruptCompletes ==
    \A s \in Side : Flagged(s, "AI") ~> ~Flagged(s, "AI")

(* An exception the reporter waits on can be cleared: its report is on its *)
(* way, or the peer knows it must give the data token, or has given it.    *)
ExceptionClearable ==
    BothLive => \A s \in Side :
        Flagged(s, "ED") =>
            \/ Coming(Peer(s), {"ED"})
            \/ Flagged(Peer(s), "EDACK")
            \/ \E i \in 1..Len(Ahead(s)) :
                  Ahead(s)[i].code = "GT" /\ "dat" \in Ahead(s)[i].tokens

(* The data token's owner is held back for an exception only while the     *)
(* reporter waits.                                                         *)
ExceptionPaired ==
    BothLive => \A s \in Side : Flagged(s, "EDACK") => Flagged(Peer(s), "ED")

-----------------------------------------------------------------------------
(* Release.                                                                *)

(* S-RELEASE.CONFIRM says yes to one user only if the other user accepted  *)
(* (it drains its connection or is done), or asked for release itself (and *)
(* may have lost patience since).  A user that goes on is never left.      *)
ReleaseAgreed ==
    [][\A s \in Side :
          sb[s].mode = "waiting" /\ sb'[s].mode = "released" =>
              \/ sb[Peer(s)].mode # "open"
              \/ Flagged(Peer(s), "RELEASE")]_vars

(* Neither end of a release waits for ever: the requester gets its answer  *)
(* (or loses the connection), the acceptor sees the connection close.      *)
ReleaseCompletes ==
    \A s \in Side : sb[s].mode \in {"waiting", "draining"}
                       ~> sb[s].mode \in {"open", "released", "aborted"}

(* No half-open connection: once one block is freed, however that came     *)
(* about, the other end finds out and frees its own.                       *)
NoHalfOpen == \A s \in Side : Closed(sb[s]) ~> Closed(sb[Peer(s)])

-----------------------------------------------------------------------------
(* The expedited flow.                                                     *)

(* Whatever the expedited flow overtook, a provider recovers: the          *)
(* preparation it announced is ended, so that normal SPDUs are read again  *)
(* and not discarded, and the one expedited XSDU set aside meanwhile is    *)
(* handed to the user.                                                     *)
ExpeditedRecovers ==
    \A s \in Side : sb[s].pr # "PR" \/ sb[s].xspdu
                       ~> sb[s].pr = "PR" /\ ~sb[s].xspdu

=============================================================================
