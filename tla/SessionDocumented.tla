-------------------------- MODULE SessionDocumented --------------------------
(***************************************************************************)
(* What the headers and manual pages of the repository say of the session  *)
(* provider, where the code does something else.  TLC refutes each of      *)
(* these formulas; PROJECT.json quotes the line each one comes from.       *)
(***************************************************************************)
EXTENDS SessionProperties

(* h/spkt.h calls sb_V_A the "lowest unconfirmed ssn".  When nothing is on *)
(* its way the ends then agree on it: a confirmation moves it in both.     *)
ConfirmedInStep == Quiet => sb["init"].V_A = sb["resp"].V_A

(* h/spkt.h calls SB_MAP "MAP request in progress": the MAP, the peer's    *)
(* user or the MAA can be pointed at, or else nothing will clear the flag. *)
MajorSyncInProgress ==
    BothLive => \A s \in Side :
        Flagged(s, "MAP") =>
            Coming(Peer(s), {"MAP"}) \/ Flagged(Peer(s), "MAA") \/ Coming(s, {"MAA"})

(* h/spkt.h calls SB_RELEASE "release in progress": the FN, the peer's     *)
(* user, or the answer can be pointed at.                                  *)
ReleaseInProgress ==
    BothLive => \A s \in Side :
        Flagged(s, "RELEASE") =>
            Coming(Peer(s), {"FN"}) \/ Flagged(Peer(s), "FINN") \/ Coming(s, {"DN", "NF"})

(* ssap/libssap.3n: "Upon receipt of a S-RELEASE-INDICATION event, the     *)
(* peer must immediately respond with an S-RELEASE-RESPONSE".  A user that *)
(* tries to is heard in the end.                                           *)
ReleaseAnswered == \A s \in Side : Flagged(s, "FINN") ~> ~Flagged(s, "FINN")

=============================================================================
