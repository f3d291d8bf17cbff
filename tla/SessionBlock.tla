---------------------------- MODULE SessionBlock ----------------------------
(***************************************************************************)
(* The vocabulary of the ISODE session provider (ssap): functional units,  *)
(* tokens, SPDUs, the per-connection block `struct ssapblk`, and the       *)
(* predicates every entry point of the library evaluates before it acts.   *)
(* Sources: h/ssap.h, h/spkt.h, ssap/ssaprovider.c, ssap/ssapactchk.c.     *)
(***************************************************************************)
EXTENDS Integers, Sequences, FiniteSets

CONSTANTS
    Requirements,   \* functional units the two ends negotiated
    Expd,           \* SB_EXPD: the transport offers expedited data
    MaxSsn          \* stands for SERIAL_MAX: the largest serial number used

FunctionalUnit ==
    { "HALFDUPLEX", "DUPLEX", "EXPEDITED", "MINORSYNC", "MAJORSYNC", "RESYNC",
      "ACTIVITY", "NEGOTIATED", "CAPABILITY", "EXCEPTIONS", "TYPEDATA" }

(* EXPEDITED is only negotiated over a transport with expedited data, and  *)
(* the two data modes exclude each other.                                  *)
ASSUME RequirementsAssumption ==
    /\ Requirements \subseteq FunctionalUnit
    /\ "EXPEDITED" \in Requirements => Expd
    /\ ("HALFDUPLEX" \in Requirements) # ("DUPLEX" \in Requirements)
ASSUME ExpdAssumption   == Expd \in BOOLEAN
ASSUME MaxSsnAssumption == MaxSsn \in Nat

Needs(unit) == unit \in Requirements

-----------------------------------------------------------------------------
(* The two ends: SB_INIT is set in the block of the first.                 *)
Side == {"init", "resp"}
Peer(s) == IF s = "init" THEN "resp" ELSE "init"

(* A token exists only when a functional unit that uses it was negotiated: *)
(* the sets SR_xxx_EXISTS, walked by the macro dotokens.                   *)
Tokens ==
    { t \in {"rls", "maj", "min", "dat"} :
        \/ t = "rls" /\ Needs("NEGOTIATED")
        \/ t = "maj" /\ (Needs("MAJORSYNC") \/ Needs("ACTIVITY"))
        \/ t = "min" /\ Needs("MINORSYNC")
        \/ t = "dat" /\ Needs("HALFDUPLEX") }

(* Token settings carried by RS and RA: the side that gets each token, or  *)
(* "call": the accepting user chooses.                                     *)
Settings      == [Tokens -> Side \cup {"call"}]
FinalSettings == [Tokens -> Side]
NoSettings    == [t \in Tokens |-> "call"]

\* Mutant: a token the settings give away is not taken from its owner.
TokensOf_kept(s, settings, owned) == owned \cup {t \in Tokens : settings[t] = s}

(* Owners after the settings of a completed resynchronization are applied. *)
TokensOf(s, settings, owned) ==
    {t \in Tokens : settings[t] = s} \cup {t \in owned : settings[t] = "call"}

-----------------------------------------------------------------------------
(* SPDUs.  One record shape for all of them; a field an SPDU does not have *)
(* keeps its default.  AI and AIA share their codes with AB and AA in the  *)
(* encoding and are told apart by a parameter; here they have own names.   *)
Code == { "DT", "TD", "EX", "GT", "PT", "GTC", "GTA", "CD", "CDA", "MIP",
          "MIA", "MAP", "MAA", "RS", "RA", "ED", "AS", "AR", "AI", "AD",
          "AIA", "PR", "FN", "DN", "NF", "AB", "TDISC" }

PrType == {"MAA", "RS", "RA", "AB"}
ReSync == {"restart", "abandon", "set"}
SyncType == ReSync \cup {"intr", "disc"}
SpduType == SyncType \cup PrType \cup {"none", "end", "noend", "user", "provider"}

Ssn == -1 .. (MaxSsn + 1)

Spdu(code) == [ code |-> code, type |-> "none", ssn |-> 0, tokens |-> {},
                settings |-> NoSettings, xpd |-> FALSE ]

SpduShape == [ code : Code, type : SpduType, ssn : Int, tokens : SUBSET Tokens,
               settings : Settings, xpd : BOOLEAN ]

(* An RS carries a resynchronization type, a PR the SPDU it announces.     *)
SpduSet == { m \in SpduShape : /\ m.code = "RS" => m.type \in ReSync
                               /\ m.code = "PR" => m.type \in PrType }

-----------------------------------------------------------------------------
(* struct ssapblk.  SB_INIT, SB_EXPD and SB_ASYN do not change after the   *)
(* connection is set up and are constants of the model; SB_ERACK is only   *)
(* set by an ER SPDU, which this implementation never generates.  mode is  *)
(* where the user's last call left the descriptor: "waiting" inside the    *)
(* S-RELEASE.REQUEST, "draining" inside freesblk after an accepted         *)
(* release, "released" and "aborted" once the block is freed.              *)
Flag == { "FINN", "CD", "CDA", "GTC", "MAP", "MAA", "AE", "RS", "RA", "AI",
          "AIA", "ED", "EDACK", "Vact", "Vsc", "Vnextact", "RELEASE" }

Mode == {"open", "waiting", "draining", "released", "aborted"}

Ssapblk ==
    [ mode : Mode, flags : SUBSET Flag, owned : SUBSET Tokens,
      V_A : Int, V_M : Int, V_R : Int,
      rs : SyncType, rsn : Int, rsettings : Settings,
      pr : {"PR"} \cup PrType,
      xspdu : BOOLEAN, spdu : Seq(SpduSet) ]

(* The block a connection starts the data phase with.                      *)
newsblk(owned, isn) ==
    [ mode |-> "open", flags |-> {}, owned |-> owned,
      V_A |-> isn, V_M |-> isn, V_R |-> 0,
      rs |-> "restart", rsn |-> 0, rsettings |-> NoSettings,
      pr |-> "PR", xspdu |-> FALSE, spdu |-> <<>> ]

Has(b, fs)  == b.flags \cap fs # {}
Owns(b, t)  == t \in b.owned
OwnsIfAny(b, t) == t \in Tokens => t \in b.owned

-----------------------------------------------------------------------------
\* Mutant: a major sync in progress does not hold other requests back.
ssapPsig_major(b) == /\ b.mode = "open"
                     /\ ~Has(b, {"FINN", "RELEASE", "RS", "RA", "AI", "AIA", "ED", "EDACK"})

(* The gates of the entry points: ssapPsig for most requests, ssapXsig for *)
(* giving tokens and interrupting, ssapRsig for resynchronization, ssapAsig*)
(* for activity interrupt responses, ssapFsig for the release response.    *)
ssapPsig(b) == /\ b.mode = "open"
               /\ ~Has(b, {"FINN", "RELEASE", "MAP", "RS", "RA", "AI", "AIA", "ED", "EDACK"})

ssapXsig(b) == /\ b.mode = "open"
               /\ ~Has(b, {"FINN", "RELEASE", "RS", "RA", "AI", "AIA", "ED"})

ssapRsig(b) == /\ b.mode = "open"
               /\ ~Has(b, {"FINN", "RELEASE", "RS", "AI", "AIA", "AE", "ED"})

ssapAsig(b) == /\ b.mode = "open"
               /\ ~Has(b, {"FINN", "RELEASE", "MAA", "RS", "AI", "ED", "EDACK"})

ssapFsig(b) == /\ b.mode = "open"
               /\ "FINN" \in b.flags
               /\ ~Has(b, {"RELEASE", "MAA", "RS", "RA", "AI", "AIA", "ED", "EDACK"})

(* Tokens and functional units an activity or major-sync request needs.    *)
SDoActivityAux(b, act, rls) ==
    /\ act  => Needs("ACTIVITY") /\ "Vact" \notin b.flags
    /\ ~act => Needs("MAJORSYNC") \/ Needs("ACTIVITY")
    /\ OwnsIfAny(b, "dat")
    /\ OwnsIfAny(b, "min")
    /\ Owns(b, "maj")
    /\ rls => OwnsIfAny(b, "rls")

-----------------------------------------------------------------------------
(* Precedence of two resynchronizations, or of an activity interrupt or    *)
(* discard, that cross.  TRUE is the code's OK: the local one stands.      *)
Rank == [ restart |-> 0, set |-> 1, abandon |-> 2, intr |-> 3, disc |-> 4 ]

\* Mutants: of two equal requests each side keeps its own; or gives it up.
SDoCollideAux_keeps(init, localop, localssn, remoteop, remotessn) ==
    \/ Rank[localop] > Rank[remoteop]
    \/ localop = remoteop /\ (localop = "restart" => localssn <= remotessn)

SDoCollideAux_yields(init, localop, localssn, remoteop, remotessn) ==
    \/ Rank[localop] > Rank[remoteop]
    \/ localop = remoteop /\ localop = "restart" /\ localssn < remotessn

SDoCollideAux(init, localop, localssn, remoteop, remotessn) ==
    \/ Rank[localop] > Rank[remoteop]
    \/ /\ localop = remoteop
       /\ \/ localop \in {"disc", "intr"}
          \/ localop \in {"abandon", "set"} /\ init
          \/ localop = "restart" /\ localssn < remotessn
          \/ localop = "restart" /\ localssn = remotessn /\ init

=============================================================================
