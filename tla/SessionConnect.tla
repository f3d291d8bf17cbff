---------------------------- MODULE SessionConnect ----------------------------
(***************************************************************************)
(* S-CONNECT: ssapinitiate.c and ssaprespond.c, from the call of           *)
(* SConnRequest (or SAsynConnRequest) until both blocks are in the state   *)
(* module Session starts from, or are freed.  The two ends negotiate the   *)
(* functional units, who owns each token, the first serial number and      *)
(* whether SPDUs may use the expedited flow.                               *)
(*                                                                         *)
(* An asynchronous initiator may give an address up and try the next one   *)
(* (SAsynNextRequest): the transport connection is replaced, the block is  *)
(* not.  The responder modelled is the one at the address being tried.     *)
(***************************************************************************)
EXTENDS Integers

CONSTANTS
    Offers,     \* sets of functional units the calling user may ask for
    Answers,    \* sets of functional units the called user may answer with
    MaxSerial,  \* stands for SERIAL_MAX + 1
    MaxRetries  \* addresses tried after the first, and failed answers

FunctionalUnit ==
    { "HALFDUPLEX", "DUPLEX", "EXPEDITED", "MINORSYNC", "MAJORSYNC", "RESYNC",
      "ACTIVITY", "NEGOTIATED", "CAPABILITY", "EXCEPTIONS", "TYPEDATA" }

ASSUME OffersAssumption  == Offers \subseteq SUBSET FunctionalUnit
ASSUME AnswersAssumption == Answers \subseteq SUBSET FunctionalUnit
ASSUME MaxSerialAssumption  == MaxSerial \in Nat
ASSUME MaxRetriesAssumption == MaxRetries \in Nat

VARIABLES
    ini,    \* the initiator's block, sb_flags and what it asked for
    rsp,    \* the responder's block
    cn,     \* the SPDUs on their way to the responder, at most one
    ac,     \* the SPDUs on their way to the initiator, at most one
    retries \* what MaxRetries bounds

connvars == <<ini, rsp, cn, ac, retries>>

Token == {"rls", "maj", "min", "dat"}

Available(req) ==
    { t \in Token :
        \/ t = "rls" /\ "NEGOTIATED" \in req
        \/ t = "maj" /\ ("MAJORSYNC" \in req \/ "ACTIVITY" \in req)
        \/ t = "min" /\ "MINORSYNC" \in req
        \/ t = "dat" /\ "HALFDUPLEX" \in req }

(* ST_xxx_VALUE: with "call" the called user chooses.  (ST_RSVD_VALUE in   *)
(* an answer only asks for a token that stays where it is.)                *)
Choice == {"init", "resp", "call"}
SERIAL_NONE == -1
Serial == SERIAL_NONE .. MaxSerial

(* state: "ts" waits for the transport, "cn" for the answer to CN; "asked" *)
(* is between S-CONNECT.INDICATION and S-CONNECT.RESPONSE.  number is the  *)
(* serial number the user gave, in the request or in the response.         *)
Block ==
    [ state : {"idle", "ts", "cn", "asked", "conn", "failed"},
      req : SUBSET FunctionalUnit, settings : [Token -> Choice],
      owned : SUBSET Token, V_M : Int, number : Int, expd : BOOLEAN,
      async : BOOLEAN ]

NewBlock ==
    [ state |-> "idle", req |-> {}, settings |-> [t \in Token |-> "init"],
      owned |-> {}, V_M |-> 0, number |-> SERIAL_NONE, expd |-> FALSE, async |-> FALSE ]

(* expd is not in the packet: it is whether the transport connection that  *)
(* carries it offers expedited data.                                       *)
Packet ==
    [ code : {"CN", "AC", "RF", "AB"}, req : SUBSET FunctionalUnit,
      settings : [Token -> Choice], isn : Int, expd : BOOLEAN ]

SPDU(code, req, settings, isn, expd) ==
    [code |-> code, req |-> req, settings |-> settings, isn |-> isn, expd |-> expd]

NoAnswer(code) == SPDU(code, {}, [t \in Token |-> "init"], SERIAL_NONE, FALSE)

ConnTypeOK ==
    /\ ini \in Block /\ rsp \in Block
    /\ cn \in SUBSET Packet /\ ac \in SUBSET Packet
    /\ retries \in 0..MaxRetries

ConnInit ==
    /\ ini = NewBlock /\ rsp = NewBlock
    /\ cn = {} /\ ac = {}
    /\ retries = 0

-----------------------------------------------------------------------------
(* What both ends check.                                                   *)

SyncUnits == {"MINORSYNC", "MAJORSYNC", "RESYNC"}

(* The serial number goes with the units that use it.  Within activities   *)
(* it may be left out: an activity starts its own count.                   *)
NumberFits(req, isn) ==
    IF req \cap SyncUnits # {}
    THEN isn # SERIAL_NONE \/ "ACTIVITY" \in req
    ELSE isn = SERIAL_NONE

Exceptions(req) == "EXCEPTIONS" \in req => "HALFDUPLEX" \in req
Capability(req) == "CAPABILITY" \in req => "ACTIVITY" \in req
Duplex(req)     == {"HALFDUPLEX", "DUPLEX"} \cap req # {}
OneDuplex(req)  == ("HALFDUPLEX" \in req) # ("DUPLEX" \in req)

-----------------------------------------------------------------------------
(* The initiator.                                                          *)

(* SConnRequest, and SAsynConnRequest: the checks, then the block is made  *)
(* and the transport is asked for a connection.                            *)
SConnRequest ==
    /\ ini.state = "idle"
    /\ \E req \in Offers, isn \in Serial, async \in BOOLEAN :
       \E chosen \in [Available(req) -> Choice] :
        /\ Exceptions(req)
        /\ NumberFits(req, isn)
        /\ ini' = [ini EXCEPT !.state = "ts", !.req = req,
                    !.settings = [t \in Token |->
                        IF t \in Available(req) THEN chosen[t] ELSE "init"],
                              !.number = isn, !.async = async]
    /\ UNCHANGED <<rsp, cn, ac, retries>>

(* SAsynRetryAux1: T-CONNECT is confirmed; whether expedited data can be   *)
(* sent is known and CN goes out.                                          *)
TConnected ==
    /\ ini.state = "ts"
    /\ \E expd \in BOOLEAN :
        /\ ini' = [ini EXCEPT !.state = "cn", !.expd = @ \/ expd,
                              !.req = IF expd THEN @ ELSE @ \ {"EXPEDITED"}]
        /\ cn' = {SPDU("CN", ini'.req, ini.settings, ini.number, expd)}
    /\ UNCHANGED <<rsp, ac, retries>>

Fails == ini' = [NewBlock EXCEPT !.state = "failed"]

(* The transport has no (further) connection to give.                      *)
TFailed ==
    /\ ini.state = "ts"
    /\ Fails
    /\ UNCHANGED <<rsp, cn, ac, retries>>

\* Mutant: the addresses are not counted.
SAsynNextRequest_again ==
    /\ ini.state \in {"ts", "cn"} /\ ini.async
    /\ retries' = retries + 1
    /\ ini' = [ini EXCEPT !.state = "ts"]
    /\ rsp' = NewBlock /\ cn' = {} /\ ac' = {}

(* SAsynNextRequest: the attempt is given up, with all it had sent.        *)
SAsynNextRequest ==
    /\ ini.state \in {"ts", "cn"} /\ ini.async
    /\ retries < MaxRetries
    /\ retries' = retries + 1
    /\ ini' = [ini EXCEPT !.state = "ts"]
    /\ rsp' = NewBlock /\ cn' = {} /\ ac' = {}

\* Mutant: a token the called user could choose an owner for stays here.
OwnedByInitiator_all(m, req) ==
    { t \in Available(req) : ini.settings[t] # "resp" }

(* The macro dotokens of SAsynRetryAux2: what we own.                      *)
OwnedByInitiator(m, req) ==
    { t \in Available(req) :
        \/ ini.settings[t] = "init"
        \/ ini.settings[t] = "call" /\ m.settings[t] # "resp" }

\* Mutant: the units are not checked once more when they are answered.
Acceptable_subset(m) == m.req \subseteq ini.req

Acceptable(m) ==
    /\ m.req \subseteq ini.req
    /\ OneDuplex(m.req) /\ Exceptions(m.req) /\ Capability(m.req)

\* Mutant: only an acceptance is an answer.
Answered_AC ==
    /\ ini.state = "cn"
    /\ \E m \in ac :
        /\ m.code = "AC" /\ Acceptable(m)
        /\ ac' = {}
        /\ ini' = [ini EXCEPT !.state = "conn", !.req = m.req,
                      !.owned = OwnedByInitiator(m, m.req), !.V_M = m.isn]
    /\ UNCHANGED <<rsp, cn, retries>>

(* SAsynRetryAux2: the answer is read.                                     *)
Answered ==
    /\ ini.state = "cn"
    /\ \E m \in ac :
        /\ ac' = {}
        /\ \/ /\ m.code = "AC" /\ Acceptable(m)
              /\ ini' = [ini EXCEPT !.state = "conn", !.req = m.req,
                            !.owned = OwnedByInitiator(m, m.req),
                            !.V_M = IF m.isn # SERIAL_NONE THEN m.isn ELSE @]
              /\ UNCHANGED cn
           \/ /\ m.code = "AC" /\ ~Acceptable(m)
              /\ Fails
              /\ cn' = {NoAnswer("AB")}
           \/ m.code # "AC" /\ Fails /\ UNCHANGED cn
    /\ UNCHANGED <<rsp, retries>>

(* The time the user allows is over: no answer, and the transport          *)
(* connection goes.  Only an asynchronous request has a time limit.        *)
TimedOut ==
    /\ ini.state = "cn" /\ ini.async
    /\ ac = {}
    /\ Fails
    /\ UNCHANGED <<rsp, cn, ac, retries>>

-----------------------------------------------------------------------------
(* The responder.                                                          *)

\* Mutant: the number is left for the response to settle.
Proposed_later(m) == rsp.V_M

Proposed(m) == IF m.isn # SERIAL_NONE THEN m.isn ELSE rsp.V_M

(* SInit: CN is read and indicated, or answered with AB.                   *)
SInit ==
    /\ rsp.state = "idle"
    /\ \E m \in cn :
        /\ m.code = "CN"
        /\ cn' = {}
        /\ IF Exceptions(m.req) /\ Capability(m.req) /\ Duplex(m.req)
              /\ NumberFits(m.req, m.isn)
           THEN /\ rsp' = [rsp EXCEPT !.state = "asked", !.expd = m.expd,
                               !.V_M = Proposed(m),
                               !.settings = m.settings,
                               !.req = IF m.expd THEN m.req ELSE m.req \ {"EXPEDITED"}]
                /\ UNCHANGED ac
           ELSE /\ rsp' = [NewBlock EXCEPT !.state = "failed"]
                /\ ac' = {NoAnswer("AB")}
    /\ UNCHANGED <<ini, retries>>

(* The macro dotokens of SConnResponse: the tokens whose owner the called  *)
(* user must name, and the settings the answer carries.                    *)
Open(req) == {t \in Available(req) : rsp.settings[t] = "call"}

\* Mutant: a token whose owner the caller named goes to the initiator.
Settled_answer(req, chosen) ==
    [t \in Token |-> IF t \in Open(req) THEN chosen[t] ELSE "init"]

Settled(req, chosen) ==
    [t \in Token |-> IF t \in Open(req) THEN chosen[t] ELSE rsp.settings[t]]

(* What the called user may answer without being told it is wrong at once. *)
MayAnswer(req) ==
    /\ ~({"HALFDUPLEX", "DUPLEX"} \subseteq req)
    /\ Exceptions(req)

(* S-CONNECT.RESPONSE (accept).  What is written to an initiator that gave *)
(* up is lost.                                                             *)
SConnResponse ==
    /\ rsp.state = "asked"
    /\ \E answer \in Answers, isn \in Serial :
       LET req == rsp.req \cap answer IN
       \E chosen \in [Open(req) -> {"init", "resp"}] :
        /\ MayAnswer(answer)
        /\ NumberFits(req, isn)
        /\ rsp' = [rsp EXCEPT !.state = "conn", !.req = req, !.number = isn,
                     !.owned = {t \in Available(req) : Settled(req, chosen)[t] = "resp"}]
        /\ ac' = IF ini.state = "cn"
                 THEN {SPDU("AC", req, Settled(req, chosen), isn, rsp.expd)} ELSE ac
    /\ UNCHANGED <<ini, cn, retries>>

(* The answer is wrong in a token setting or in the serial number: the     *)
(* user may try again, but the units have been narrowed down already.      *)
SConnResponse_error ==
    /\ rsp.state = "asked"
    /\ retries < MaxRetries
    /\ \E answer \in Answers :
        /\ MayAnswer(answer)
        /\ LET req == rsp.req \cap answer IN
            /\ Open(req) # {} \/ \E isn \in Serial : ~NumberFits(req, isn)
            /\ rsp' = [rsp EXCEPT !.req = req]
    /\ retries' = retries + 1
    /\ UNCHANGED <<ini, cn, ac>>

(* S-CONNECT.RESPONSE (refuse).                                            *)
Refused ==
    /\ rsp.state = "asked"
    /\ rsp' = [NewBlock EXCEPT !.state = "failed"]
    /\ ac' = IF ini.state = "cn" THEN {NoAnswer("RF")} ELSE ac
    /\ UNCHANGED <<ini, cn, retries>>

\* Mutant: who has accepted does not look back.
Lost_asked ==
    /\ rsp.state = "asked"
    /\ ini.state = "failed"
    /\ rsp' = [NewBlock EXCEPT !.state = "failed"]
    /\ cn' = {}
    /\ UNCHANGED <<ini, ac, retries>>

(* The responder finds that the initiator is not there any more: an abort, *)
(* a disconnect, or an answer that cannot be written.                      *)
Lost ==
    /\ rsp.state \in {"asked", "conn"}
    /\ ini.state = "failed"
    /\ rsp' = [NewBlock EXCEPT !.state = "failed"]
    /\ cn' = {}
    /\ UNCHANGED <<ini, ac, retries>>

-----------------------------------------------------------------------------
Initiator == \/ SConnRequest \/ TConnected \/ TFailed \/ SAsynNextRequest
             \/ Answered \/ TimedOut
Responder == SInit \/ SConnResponse \/ SConnResponse_error \/ Refused \/ Lost

ConnNext == Initiator \/ Responder

ConnSpec == ConnInit /\ [][ConnNext]_connvars

(* The transport answers, what arrives is read, and the called user makes  *)
(* a correct response sooner or later.                                     *)
FairConnSpec ==
    /\ ConnSpec
    /\ WF_connvars(TConnected \/ TFailed)
    /\ WF_connvars(Answered)
    /\ WF_connvars(SInit)
    /\ WF_connvars(SConnResponse \/ Refused)
    /\ WF_connvars(Lost)

-----------------------------------------------------------------------------
(* What it establishes.                                                    *)

Established == ini.state = "conn" /\ rsp.state = "conn"

(* Both ends have the same functional units, in a combination the session  *)
(* protocol machines are written for, each token has exactly one owner,    *)
(* and an end that may send expedited data has a transport for it.         *)
UnitsAgreed ==
    Established =>
        /\ ini.req = rsp.req
        /\ OneDuplex(ini.req) /\ Exceptions(ini.req) /\ Capability(ini.req)
        /\ "EXPEDITED" \in ini.req => ini.expd /\ rsp.expd

TokensAgreed ==
    Established =>
        /\ ini.owned \cap rsp.owned = {}
        /\ ini.owned \cup rsp.owned = Available(ini.req)

(* Both ends count synchronization points from the same number when the    *)
(* called user answers with the number it was offered.                     *)
NumbersAgreed ==
    Established /\ rsp.number = ini.number => ini.V_M = rsp.V_M

(* What the above rests on: an answer that is on its way agrees with both  *)
(* ends, and a CN with the block it was made from.                         *)
OfferAgrees(b, settings, req, expd) ==
    /\ settings = b.settings
    /\ expd => b.expd
    /\ "EXPEDITED" \in req => expd

AnswerAgrees(m) ==
    /\ rsp.state = "conn"
    /\ m.req = rsp.req /\ m.isn = rsp.number
    /\ "EXPEDITED" \in m.req => ini.expd /\ rsp.expd
    /\ rsp.owned = {t \in Available(m.req) : m.settings[t] = "resp"}
    /\ \A t \in Available(m.req) :
         /\ m.settings[t] # "call"
         /\ ini.settings[t] # "call" => m.settings[t] = ini.settings[t]

FirstNumber == IF ini.number # SERIAL_NONE THEN ini.number ELSE 0

ConnInv ==
    /\ ConnTypeOK
    /\ UnitsAgreed /\ TokensAgreed /\ NumbersAgreed
    /\ ini.state \in {"idle", "ts"} => rsp = NewBlock /\ cn = {} /\ ac = {}
    /\ ini.state # "asked"
    /\ ini.state = "conn" => rsp.state = "conn"
    /\ ini.state \in {"idle", "ts", "cn"} => ini.V_M = 0
    /\ ini.state = "cn" =>
        /\ rsp.state = "idle" => rsp.V_M = 0
        /\ rsp.state \in {"asked", "conn"} => rsp.V_M = FirstNumber
        /\ rsp.state = "asked" => OfferAgrees(ini, rsp.settings, rsp.req, rsp.expd)
        /\ \A m \in cn : m.code = "CN" =>
               m.isn = ini.number /\ OfferAgrees(ini, m.settings, m.req, m.expd)
        /\ \A m \in ac : m.code = "AC" => AnswerAgrees(m)

-----------------------------------------------------------------------------
(* The service this is: see ConnectService.  Terms are the functional      *)
(* units, and the tokens the called user owns.                             *)
NoTerms == "none"
ServiceTerms == [req : SUBSET FunctionalUnit, called : SUBSET Token]
CallingState ==
    CASE ini.state = "idle" -> "none" [] ini.state \in {"ts", "cn"} -> "waiting"
      [] ini.state = "conn" -> "connected" [] OTHER -> "failed"
CalledState ==
    CASE rsp.state = "idle" -> "none" [] rsp.state = "asked" -> "asked"
      [] rsp.state = "conn" -> "connected" [] OTHER -> "failed"
AcceptedTerms ==
    IF rsp.state = "conn" THEN [req |-> rsp.req, called |-> rsp.owned] ELSE NoTerms
ConfirmedTerms ==
    IF ini.state = "conn"
    THEN [req |-> ini.req, called |-> Available(ini.req) \ ini.owned] ELSE NoTerms

Service == INSTANCE ConnectService
    WITH Terms <- ServiceTerms, calling <- CallingState, called <- CalledState,
         accepted <- AcceptedTerms, confirmed <- ConfirmedTerms

(* S-CONNECT, with its SPDUs, its retries and its time limit, implements   *)
(* the service of ConnectService: the two users are connected on the same  *)
(* terms, those the called user accepted at the address being tried.       *)
ServiceKept == Service!ServSpec

(* A call ends: connected, refused, or failed.                             *)
CallEnds == (ini.state \in {"ts", "cn"}) ~> (ini.state \in {"conn", "failed"})

(* The called side does not stay connected to nobody.                      *)
NoHalfConnect ==
    (rsp.state = "conn") ~> (rsp.state # "conn" \/ ini.state = "conn")

=============================================================================
