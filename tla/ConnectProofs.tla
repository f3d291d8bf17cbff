---------------------------- MODULE ConnectProofs ----------------------------
(***************************************************************************)
(* Theorems about SessionConnect, whatever the two users may ask for,      *)
(* answer and try again.                                                   *)
(***************************************************************************)
EXTENDS SessionConnect, TLAPS

(* A new block is a block, and an SPDU is built from its parts.            *)
LEMMA NewBlockTyped == NewBlock \in Block
BY DEF NewBlock, Block, Choice, SERIAL_NONE

LEMMA PacketTyped ==
    \A c \in {"CN", "AC", "RF", "AB"}, req \in SUBSET FunctionalUnit,
       settings \in [Token -> Choice], isn \in Int, expd \in BOOLEAN :
        SPDU(c, req, settings, isn, expd) \in Packet
BY DEF SPDU, Packet

LEMMA NoAnswerTyped == \A c \in {"CN", "AC", "RF", "AB"} :
                           NoAnswer(c) \in Packet /\ NoAnswer(c).code = c
BY DEF NoAnswer, SPDU, Packet, Choice, SERIAL_NONE

LEMMA SerialIsInt == Serial \subseteq Int
BY MaxSerialAssumption DEF Serial, SERIAL_NONE

(* The initial state.                                                      *)
LEMMA ConnInvInit == ConnInit => ConnInv
<1> SUFFICES ASSUME ConnInit PROVE ConnInv
  OBVIOUS
<1>1. ConnTypeOK
  BY NewBlockTyped, MaxRetriesAssumption DEF ConnInit, ConnTypeOK
<1> QED
  BY <1>1 DEF ConnInit, ConnInv, NewBlock, UnitsAgreed, TokensAgreed, NumbersAgreed, Established

(* The initiator's steps.                                                  *)
LEMMA SConnRequestKeeps == ConnInv /\ SConnRequest => ConnInv'
<1> SUFFICES ASSUME ConnInv, SConnRequest PROVE ConnInv'
  OBVIOUS
<1> DEFINE Asked(req, isn, async, chosen) ==
        [ini EXCEPT !.state = "ts", !.req = req,
            !.settings = [t \in Token |->
                IF t \in Available(req) THEN chosen[t] ELSE "init"],
            !.number = isn, !.async = async]
<1>1. PICK req \in Offers, isn \in Serial, async \in BOOLEAN :
        \E chosen \in [Available(req) -> Choice] :
            /\ Exceptions(req)
            /\ NumberFits(req, isn)
            /\ ini' = Asked(req, isn, async, chosen)
  BY Zenon DEF SConnRequest
<1>2. PICK chosen \in [Available(req) -> Choice] : ini' = Asked(req, isn, async, chosen)
  BY <1>1
<1>3. [t \in Token |-> IF t \in Available(req) THEN chosen[t] ELSE "init"] \in [Token -> Choice]
  BY DEF Choice
<1>4. ini' \in Block
  BY <1>2, <1>3, OffersAssumption, SerialIsInt DEF Block, ConnInv, ConnTypeOK
<1>5. ini.state = "idle" /\ UNCHANGED <<rsp, cn, ac, retries>> /\ ini'.state = "ts"
      /\ ini'.V_M = ini.V_M
  BY <1>2 DEF SConnRequest, ConnInv, ConnTypeOK, Block
<1> QED
  BY <1>4, <1>5 DEF ConnInv, ConnTypeOK, UnitsAgreed, TokensAgreed, NumbersAgreed, Established

LEMMA TConnectedKeeps == ConnInv /\ TConnected => ConnInv'
<1> SUFFICES ASSUME ConnInv, TConnected PROVE ConnInv'
  OBVIOUS
<1>1. PICK expd \in BOOLEAN :
        /\ ini' = [ini EXCEPT !.state = "cn", !.expd = @ \/ expd,
                              !.req = IF expd THEN @ ELSE @ \ {"EXPEDITED"}]
        /\ cn' = {SPDU("CN", ini'.req, ini.settings, ini.number, expd)}
  BY DEF TConnected
<1>2. ini.state = "ts" /\ rsp = NewBlock /\ ac = {} /\ UNCHANGED <<rsp, ac, retries>>
  BY DEF TConnected, ConnInv
<1>3. /\ ini' \in Block /\ ini'.state = "cn" /\ ini'.V_M = 0
      /\ ini'.settings = ini.settings /\ ini'.number = ini.number
      /\ expd => ini'.expd
      /\ "EXPEDITED" \in ini'.req => expd
  BY <1>1, <1>2 DEF ConnInv, ConnTypeOK, Block
<1>4. cn' \subseteq Packet
  <2>1. SPDU("CN", ini'.req, ini.settings, ini.number, expd) \in Packet
    BY <1>3, PacketTyped DEF Block
  <2> QED BY <1>1, <2>1
<1>5. \A m \in cn' : m.code = "CN" =>
          m.isn = ini'.number /\ OfferAgrees(ini', m.settings, m.req, m.expd)
  BY <1>1, <1>3 DEF SPDU, OfferAgrees
<1> QED
  BY <1>2, <1>3, <1>4, <1>5 DEF ConnInv, ConnTypeOK, UnitsAgreed, TokensAgreed,
     NumbersAgreed, Established, NewBlock

(* The block is given up.                                                  *)
LEMMA FailsKeeps ==
    ASSUME ConnInv, Fails, cn' \subseteq Packet, ac' \subseteq Packet,
           UNCHANGED <<rsp, retries>>
    PROVE  ConnInv'
<1>1. ini' \in Block /\ ini'.state = "failed"
  BY NewBlockTyped DEF Fails, NewBlock, Block
<1> QED
  BY <1>1 DEF ConnInv, ConnTypeOK, UnitsAgreed, TokensAgreed, NumbersAgreed, Established

LEMMA NextKeeps == ConnInv /\ SAsynNextRequest => ConnInv'
<1> SUFFICES ASSUME ConnInv, SAsynNextRequest PROVE ConnInv'
  OBVIOUS
<1>1. ini' \in Block /\ ini'.state = "ts" /\ ini'.V_M = 0
  BY DEF ConnInv, ConnTypeOK, Block, SAsynNextRequest
<1>2. retries' \in 0..MaxRetries
  BY MaxRetriesAssumption DEF ConnInv, ConnTypeOK, SAsynNextRequest
<1> QED
  BY <1>1, <1>2, NewBlockTyped DEF ConnInv, ConnTypeOK, UnitsAgreed, TokensAgreed,
     NumbersAgreed, Established, SAsynNextRequest

(* The answer that makes the connection: this is where what was agreed on  *)
(* holds for the first time.                                               *)
LEMMA AcceptedKeeps ==
    ASSUME ConnInv, ini.state = "cn", NEW m \in ac, m.code = "AC", Acceptable(m),
           ac' = {}, UNCHANGED <<rsp, cn, retries>>,
           ini' = [ini EXCEPT !.state = "conn", !.req = m.req,
                      !.owned = OwnedByInitiator(m, m.req),
                      !.V_M = IF m.isn # SERIAL_NONE THEN m.isn ELSE @]
    PROVE  ConnInv'
<1>1. AnswerAgrees(m) /\ m \in Packet /\ ini \in Block /\ ini.V_M = 0
  BY DEF ConnInv, ConnTypeOK
<1>2. /\ ini'.state = "conn" /\ ini'.req = m.req /\ ini'.expd = ini.expd
      /\ ini'.owned = OwnedByInitiator(m, m.req) /\ ini'.number = ini.number
      /\ ini'.V_M = IF m.isn # SERIAL_NONE THEN m.isn ELSE 0
      /\ ini'.settings = ini.settings
  BY <1>1 DEF Block
<1>3. ini' \in Block
  <2>1. OwnedByInitiator(m, m.req) \subseteq Token
    BY DEF OwnedByInitiator, Available
  <2> QED BY <1>1, <2>1 DEF Block, Packet
<1>4. UnitsAgreed'
  BY <1>1, <1>2 DEF UnitsAgreed, AnswerAgrees, Acceptable, Established
<1>5. TokensAgreed'
  <2>1. \A t \in Available(m.req) : m.settings[t] \in {"init", "resp"}
    BY <1>1 DEF AnswerAgrees, Packet, Available, Choice
  <2>2. \A t \in Available(m.req) :
          t \in OwnedByInitiator(m, m.req) <=> m.settings[t] = "init"
    BY <1>1, <2>1 DEF AnswerAgrees, OwnedByInitiator, Available, Block, Choice
  <2>3. OwnedByInitiator(m, m.req) \subseteq Available(m.req)
    BY DEF OwnedByInitiator
  <2> QED BY <1>1, <1>2, <2>1, <2>2, <2>3 DEF TokensAgreed, AnswerAgrees, Established
<1>6. NumbersAgreed'
  BY <1>1, <1>2 DEF NumbersAgreed, AnswerAgrees, Established, ConnInv, FirstNumber
<1> QED
  BY <1>1, <1>2, <1>3, <1>4, <1>5, <1>6 DEF ConnInv, ConnTypeOK, AnswerAgrees

LEMMA AnsweredKeeps == ConnInv /\ Answered => ConnInv'
<1> SUFFICES ASSUME ConnInv, Answered PROVE ConnInv'
  OBVIOUS
<1>1. PICK m \in ac :
        /\ ac' = {}
        /\ \/ /\ m.code = "AC" /\ Acceptable(m)
              /\ ini' = [ini EXCEPT !.state = "conn", !.req = m.req,
                            !.owned = OwnedByInitiator(m, m.req),
                            !.V_M = IF m.isn # SERIAL_NONE THEN m.isn ELSE @]
              /\ UNCHANGED cn
           \/ /\ m.code = "AC" /\ ~Acceptable(m)
              /\ Fails
              /\ cn' = {NoAnswer("AB")}
           \/ m.code # "AC" /\ Fails /\ UNCHANGED cn
  BY DEF Answered
<1>2. ini.state = "cn" /\ UNCHANGED <<rsp, retries>>
  BY DEF Answered
<1>3. CASE Fails
  <2>1. cn' \subseteq Packet \/ ~(cn' = {NoAnswer("AB")} \/ UNCHANGED cn)
    BY NoAnswerTyped DEF ConnInv, ConnTypeOK
  <2>2. cn' = {NoAnswer("AB")} \/ UNCHANGED cn
    BY <1>1
  <2> QED BY <1>1, <1>2, <1>3, <2>1, <2>2, FailsKeeps
<1>4. CASE ~Fails
  <2>1. /\ m.code = "AC" /\ Acceptable(m) /\ UNCHANGED cn
        /\ ini' = [ini EXCEPT !.state = "conn", !.req = m.req,
                      !.owned = OwnedByInitiator(m, m.req),
                      !.V_M = IF m.isn # SERIAL_NONE THEN m.isn ELSE @]
    BY <1>1, <1>4
  <2> QED BY <1>1, <1>2, <2>1, AcceptedKeeps
<1> QED BY <1>3, <1>4

(* The responder's steps: they only happen while the initiator waits for   *)
(* the answer, or has given up.                                            *)
LEMMA ResponderWhen ==
    ASSUME ConnInv, rsp.state = "asked" \/ (rsp.state = "idle" /\ cn # {})
    PROVE  ini.state \in {"cn", "failed"}
BY DEF ConnInv, ConnTypeOK, Block, NewBlock

(* The responder gives up, or never took the connection.                   *)
LEMMA DeclinesKeeps ==
    ASSUME ConnInv, ini.state \in {"cn", "failed"}, UNCHANGED <<ini, retries>>,
           rsp' = [NewBlock EXCEPT !.state = "failed"],
           cn' \subseteq cn,
           \/ UNCHANGED ac /\ (ini.state = "failed" \/ rsp.state # "conn")
           \/ ac' = {NoAnswer("AB")} \/ ac' = {NoAnswer("RF")}
    PROVE  ConnInv'
<1>1. rsp' \in Block /\ rsp'.state = "failed"
  BY NewBlockTyped DEF NewBlock, Block
<1>2. ac' \subseteq Packet
  BY NoAnswerTyped DEF ConnInv, ConnTypeOK
<1>3. ASSUME ini.state = "cn", NEW m \in ac', m.code = "AC" PROVE FALSE
  BY <1>3, NoAnswerTyped DEF ConnInv, AnswerAgrees
<1> QED
  BY <1>1, <1>2, <1>3 DEF ConnInv, ConnTypeOK, UnitsAgreed, TokensAgreed, NumbersAgreed, Established, FirstNumber

LEMMA SInitKeeps == ConnInv /\ SInit => ConnInv'
<1> SUFFICES ASSUME ConnInv, SInit PROVE ConnInv'
  OBVIOUS
<1>1. PICK m \in cn :
        /\ m.code = "CN"
        /\ cn' = {}
        /\ IF Exceptions(m.req) /\ Capability(m.req) /\ Duplex(m.req)
              /\ NumberFits(m.req, m.isn)
           THEN /\ rsp' = [rsp EXCEPT !.state = "asked", !.expd = m.expd,
                               !.V_M = Proposed(m),
                               !.settings = m.settings,
                               !.req = IF m.expd THEN m.req ELSE m.req \ {"EXPEDITED"}]
                /\ UNCHANGED ac
           ELSE /\ rsp' = [NewBlock EXCEPT !.state = "failed"]
                /\ ac' = {NoAnswer("AB")}
  BY Zenon DEF SInit
<1>2. rsp.state = "idle" /\ UNCHANGED <<ini, retries>>
  BY DEF SInit
<1>3. ini.state \in {"cn", "failed"} /\ m \in Packet /\ rsp \in Block
  BY <1>1, <1>2, ResponderWhen DEF ConnInv, ConnTypeOK
<1>4. CASE rsp' = [NewBlock EXCEPT !.state = "failed"] /\ ac' = {NoAnswer("AB")}
  BY <1>1, <1>2, <1>3, <1>4, DeclinesKeeps
<1>5. CASE /\ rsp' = [rsp EXCEPT !.state = "asked", !.expd = m.expd,
                           !.V_M = Proposed(m), !.settings = m.settings,
                           !.req = IF m.expd THEN m.req ELSE m.req \ {"EXPEDITED"}]
           /\ UNCHANGED ac
  <2>1. /\ rsp' \in Block /\ rsp'.state = "asked" /\ rsp'.settings = m.settings
        /\ rsp'.expd = m.expd /\ rsp'.V_M = Proposed(m)
        /\ "EXPEDITED" \in rsp'.req => m.expd
    BY <1>3, <1>5 DEF Block, Packet, Proposed
  <2>2. ini.state = "cn" =>
          /\ OfferAgrees(ini, rsp'.settings, rsp'.req, rsp'.expd)
          /\ rsp'.V_M = FirstNumber
    BY <1>1, <1>2, <2>1 DEF ConnInv, OfferAgrees, Proposed, FirstNumber
  <2>3. ASSUME ini.state = "cn", NEW a \in ac', a.code = "AC" PROVE FALSE
    BY <1>2, <1>5, <2>3 DEF ConnInv, AnswerAgrees
  <2> QED
    BY <1>1, <1>2, <1>3, <1>5, <2>1, <2>2, <2>3 DEF ConnInv, ConnTypeOK, UnitsAgreed,
       TokensAgreed, NumbersAgreed, Established, FirstNumber
<1> QED BY <1>1, <1>4, <1>5

(* What is answered is narrower than what was asked, token by token.       *)
LEMMA SConnResponseKeeps == ConnInv /\ SConnResponse => ConnInv'
<1> SUFFICES ASSUME ConnInv, SConnResponse PROVE ConnInv'
  OBVIOUS
<1>1. PICK answer \in Answers, isn \in Serial :
       LET req == rsp.req \cap answer IN
       \E chosen \in [Open(req) -> {"init", "resp"}] :
        /\ MayAnswer(answer)
        /\ NumberFits(req, isn)
        /\ rsp' = [rsp EXCEPT !.state = "conn", !.req = req, !.number = isn,
                     !.owned = {t \in Available(req) : Settled(req, chosen)[t] = "resp"}]
        /\ ac' = IF ini.state = "cn"
                 THEN {SPDU("AC", req, Settled(req, chosen), isn, rsp.expd)} ELSE ac
  BY Zenon DEF SConnResponse
<1> DEFINE req == rsp.req \cap answer
<1>2. PICK chosen \in [Open(req) -> {"init", "resp"}] :
        /\ rsp' = [rsp EXCEPT !.state = "conn", !.req = req, !.number = isn,
                     !.owned = {t \in Available(req) : Settled(req, chosen)[t] = "resp"}]
        /\ ac' = IF ini.state = "cn"
                 THEN {SPDU("AC", req, Settled(req, chosen), isn, rsp.expd)} ELSE ac
  BY <1>1
<1>3. rsp.state = "asked" /\ UNCHANGED <<ini, cn, retries>> /\ ini.state \in {"cn", "failed"}
  BY ResponderWhen DEF SConnResponse
<1>4. /\ rsp \in Block /\ isn \in Int /\ req \subseteq FunctionalUnit
      /\ Settled(req, chosen) \in [Token -> Choice]
      /\ {t \in Available(req) : Settled(req, chosen)[t] = "resp"} \subseteq Token
  BY SerialIsInt DEF ConnInv, ConnTypeOK, Block, Settled, Choice, Available
<1> HIDE DEF req
<1>5. /\ rsp' \in Block /\ rsp'.state = "conn" /\ rsp'.req = req /\ rsp'.number = isn
      /\ rsp'.V_M = rsp.V_M /\ rsp'.expd = rsp.expd
      /\ rsp'.owned = {t \in Available(req) : Settled(req, chosen)[t] = "resp"}
  BY <1>2, <1>4 DEF Block
<1>6. \A t \in Available(req) :
        /\ Settled(req, chosen)[t] # "call"
        /\ rsp.settings[t] # "call" => Settled(req, chosen)[t] = rsp.settings[t]
  BY DEF Settled, Open, Available
<1>7. CASE ini.state = "cn"
  <2>0. PICK m \in Packet : m = SPDU("AC", req, Settled(req, chosen), isn, rsp.expd)
    BY <1>4, PacketTyped DEF Block
  <2>1. /\ m.req = req /\ m.isn = isn /\ m.settings = Settled(req, chosen)
    BY <2>0 DEF SPDU
  <2>2. "EXPEDITED" \in req => ini.expd /\ rsp.expd
    BY <1>3, <1>7 DEF ConnInv, OfferAgrees, req
  <2>3. rsp.settings = ini.settings
    BY <1>3, <1>7 DEF ConnInv, OfferAgrees
  <2>4. AnswerAgrees(m)'
    BY <1>3, <1>5, <1>6, <2>1, <2>2, <2>3 DEF AnswerAgrees
  <2>5. ac' = {m}
    BY <1>2, <1>7, <2>0
  <2> QED
    BY <1>3, <1>5, <1>7, <2>1, <2>4, <2>5 DEF ConnInv, ConnTypeOK, UnitsAgreed,
       TokensAgreed, NumbersAgreed, Established, FirstNumber
<1>8. CASE ini.state = "failed"
  BY <1>2, <1>3, <1>5, <1>8 DEF ConnInv, ConnTypeOK, UnitsAgreed, TokensAgreed,
     NumbersAgreed, Established
<1> QED BY <1>3, <1>7, <1>8

LEMMA ErrorKeeps == ConnInv /\ SConnResponse_error => ConnInv'
<1> SUFFICES ASSUME ConnInv, SConnResponse_error PROVE ConnInv'
  OBVIOUS
<1>1. PICK answer \in Answers : rsp' = [rsp EXCEPT !.req = rsp.req \cap answer]
  BY DEF SConnResponse_error
<1>2. /\ rsp.state = "asked" /\ UNCHANGED <<ini, cn, ac>> /\ rsp \in Block
      /\ ini.state \in {"cn", "failed"}
  BY ResponderWhen DEF SConnResponse_error, ConnInv, ConnTypeOK
<1>3. retries' \in 0..MaxRetries
  BY MaxRetriesAssumption DEF ConnInv, ConnTypeOK, SConnResponse_error
<1>4. /\ rsp' \in Block /\ rsp'.state = "asked" /\ rsp'.settings = rsp.settings
      /\ rsp'.expd = rsp.expd /\ rsp'.V_M = rsp.V_M /\ rsp'.req \subseteq rsp.req
  BY <1>1, <1>2 DEF Block
<1>5. ASSUME ini.state = "cn", NEW m \in ac, m.code = "AC" PROVE FALSE
  BY <1>2, <1>5 DEF ConnInv, AnswerAgrees
<1> QED
  BY <1>2, <1>3, <1>4, <1>5 DEF ConnInv, ConnTypeOK, UnitsAgreed, TokensAgreed,
     NumbersAgreed, Established, OfferAgrees, FirstNumber

(* Every step of either side.                                              *)
LEMMA ConnInvStep == ConnInv /\ [ConnNext]_connvars => ConnInv'
<1> SUFFICES ASSUME ConnInv, [ConnNext]_connvars PROVE ConnInv'
  OBVIOUS
<1>1. CASE UNCHANGED connvars
  BY <1>1 DEF connvars, ConnInv, ConnTypeOK, UnitsAgreed, TokensAgreed, NumbersAgreed,
     Established, FirstNumber, AnswerAgrees
<1>2. CASE TFailed \/ TimedOut
  BY <1>2, FailsKeeps DEF TFailed, TimedOut, ConnInv, ConnTypeOK
<1>3. CASE Refused
  BY <1>3, DeclinesKeeps, ResponderWhen DEF Refused
<1>4. CASE Lost
  BY <1>4, DeclinesKeeps DEF Lost
<1> QED
  BY <1>1, <1>2, <1>3, <1>4, SConnRequestKeeps, TConnectedKeeps, NextKeeps, AnsweredKeeps,
     SInitKeeps, SConnResponseKeeps, ErrorKeeps DEF ConnNext, Initiator, Responder

-----------------------------------------------------------------------------
(* Both blocks keep their types whatever is asked and answered.            *)
THEOREM ConnTyping == ConnSpec => []ConnTypeOK
<1>1. ConnInv => ConnTypeOK
  BY DEF ConnInv
<1> QED BY <1>1, ConnInvInit, ConnInvStep, PTL DEF ConnSpec

(* Two connected ends have the same functional units, in a combination     *)
(* their protocol machines allow.                                          *)
THEOREM UnitsAlwaysAgreed == ConnSpec => []UnitsAgreed
<1>1. ConnInv => UnitsAgreed
  BY DEF ConnInv
<1> QED BY <1>1, ConnInvInit, ConnInvStep, PTL DEF ConnSpec

(* Each token that was negotiated has exactly one owner: what module       *)
(* Session assumes of its initial state.                                   *)
THEOREM TokensAlwaysAgreed == ConnSpec => []TokensAgreed
<1>1. ConnInv => TokensAgreed
  BY DEF ConnInv
<1> QED BY <1>1, ConnInvInit, ConnInvStep, PTL DEF ConnSpec

(* A called user that keeps the number it was offered makes both ends      *)
(* count from it.                                                          *)
THEOREM NumbersAlwaysAgreed == ConnSpec => []NumbersAgreed
<1>1. ConnInv => NumbersAgreed
  BY DEF ConnInv
<1> QED BY <1>1, ConnInvInit, ConnInvStep, PTL DEF ConnSpec

-----------------------------------------------------------------------------
(* The service: initial states map to its initial state, and every step to *)
(* a step of it or to none.                                                *)
LEMMA ServiceInit == ConnInit => Service!ServInit
BY DEF ConnInit, NewBlock, Service!ServInit, CallingState, CalledState, AcceptedTerms, ConfirmedTerms

(* What a user has seen of a block depends on these fields only.           *)
LEMMA CallingKept ==
    ASSUME UNCHANGED ini PROVE UNCHANGED <<CallingState, ConfirmedTerms>>
BY DEF CallingState, ConfirmedTerms

LEMMA CalledKept ==
    ASSUME UNCHANGED rsp PROVE UNCHANGED <<CalledState, AcceptedTerms>>
BY DEF CalledState, AcceptedTerms

(* Steps of the initiator.                                                 *)
LEMMA RequestServes ==
    ConnInv /\ (SConnRequest \/ TConnected) => [Service!ServNext]_Service!servvars
<1> SUFFICES ASSUME ConnInv, SConnRequest \/ TConnected
             PROVE  [Service!ServNext]_Service!servvars
  OBVIOUS
<1>1. ini \in Block /\ UNCHANGED rsp
  BY DEF ConnInv, ConnTypeOK, SConnRequest, TConnected
<1>2. CASE SConnRequest
  <2>1. ini.state = "idle" /\ ini'.state = "ts"
    BY <1>1, <1>2 DEF SConnRequest, Block
  <2> QED
    BY <1>1, <2>1, CalledKept DEF CallingState, ConfirmedTerms, Service!ServNext, Service!Request
<1>3. CASE TConnected
  <2>1. ini.state = "ts" /\ ini'.state = "cn"
    BY <1>1, <1>3 DEF TConnected, Block
  <2> QED
    BY <1>1, <2>1, CalledKept DEF CallingState, ConfirmedTerms, Service!servvars
<1> QED BY <1>2, <1>3

LEMMA FailsServes ==
    ASSUME ConnInv, Fails, ini.state \in {"ts", "cn"}, UNCHANGED rsp
    PROVE  Service!GiveUp
<1>1. ini'.state = "failed"
  BY DEF Fails, NewBlock
<1> QED
  BY <1>1, CalledKept DEF CallingState, ConfirmedTerms, Service!GiveUp

LEMMA NextServes == ConnInv /\ SAsynNextRequest => Service!TryNext
<1> SUFFICES ASSUME ConnInv, SAsynNextRequest PROVE Service!TryNext
  OBVIOUS
<1>1. /\ ini.state \in {"ts", "cn"} /\ ini'.state = "ts"
      /\ rsp'.state = "idle"
  BY DEF ConnInv, ConnTypeOK, Block, SAsynNextRequest, NewBlock
<1> QED
  BY <1>1 DEF CallingState, ConfirmedTerms, CalledState, AcceptedTerms, Service!TryNext

(* The answer is read: what the two ends hold is the same.                 *)
LEMMA AnsweredServes == ConnInv /\ ConnInv' /\ Answered => Service!Confirm \/ Service!GiveUp
<1> SUFFICES ASSUME ConnInv, ConnInv', Answered PROVE Service!Confirm \/ Service!GiveUp
  OBVIOUS
<1>1. ini.state = "cn" /\ UNCHANGED rsp /\ ini \in Block
  BY DEF Answered, ConnInv, ConnTypeOK
<1>2. CASE Fails
  BY <1>1, <1>2, FailsServes
<1>3. CASE ~Fails
  <2>1. ini'.state = "conn"
    BY <1>1, <1>3 DEF Answered, Block
  <2>2. rsp.state = "conn" /\ rsp'.state = "conn"
    BY <1>1, <2>1 DEF ConnInv
  <2>3. ini'.req = rsp'.req /\ Available(ini'.req) \ ini'.owned = rsp'.owned
    BY <2>1, <2>2 DEF ConnInv, UnitsAgreed, TokensAgreed, Established
  <2>4. ConfirmedTerms' = AcceptedTerms'
    BY <2>1, <2>2, <2>3 DEF ConfirmedTerms, AcceptedTerms
  <2> QED
    BY <1>1, <2>1, <2>2, <2>4, CalledKept DEF CallingState, CalledState, Service!Confirm
<1> QED BY <1>2, <1>3

(* Steps of the responder.                                                 *)
LEMMA SInitServes == ConnInv /\ SInit => Service!Indicate
<1> SUFFICES ASSUME ConnInv, SInit PROVE Service!Indicate
  OBVIOUS
<1>1. /\ rsp.state = "idle" /\ rsp \in Block /\ UNCHANGED ini
      /\ ini.state \in {"cn", "failed"}
  BY ResponderWhen DEF SInit, ConnInv, ConnTypeOK
<1>2. rsp'.state \in {"asked", "failed"}
  BY <1>1 DEF SInit, Block, NewBlock
<1> QED
  BY <1>1, <1>2, CallingKept DEF CallingState, CalledState, AcceptedTerms, Service!Indicate

LEMMA AcceptServes == ConnInv /\ ConnInv' /\ SConnResponse => Service!Accept
<1> SUFFICES ASSUME ConnInv, ConnInv', SConnResponse PROVE Service!Accept
  OBVIOUS
<1>1. rsp.state = "asked" /\ rsp \in Block /\ UNCHANGED ini /\ rsp' \in Block
  BY DEF SConnResponse, ConnInv, ConnTypeOK
<1>2. rsp'.state = "conn"
  BY <1>1 DEF SConnResponse, Block
<1>3. AcceptedTerms' \in ServiceTerms
  BY <1>1, <1>2 DEF AcceptedTerms, ServiceTerms, Block
<1> QED
  BY <1>1, <1>2, <1>3, CallingKept DEF CalledState, Service!Accept

LEMMA DeclineServes ==
    ConnInv /\ (SConnResponse_error \/ Refused \/ Lost) => [Service!ServNext]_Service!servvars
<1> SUFFICES ASSUME ConnInv, SConnResponse_error \/ Refused \/ Lost
             PROVE  [Service!ServNext]_Service!servvars
  OBVIOUS
<1>1. rsp \in Block /\ UNCHANGED ini
  BY DEF ConnInv, ConnTypeOK, SConnResponse_error, Refused, Lost
<1>2. CASE SConnResponse_error
  <2>1. rsp.state = "asked" /\ rsp'.state = "asked"
    BY <1>1, <1>2 DEF SConnResponse_error, Block
  <2> QED
    BY <1>1, <2>1, CallingKept DEF CalledState, AcceptedTerms, Service!servvars
<1>3. CASE Refused \/ Lost
  <2>1. /\ rsp'.state = "failed"
        /\ rsp.state = "asked" \/ (rsp.state = "conn" /\ ini.state = "failed")
    BY <1>3 DEF Refused, Lost, NewBlock
  <2>2. Service!Refuse \/ Service!LoseCalled
    BY <1>1, <2>1, CallingKept DEF CallingState, CalledState, AcceptedTerms,
       Service!Refuse, Service!LoseCalled
  <2> QED BY <2>2 DEF Service!ServNext
<1> QED BY <1>2, <1>3

LEMMA ServiceStep ==
    ConnInv /\ ConnInv' /\ [ConnNext]_connvars => [Service!ServNext]_Service!servvars
<1> SUFFICES ASSUME ConnInv, ConnInv', [ConnNext]_connvars
             PROVE  [Service!ServNext]_Service!servvars
  OBVIOUS
<1>1. CASE UNCHANGED connvars
  BY <1>1, CallingKept, CalledKept DEF connvars, Service!servvars
<1>2. CASE TFailed \/ TimedOut
  BY <1>2, FailsServes DEF TFailed, TimedOut, Service!ServNext
<1>3. CASE SAsynNextRequest \/ Answered \/ SInit \/ SConnResponse
  BY <1>3, NextServes, AnsweredServes, SInitServes, AcceptServes DEF Service!ServNext
<1> QED
  BY <1>1, <1>2, <1>3, RequestServes, DeclineServes DEF ConnNext, Initiator, Responder

(* S-CONNECT implements its service: both users are connected on the terms *)
(* the called user accepted, at the address being tried and no other, and  *)
(* the called user does not lose a connection the calling user has.        *)
THEOREM ServiceAlwaysKept == ConnSpec => ServiceKept
<1>1. ConnSpec => []ConnInv
  BY ConnInvInit, ConnInvStep, PTL DEF ConnSpec
<1>2. []ConnInv /\ [][ConnNext]_connvars => [][Service!ServNext]_Service!servvars
  BY ServiceStep, PTL
<1> QED BY <1>1, <1>2, ServiceInit, PTL DEF ConnSpec, ServiceKept, Service!ServSpec

=============================================================================
