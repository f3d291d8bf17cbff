---------------------------- MODULE ConnectService ----------------------------
(***************************************************************************)
(* What S-CONNECT promises its two users, whatever SPDUs, retries and      *)
(* transport connections it takes: the calling user is connected only on   *)
(* the terms the called user accepted, in one step, and once connected the *)
(* called user loses the connection only if the calling user never got it  *)
(* or gives this attempt up.                                               *)
(***************************************************************************)
CONSTANTS Terms, NoTerms   \* what the two users agree on

VARIABLES
    calling,    \* "none", "waiting", "connected" or "failed"
    called,     \* "none", "asked", "connected" or "failed"
    accepted,   \* the terms the called user is connected on
    confirmed   \* the terms the calling user is connected on

servvars == <<calling, called, accepted, confirmed>>

ServInit ==
    /\ calling = "none" /\ called = "none"
    /\ accepted = NoTerms /\ confirmed = NoTerms

Request ==
    /\ calling = "none" /\ calling' = "waiting"
    /\ UNCHANGED <<called, accepted, confirmed>>

\* The calling user turns to another address: nothing of this one counts.
TryNext ==
    /\ calling = "waiting"
    /\ called' = "none" /\ accepted' = NoTerms
    /\ UNCHANGED <<calling, confirmed>>

\* The indication may come after the calling user has given up.
Indicate ==
    /\ calling \in {"waiting", "failed"}
    /\ called = "none" /\ called' \in {"asked", "failed"}
    /\ UNCHANGED <<calling, accepted, confirmed>>

Accept ==
    /\ called = "asked" /\ called' = "connected"
    /\ accepted' \in Terms
    /\ UNCHANGED <<calling, confirmed>>

Refuse ==
    /\ called = "asked" /\ called' = "failed"
    /\ UNCHANGED <<calling, accepted, confirmed>>

Confirm ==
    /\ calling = "waiting" /\ calling' = "connected"
    /\ called = "connected"
    /\ confirmed' = accepted
    /\ UNCHANGED <<called, accepted>>

GiveUp ==
    /\ calling = "waiting" /\ calling' = "failed"
    /\ UNCHANGED <<called, accepted, confirmed>>

LoseCalled ==
    /\ called = "connected" /\ calling = "failed"
    /\ called' = "failed" /\ accepted' = NoTerms
    /\ UNCHANGED <<calling, confirmed>>

ServNext ==
    \/ Request \/ TryNext \/ GiveUp \/ Confirm
    \/ Indicate \/ Accept \/ Refuse \/ LoseCalled

ServSpec == ServInit /\ [][ServNext]_servvars
===============================================================================
