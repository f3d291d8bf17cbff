----------------------------- MODULE MCSession -----------------------------
(***************************************************************************)
(* Small instances of Session for TLC.  Proposals gets one of these sets.  *)
(***************************************************************************)
EXTENDS SessionDocumented
\* Everything to one side, or left to the peer.
OneSided == { [t \in Tokens |-> x] : x \in Side \cup {"call"} }
\* Everything to the side that does not win collisions, or left to the peer.
ToResponder == { [t \in Tokens |-> x] : x \in {"resp", "call"} }
\* Everything left to the peer.
LeftToPeer == {NoSettings}
=============================================================================
