------------------------------ MODULE MCTransfer ------------------------------
(***************************************************************************)
(* Small instances of RemoteOperations for TLC.                            *)
(***************************************************************************)
EXTENDS TransferProperties
NoProposals == {}
=============================================================================
