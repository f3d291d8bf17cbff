----------------------------- MODULE MCDirectory -----------------------------
(***************************************************************************)
(* Small instances of Directory for TLC.                                   *)
(***************************************************************************)
EXTENDS DirectoryProperties
OneUser == [t \in Tasks |-> "u"]
SomeRefs == { <<"x">>, <<"a", "b">> }
SomeReferrals == { <<"b">> }
OneRelay == <<"b">>
=============================================================================
