------------------------------ MODULE MCConnect ------------------------------
(***************************************************************************)
(* Small instances of SessionConnect for TLC.                              *)
(***************************************************************************)
EXTENDS SessionConnect
\* One set of functional units for each condition the two ends check.
SomeOffers ==
    { {"HALFDUPLEX", "DUPLEX", "EXCEPTIONS", "MINORSYNC"},
      {"HALFDUPLEX", "EXPEDITED", "MINORSYNC", "ACTIVITY", "CAPABILITY"},
      {"DUPLEX", "EXPEDITED", "RESYNC"}, {"DUPLEX", "CAPABILITY"}, {"MINORSYNC"} }
SomeAnswers ==
    { {"HALFDUPLEX", "EXCEPTIONS", "MINORSYNC"}, {"DUPLEX", "EXPEDITED", "RESYNC"},
      {"HALFDUPLEX", "EXPEDITED", "MINORSYNC", "CAPABILITY"},
      {"HALFDUPLEX", "MINORSYNC", "ACTIVITY"}, {"MINORSYNC"}, {"HALFDUPLEX", "DUPLEX"} }
=============================================================================
