----------------------------- MODULE MCDV4Mini ------------------------------
(* Small instances of DV4Mini for TLC. *)
EXTENDS DV4Mini

MCBatches == {<<"ADFGETDATA", "ADFWATCHDOG">>, <<"SHORT">>}
=============================================================================
