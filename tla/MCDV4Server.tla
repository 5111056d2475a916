---------------------------- MODULE MCDV4Server -----------------------------
(* A small instance of DV4Server for TLC. *)
EXTENDS DV4Server

MCAppCommands == {"SETADFQRG", "LED_ON", "ADFWRITE", "FLUSHTXBUF"}
MCBatches == {<<"ADFGETDATA", "ADFWATCHDOG">>}
=============================================================================
