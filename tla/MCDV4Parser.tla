---------------------------- MODULE MCDV4Parser -----------------------------
(* Small instances of DV4Parser for TLC. *)
EXTENDS DV4Parser

MCPreamble == <<113, 254, 57, 29>>

\* One message without parameters, one that ends in the first byte of a preamble,
\* and one whose payload reads as a message.
MCMessages == {[cmd |-> 3, param |-> <<>>], [cmd |-> 5, param |-> <<113>>],
               [cmd |-> 7, param |-> <<113, 254, 57, 29, 9, 0>>]}

\* Bytes of a preamble, one of none, and the beginning of a message of two bytes.
MCNoise == {<<113>>, <<254, 57>>, <<7>>, <<113, 254, 57, 29, 4, 2>>}
=============================================================================
