------------------------------- MODULE MCArq -------------------------------
(***************************************************************************)
(* Instances of Arq for TLC.                                               *)
(***************************************************************************)
EXTENDS Arq

\* Three messages, one of them empty, one of several chunks.
MCLengths == <<3, 0, 2>>

\* The slower rung carries less, as in both of the modem's ladders.
MCSteepLadder == <<1, 2, 3>>

MCPeerModes == {1, 2, 3}
=============================================================================
