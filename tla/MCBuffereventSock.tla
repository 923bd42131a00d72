------------------------- MODULE MCBuffereventSock --------------------------
(* Instances of BuffereventSock for TLC.                                   *)
EXTENDS BuffereventSock
=============================================================================
