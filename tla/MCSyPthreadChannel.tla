------------------------- MODULE MCSyPthreadChannel -------------------------
(* Instances of SyPthreadChannel for TLC.                                  *)
EXTENDS SyPthreadChannel
=============================================================================
