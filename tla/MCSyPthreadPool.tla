-------------------------- MODULE MCSyPthreadPool --------------------------
(* Instances of SyPthreadPool for TLC.                                     *)
EXTENDS SyPthreadPool
=============================================================================
