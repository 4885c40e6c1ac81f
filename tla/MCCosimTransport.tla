---------------------------- MODULE MCCosimTransport --------------------------
(***************************************************************************)
(* CosimTransport for TLC.                                                 *)
(***************************************************************************)
EXTENDS CosimTransport
===============================================================================
