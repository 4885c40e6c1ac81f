----------------------------- MODULE MCCosimBarrier ---------------------------
(***************************************************************************)
(* CosimBarrier for TLC: a write with a read ahead of it, and the bypass   *)
(* scenario's pair of accesses.                                            *)
(***************************************************************************)
EXTENDS CosimBarrier

ReadWriteOrBypass == {<<"read", "write">>, <<"bypass", "bypass">>}
OneRead == {<<"read">>}
===============================================================================
