---------------------------- MODULE MCChiLinkDriver ---------------------------
(***************************************************************************)
(* ChiLinkDriver for TLC: two writes one after the other under one wire    *)
(* id, and three reads against an adapter of two entries.                  *)
(***************************************************************************)
EXTENDS ChiLinkDriver

Txn(ch, wire) == [ch |-> ch, wire |-> wire]

TwoWrites == <<Txn("write", 0), Txn("dat", 0), Txn("write", 0), Txn("dat", 0)>>
ReadsAndWrite == <<Txn("read", 1), Txn("write", 0), Txn("read", 2), Txn("dat", 0)>>

AgentScripts == {TwoWrites, ReadsAndWrite}
ReusedId == {TwoWrites}
===============================================================================
