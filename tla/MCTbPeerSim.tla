------------------------------ MODULE MCTbPeerSim -----------------------------
(***************************************************************************)
(* TbPeerSim for TLC: reads and writes of one line, and a bypass packet on *)
(* its second half, so that every access meets another one.  The two txn   *)
(* ids are alike, so one assignment of each pair of requests is enough,    *)
(* and of two unsupported requests nothing is to be seen.                  *)
(***************************************************************************)
EXTENDS TbPeerSim

OfLine(op) == [op |-> op, line |-> 0, half |-> 0, size |-> 64]

MixedRequests == {OfLine("read"), OfLine("write"), OfLine("other")}
BypassHalf == {[kind |-> k, block |-> 1] : k \in {"read", "write"}}

OrderedInit ==
    /\ Init
    /\ req[1].op # "other"
    /\ req[1].op = "write" => req[2].op # "read"

OrderedSpec == OrderedInit /\ [][Next]_vars /\ Fairness
===============================================================================
