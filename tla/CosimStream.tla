------------------------------ MODULE CosimStream -----------------------------
(***************************************************************************)
(* What the connection between gem5 and the testbench promises: one FIFO   *)
(* stream of messages per direction.  Nothing is lost, doubled, reordered  *)
(* or made up while both ends are there.  When gem5 goes, PeerClosed is    *)
(* the last message of its stream; when the testbench closes, a suffix of  *)
(* what it sent may be lost.  A line that is no message ends gem5's stream *)
(* without a word.                                                         *)
(*                                                                         *)
(* CosimBarrier is written over these two streams; CosimTransport          *)
(* implements them with sockets, queues and threads.                       *)
(***************************************************************************)
EXTENDS Naturals, Sequences

CONSTANTS TbMsgs, PeerMsgs, PeerClosed
VARIABLES
    to_tb,      \* sent by gem5, not yet polled by the testbench
    to_gem5,    \* sent by the testbench, not yet taken by gem5
    polled,     \* what the testbench has received
    taken,      \* what gem5 has received
    readable,   \* gem5's stream has had no bad line and no end
    tb_open, peer_open

streamVars == <<to_tb, to_gem5, polled, taken, readable, tb_open, peer_open>>

Init ==
    /\ to_tb = << >> /\ to_gem5 = << >> /\ polled = << >> /\ taken = << >>
    /\ readable = TRUE /\ tb_open = TRUE /\ peer_open = TRUE

Arrives(m) ==
    to_tb' = IF readable /\ tb_open THEN Append(to_tb, m) ELSE to_tb

PeerSends(m) ==
    /\ peer_open
    /\ Arrives(m)
    /\ UNCHANGED <<to_gem5, polled, taken, readable, tb_open, peer_open>>

PeerGarbles ==
    /\ peer_open
    /\ readable' = FALSE
    /\ UNCHANGED <<to_tb, to_gem5, polled, taken, tb_open, peer_open>>

PeerEnds ==
    /\ peer_open
    /\ Arrives(PeerClosed)
    /\ peer_open' = FALSE /\ readable' = FALSE
    /\ to_gem5' = << >>
    /\ UNCHANGED <<polled, taken, tb_open>>

TbPolls ==
    /\ to_tb # << >>
    /\ to_tb' = Tail(to_tb) /\ polled' = Append(polled, Head(to_tb))
    /\ UNCHANGED <<to_gem5, taken, readable, tb_open, peer_open>>

TbSends(m) ==
    /\ tb_open
    /\ to_gem5' = IF peer_open THEN Append(to_gem5, m) ELSE to_gem5
    /\ UNCHANGED <<to_tb, polled, taken, readable, tb_open, peer_open>>

PeerTakes ==
    /\ to_gem5 # << >>
    /\ to_gem5' = Tail(to_gem5) /\ taken' = Append(taken, Head(to_gem5))
    /\ UNCHANGED <<to_tb, polled, readable, tb_open, peer_open>>

\* The testbench closes; what it had not flushed may go in several steps.
TbCloses ==
    /\ tb_open' = FALSE /\ readable' = FALSE
    /\ to_tb' = << >>
    /\ \E n \in 0 .. Len(to_gem5) : to_gem5' = SubSeq(to_gem5, 1, n)
    /\ UNCHANGED <<polled, taken, peer_open>>

Next ==
    \/ \E m \in PeerMsgs : PeerSends(m)
    \/ \E m \in TbMsgs : TbSends(m)
    \/ PeerGarbles \/ PeerEnds \/ TbPolls \/ PeerTakes \/ TbCloses

Spec == Init /\ [][Next]_streamVars
===============================================================================
