------------------------------- MODULE AxiMemory ------------------------------
(***************************************************************************)
(* What the AXI slave in front of gem5's DDR promises the DUT: a burst     *)
(* takes effect as a whole, at one moment between its address and its      *)
(* response, and is answered once: a write by an acknowledgement, a read   *)
(* by what it found at that moment.                                        *)
(*                                                                         *)
(* A burst is [kind, block, strb]: it covers Len(strb) blocks of 32 bytes  *)
(* from `block` on, and a write stores those whose strobe is set.          *)
(***************************************************************************)
EXTENDS Naturals, Sequences

CONSTANTS Blocks, None
VARIABLES
    script,     \* the bursts, fixed
    mem,        \* mem[a]: the contents of block a
    stage,      \* stage[n]: "idle", "issued", "performed" or "answered"
    found,      \* found[n]: what read n found
    answer      \* answer[n]: what the DUT was answered

memVars == <<script, mem, stage, found, answer>>

Bursts == DOMAIN script

\* Block `block + i - 1` after beat i of write n.
Stored(m, n) ==
    [a \in Blocks |->
        LET i == a + 1 - script[n].block
        IN  IF i \in DOMAIN script[n].strb /\ script[n].strb[i] THEN <<n, i>> ELSE m[a]]

Fetched(m, n) == [i \in DOMAIN script[n].strb |-> m[script[n].block + i - 1]]

Init ==
    /\ mem = [a \in Blocks |-> None]
    /\ stage = [n \in Bursts |-> "idle"]
    /\ found = [n \in Bursts |-> << >>]
    /\ answer = [n \in Bursts |-> << >>]

Perform(n) ==
    /\ stage[n] = "issued"
    /\ stage' = [stage EXCEPT ![n] = "performed"]
    /\ \/ /\ script[n].kind = "write"
          /\ mem' = Stored(mem, n) /\ UNCHANGED found
       \/ /\ script[n].kind = "read"
          /\ found' = [found EXCEPT ![n] = Fetched(mem, n)] /\ UNCHANGED mem
    /\ UNCHANGED <<script, answer>>

\* A clock edge, at which bursts are issued and others are answered.
Moves(n) == \/ stage'[n] = stage[n]
            \/ stage[n] = "idle" /\ stage'[n] = "issued"
            \/ stage[n] = "performed" /\ stage'[n] = "answered"

Edge ==
    /\ stage' \in [Bursts -> {"idle", "issued", "performed", "answered"}]
    /\ \A n \in Bursts : Moves(n)
    /\ answer' = [n \in Bursts |-> IF stage'[n] = "answered" THEN found[n] ELSE << >>]
    /\ UNCHANGED <<script, mem, found>>

Next == Edge \/ \E n \in Bursts : Perform(n)

Spec == Init /\ [][Next]_memVars
===============================================================================
