----------------------------- MODULE MCAxiDdrProxy ----------------------------
(***************************************************************************)
(* AxiDdrProxy for TLC: writes of one and of two beats and reads of the    *)
(* same blocks, overlapping in every way the DUT's and gem5's timing       *)
(* allows.                                                                 *)
(***************************************************************************)
EXTENDS AxiDdrProxy

Burst(kind, block, strb) == [kind |-> kind, block |-> block, strb |-> strb]

\* Two writes that overlap in block 1, and a read of both blocks.
Overlapping == <<Burst("write", 0, <<TRUE, TRUE>>), Burst("write", 1, <<TRUE>>),
                 Burst("read", 0, <<TRUE, TRUE>>)>>

\* A write with a beat masked, and three reads around it.
Masked == <<Burst("write", 0, <<FALSE, TRUE>>), Burst("read", 0, <<TRUE, TRUE>>),
            Burst("read", 1, <<TRUE>>), Burst("read", 0, <<TRUE>>)>>

SteadyScripts == {Overlapping, Masked}

\* With these the DUT may lower bready and rready at any edge.
Writes == <<Burst("write", 0, <<TRUE>>), Burst("write", 0, <<TRUE>>)>>
Reads == <<Burst("read", 0, <<TRUE, TRUE>>), Burst("read", 0, <<TRUE>>)>>

VaryingScripts == {Writes, Reads}
AllScripts == SteadyScripts \cup VaryingScripts
===============================================================================
