----------------------------- MODULE ChiLinkDriver ----------------------------
(***************************************************************************)
(* ChiLinkDriver and ChiLinkBfm of driver.py: link activation, credits,    *)
(* and the transmission of one transaction after another.                  *)
(*                                                                         *)
(* All testbench activity happens on falling clock edges.  `todo` holds    *)
(* the coroutines suspended on the edge that has just come and not resumed *)
(* yet; they resume in any order.  When none is left and the driver is     *)
(* suspended again, the DUT takes its rising edge (RisingEdge), external.  *)
(*                                                                         *)
(* A transaction is known by its number in `script`, the order in which    *)
(* upstream puts them into item_fifo: SnfAgent in the co-simulation, whose *)
(* write data follow the DBIDResp, or Gem5Adaptor (Prompt), whose write    *)
(* data follow the request at once.  Each carries one flit.                *)
(***************************************************************************)
EXTENDS Integers, Sequences

CONSTANTS
    Scripts,        \* sequences of [ch, wire] with ch "read", "write" or "dat"
    Prompt,         \* upstream does not wait for DBIDResp
    DBIDs,          \* the DBIDs the DUT may assign
    None,
    FifoSize,       \* item_fifo: 64
    RxDepth,        \* DEPTH of the DUT's RX adapters: 4
    StableEdges,    \* stable_edges: 4
    LinkTimeout, DbidTimeout, CreditTimeout     \* timeouts, in clock edges

ASSUME DriverAssumption ==
    /\ Scripts \subseteq
          Seq([ch : {"read", "write", "dat"}, wire : Nat])
    /\ Prompt \in BOOLEAN
    /\ None \notin DBIDs \cup Nat \cup [n : Nat, dbid : DBIDs \cup {None}]
    /\ {FifoSize, RxDepth, StableEdges, LinkTimeout, DbidTimeout, CreditTimeout}
          \subseteq Nat \ {0}

\* Data transaction n of script s carries the data of its write k: the last
\* write before it under its wire id.
DataOf(s, n, k) ==
    /\ s[n].ch = "dat" /\ k \in 1 .. n - 1
    /\ s[k].ch = "write" /\ s[k].wire = s[n].wire
    /\ \A j \in k + 1 .. n - 1 : ~(s[j].ch = "write" /\ s[j].wire = s[n].wire)

\* Upstream puts the data of a write after it, and before another write under
\* the same wire id.
ASSUME ScriptAssumption ==
    \A s \in Scripts :
        /\ \A n \in DOMAIN s : s[n].ch = "dat" => \E k \in DOMAIN s : DataOf(s, n, k)
        /\ \A k, m \in DOMAIN s :
              /\ k < m /\ s[k].wire = s[m].wire
              /\ s[k].ch = "write" /\ s[m].ch = "write"
              => \E n \in k + 1 .. m - 1 : DataOf(s, n, k)

VARIABLES
    script,
    pushed,         \* how many transactions upstream has put
    item_fifo,
    drv,            \* where the driver's run_phase stands
    item,           \* the transaction in its hands
    waited,         \* edges drv, act and txc have waited, or seen stable
    act,            \* link_activation_task: "asking" and "acked" drive
                    \* rx_linkactivereq, "acked" tx_linkactiveack
    txc,            \* tx_credit_task: "on" drives txrspcrdv and txdatcrdv
    credits,        \* req_credits and dat_credits
    dbid_by_txn,
    flt,            \* the flit on RXREQ or RXDAT, or None
    todo,
    rstn,
    \* the DUT
    link,           \* "stop"; "req": tx_linkactivereq is up; "run"
    rx,             \* rx[c]: flits in the RX adapter of channel c
    due,            \* due[c]: credits the DUT has still to return
    crdv,           \* the channels with a credit on the wire
    txrsp,          \* the write whose DBIDResp is on TXRSP, or None
    granted,        \* granted[n]: the DBID the DUT gave write n
    served,         \* the transactions the core has consumed
    got             \* the transactions sampled, in order

tbVars  == <<drv, item, waited, act, txc, credits, dbid_by_txn, flt>>
dutVars == <<link, rx, due, crdv, txrsp, granted, served, got>>
vars == <<script, pushed, item_fifo, tbVars, todo, rstn, dutVars>>

Channels == {"req", "dat"}
Numbers == DOMAIN script
Wires == {script[n].wire : n \in Numbers}
Flits == [n : Numbers, dbid : DBIDs \cup {None}]
Channel(n) == IF script[n].ch = "dat" THEN "dat" ELSE "req"
SameWire(n) == {k \in Numbers : k < n /\ script[k].wire = script[n].wire}

\* The write a data transaction belongs to.
WriteOf(n) == CHOOSE k \in Numbers : DataOf(script, n, k)

Init ==
    /\ script \in Scripts
    /\ pushed = 0 /\ item_fifo = << >>
    /\ drv = "reset" /\ item = None
    /\ waited = [c \in {"drv", "act", "txc"} |-> 0]
    /\ act = "off" /\ txc = "off"
    /\ credits = [c \in Channels |-> 0]
    /\ dbid_by_txn = [w \in Wires |-> None]
    /\ flt = None /\ todo = {} /\ rstn = FALSE
    /\ link = "stop"
    /\ rx = [c \in Channels |-> << >>] /\ due = [c \in Channels |-> 0]
    /\ crdv = {} /\ txrsp = None
    /\ granted = [n \in Numbers |-> None]
    /\ served = {} /\ got = << >>

-------------------------------------------------------------------------------
(***************************************************************************)
(* Upstream, and the test that releases reset.  A wire id is used again    *)
(* only when the transaction before has been consumed.                     *)
(***************************************************************************)
Ready(n) ==
    IF script[n].ch = "dat"
      THEN Prompt \/ (granted[WriteOf(n)] # None /\ todo = {})
      ELSE SameWire(n) \subseteq served

Put ==
    /\ drv # "raised"
    /\ pushed + 1 \in Numbers
    /\ Ready(pushed + 1)
    /\ Len(item_fifo) < FifoSize
    /\ pushed' = pushed + 1
    /\ item_fifo' = Append(item_fifo, pushed + 1)
    /\ UNCHANGED <<script, tbVars, todo, rstn, dutVars>>

ReleaseReset ==
    /\ ~rstn /\ rstn' = TRUE
    /\ UNCHANGED <<script, pushed, item_fifo, tbVars, todo, dutVars>>

-------------------------------------------------------------------------------
(***************************************************************************)
(* The driver.  An exception in any coroutine fails the test: "raised".    *)
(***************************************************************************)
Resumes(c) == c \in todo /\ drv # "raised" /\ todo' = todo \ {c}

Waits(c) == waited' = [waited EXCEPT ![c] = @ + 1]
Rewinds(c) == waited' = [waited EXCEPT ![c] = 0]

\* wait_reset_released: edges seen with rstn high, one after the other.
SeesReset(c) == IF rstn THEN Waits(c) ELSE Rewinds(c)

drv_reset ==
    /\ drv = "reset" /\ Resumes("drv")
    /\ IF rstn /\ waited["drv"] + 1 >= StableEdges
         THEN drv' = "linkup" /\ act' = "reset" /\ txc' = "linkup" /\ Rewinds("drv")
         ELSE SeesReset("drv") /\ UNCHANGED <<drv, act, txc>>
    /\ UNCHANGED <<script, pushed, item_fifo, item, credits, dbid_by_txn, flt, rstn,
                   dutVars>>

drv_link_up ==
    /\ drv = "linkup" /\ Resumes("drv")
    /\ \/ link = "run" /\ drv' = "get" /\ Rewinds("drv")
       \/ /\ link # "run" /\ Waits("drv")
          /\ drv' = IF waited'["drv"] >= LinkTimeout THEN "raised" ELSE "linkup"
    /\ UNCHANGED <<script, pushed, item_fifo, item, act, txc, credits, dbid_by_txn,
                   flt, rstn, dutVars>>

get ==
    /\ drv = "get" /\ item_fifo # << >>
    /\ item' = [n |-> Head(item_fifo), dbid |-> None]
    /\ item_fifo' = Tail(item_fifo)
    /\ drv' = IF script[Head(item_fifo)].ch = "dat" THEN "dbid" ELSE "credit"
    /\ UNCHANGED <<script, pushed, waited, act, txc, credits, dbid_by_txn, flt, todo,
                   rstn, dutVars>>

\* wait_dbid looks, then waits an edge; after the timeout the data goes anyway.
wait_dbid ==
    /\ drv = "dbid"
    /\ LET dbid == dbid_by_txn[script[item.n].wire]
       IN  \/ /\ waited["drv"] < DbidTimeout /\ dbid = None
              /\ drv' = "dbid_wait" /\ UNCHANGED <<item, waited>>
           \/ /\ waited["drv"] >= DbidTimeout
              /\ drv' = "credit" /\ Rewinds("drv") /\ UNCHANGED item
           \/ /\ waited["drv"] < DbidTimeout /\ dbid # None
              /\ drv' = "credit" /\ Rewinds("drv")
              /\ item' = [item EXCEPT !.dbid = dbid]
    /\ UNCHANGED <<script, pushed, item_fifo, act, txc, credits, dbid_by_txn, flt,
                   todo, rstn, dutVars>>

\* Mutants: one flit more than there are credits; no credit is taken.
has_credit_late(c) == credits[c] >= 0
take_credit_free(c) == UNCHANGED credits

has_credit(c) == credits[c] > 0
take_credit(c) == credits' = [credits EXCEPT ![c] = @ - 1]

\* _wait_credit, and _send up to its wait for the edge.
wait_credit ==
    /\ drv = "credit"
    /\ LET c == Channel(item.n)
       IN  \/ /\ has_credit(c) /\ take_credit(c)
              /\ flt' = item /\ drv' = "hold" /\ Rewinds("drv")
           \/ /\ ~has_credit(c)
              /\ drv' = IF waited["drv"] >= CreditTimeout THEN "raised"
                                                          ELSE "credit_wait"
              /\ UNCHANGED <<credits, flt, waited>>
    /\ UNCHANGED <<script, pushed, item_fifo, item, act, txc, dbid_by_txn, todo, rstn,
                   dutVars>>

\* Mutants: the wait is not counted; the flit stays valid for another edge.
after_wait_endless == UNCHANGED waited
end_of_flit_kept == UNCHANGED flt

after_wait == Waits("drv")
end_of_flit == flt' = None

drv_edge ==
    /\ drv \in {"dbid_wait", "credit_wait", "hold"} /\ Resumes("drv")
    /\ \/ drv = "dbid_wait" /\ drv' = "dbid" /\ after_wait /\ UNCHANGED <<item, flt>>
       \/ drv = "credit_wait" /\ drv' = "credit" /\ after_wait
          /\ UNCHANGED <<item, flt>>
       \/ drv = "hold" /\ drv' = "get" /\ item' = None /\ end_of_flit
          /\ UNCHANGED waited
    /\ UNCHANGED <<script, pushed, item_fifo, act, txc, credits, dbid_by_txn, rstn,
                   dutVars>>

-------------------------------------------------------------------------------
(***************************************************************************)
(* The coroutines the driver starts once reset is released.                *)
(***************************************************************************)
link_activation_task ==
    /\ act \in {"reset", "asking"} /\ Resumes("act")
    /\ \/ /\ act = "reset"
          /\ SeesReset("act")
          /\ act' = IF waited'["act"] >= StableEdges THEN "asking" ELSE "reset"
       \/ /\ act = "asking"
          /\ act' = IF link # "stop" THEN "acked" ELSE "asking"
          /\ UNCHANGED waited
    /\ UNCHANGED <<script, pushed, item_fifo, drv, item, txc, credits, dbid_by_txn,
                   flt, rstn, dutVars>>

tx_credit_task ==
    /\ txc = "linkup" /\ Resumes("txc")
    /\ \/ link = "run" /\ txc' = "on" /\ UNCHANGED <<waited, drv>>
       \/ /\ link # "run" /\ Waits("txc") /\ UNCHANGED txc
          /\ drv' = IF waited'["txc"] >= LinkTimeout THEN "raised" ELSE drv
    /\ UNCHANGED <<script, pushed, item_fifo, item, act, credits, dbid_by_txn, flt,
                   rstn, dutVars>>

counted(c) == IF c \in crdv THEN 1 ELSE 0

rx_credit_task ==
    /\ Resumes("crd")
    /\ credits' = [c \in Channels |-> credits[c] + counted(c)]
    /\ UNCHANGED <<script, pushed, item_fifo, drv, item, waited, act, txc, dbid_by_txn,
                   flt, rstn, dutVars>>

\* Mutant: the first DBID of a txn id is kept.
record_dbid_first(w, dbid) ==
    dbid_by_txn' = [dbid_by_txn EXCEPT ![w] = IF @ = None THEN dbid ELSE @]

record_dbid(w, dbid) == dbid_by_txn' = [dbid_by_txn EXCEPT ![w] = dbid]

observe_tx ==
    /\ Resumes("obs")
    /\ IF txrsp = None THEN UNCHANGED dbid_by_txn
                       ELSE record_dbid(script[txrsp].wire, granted[txrsp])
    /\ UNCHANGED <<script, pushed, item_fifo, drv, item, waited, act, txc, credits,
                   flt, rstn, dutVars>>

-------------------------------------------------------------------------------
(***************************************************************************)
(* The rising edge and the falling edge after it.  The DUT samples the     *)
(* flit on the wire, may take one flit per channel out of its adapter, may *)
(* return one credit per channel and may send one DBIDResp, if it has      *)
(* been granted TX credits; its link moves when the peer's pins allow it.  *)
(***************************************************************************)
Suspended == \/ drv \in {"reset", "linkup", "dbid_wait", "credit_wait", "hold"}
             \/ drv = "get" /\ item_fifo = << >>

Sampled(c) == IF flt # None /\ Channel(flt.n) = c THEN <<flt>> ELSE << >>

LinkMoves ==
    \/ link' = link
    \/ link = "stop" /\ rstn /\ act \in {"asking", "acked"} /\ link' = "req"
    \/ link = "req" /\ act = "acked" /\ link' = "run"

Grants ==
    \/ txrsp' = None /\ UNCHANGED granted
    \/ \E n \in served, d \in DBIDs :
          /\ txc = "on" /\ script[n].ch = "write" /\ granted[n] = None
          /\ txrsp' = n /\ granted' = [granted EXCEPT ![n] = d]

EdgeTasks ==
    (IF drv = "get" THEN {} ELSE {"drv"})
    \cup (IF act \in {"reset", "asking"} THEN {"act"} ELSE {})
    \cup (IF txc = "linkup" THEN {"txc"} ELSE {})
    \cup (IF act = "off" THEN {} ELSE {"crd", "obs"})

RisingEdge ==
    /\ todo = {} /\ Suspended
    /\ LinkMoves
    /\ Grants
    /\ \E pop \in SUBSET {c \in Channels : rx[c] # << >>} :
         /\ rx' = [c \in Channels |->
                     (IF c \in pop THEN Tail(rx[c]) ELSE rx[c]) \o Sampled(c)]
         /\ served' = served \cup {Head(rx[c]).n : c \in pop}
         /\ crdv' \in SUBSET {c \in Channels : due[c] > 0}
         /\ due' = [c \in Channels |->
                      IF link # "run" /\ link' = "run" THEN RxDepth
                      ELSE due[c] + (IF c \in pop THEN 1 ELSE 0)
                                  - (IF c \in crdv' THEN 1 ELSE 0)]
    /\ got' = IF flt = None THEN got ELSE Append(got, flt.n)
    /\ todo' = EdgeTasks
    /\ UNCHANGED <<script, pushed, item_fifo, tbVars, rstn>>

Drive == drv_reset \/ drv_link_up \/ get \/ wait_dbid \/ wait_credit \/ drv_edge

Next ==
    \/ Put \/ ReleaseReset \/ Drive
    \/ link_activation_task \/ tx_credit_task \/ rx_credit_task \/ observe_tx
    \/ RisingEdge

Spec == Init /\ [][Next]_vars

(***************************************************************************)
(* Fairness: the clock runs, every coroutine resumes at its edge, the test *)
(* releases reset.  The DUT is not obliged to anything.                    *)
(***************************************************************************)
Fairness ==
    /\ WF_vars(ReleaseReset) /\ WF_vars(Drive)
    /\ WF_vars(link_activation_task) /\ WF_vars(tx_credit_task)
    /\ WF_vars(rx_credit_task) /\ WF_vars(observe_tx)
    /\ WF_vars(RisingEdge)

FairSpec == Spec /\ Fairness
-------------------------------------------------------------------------------
\* The state of every coroutine, queue, counter and pin of driver.py has its
\* type; in particular a credit counter never goes below zero.
TypeOK ==
    /\ drv \in {"reset", "linkup", "get", "dbid", "dbid_wait", "credit",
                "credit_wait", "hold", "raised"}
    /\ act \in {"off", "reset", "asking", "acked"}
    /\ txc \in {"off", "linkup", "on"}
    /\ credits \in [Channels -> Nat] /\ due \in [Channels -> Nat]
    /\ pushed \in Nat /\ item_fifo \in Seq(Numbers)
    /\ {item, flt} \subseteq Flits \cup {None}
    /\ waited \in [{"drv", "act", "txc"} -> Nat]
    /\ todo \subseteq {"drv", "act", "txc", "crd", "obs"}
    /\ link \in {"stop", "req", "run"}
    /\ got \in Seq(Numbers)

(***************************************************************************)
(* No link credit is lost or made up.  Once the link runs, the credits     *)
(* rx_credit_task has counted, the one on the wire, the flit being sent,   *)
(* the flits in the DUT's adapter and the credits it still owes are RxDepth*)
(* together, on each channel; so the adapter never overflows.              *)
(***************************************************************************)
OnWire(c) ==
    (IF c \in crdv /\ "crd" \in todo THEN 1 ELSE 0)
    + (IF flt # None /\ "drv" \notin todo /\ Channel(flt.n) = c THEN 1 ELSE 0)

CreditsConserved ==
    \A c \in Channels :
        credits[c] + OnWire(c) + Len(rx[c]) + due[c]
            = IF link = "run" THEN RxDepth ELSE 0

(***************************************************************************)
(* The driver is a FIFO: the DUT samples every transaction once, in the    *)
(* order upstream put them.  SnfSystem treats the queue of SnfAgent, the   *)
(* driver and the link as one queue on these grounds.                      *)
(***************************************************************************)
OnceInOrder == [][got' \in {got, Append(got, Len(got) + 1)}]_vars

(***************************************************************************)
(* A DBID the driver puts into a write-data flit is the one the DUT has    *)
(* assigned to that very write.                                            *)
(***************************************************************************)
OwnDbid ==
    flt # None /\ flt.dbid # None => flt.dbid = granted[WriteOf(flt.n)]

(***************************************************************************)
(* The timeouts turn a deadlock into a failure: whatever the DUT does,     *)
(* the driver catches up with what was put into item_fifo, or the test     *)
(* fails.                                                                  *)
(***************************************************************************)
NeverHangs == []<>(Len(got) = pushed \/ drv = "raised")
===============================================================================
