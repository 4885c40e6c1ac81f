------------------------------- MODULE SnfSystem ------------------------------
(***************************************************************************)
(* The SN-F path of the co-simulation: gem5's home node, the SnfAgent with *)
(* its TxnIdMapper, the link driver and the DUT.                           *)
(*                                                                         *)
(* CosimResponder hands a monitored TX flit to the agent in the cycle the  *)
(* DUT emits it, so a DUT answer and the handler it triggers are one step. *)
(***************************************************************************)
EXTENDS C2xmDut

vars == <<hnfVars, mapperVars, agentVars, dutVars>>

Init == HnfInit /\ AgentInit /\ DutInit

\* gem5 sends a request, or the data of a granted write, to the agent.
Gem5Req(t) == handle_gem5_req(t) /\ UNCHANGED dutVars
Gem5Dat(t) == handle_gem5_dat(t) /\ UNCHANGED dutVars

\* One iteration of _retry_pending.
RetryPending == (drop_req \/ issue_req) /\ UNCHANGED dutVars

\* run_phase and the driver deliver the oldest flit to the DUT.
Deliver ==
    /\ ~issuing
    /\ txn_queue # << >>
    /\ txn_queue' = Tail(txn_queue)
    /\ LET f == Head(txn_queue) IN Admit(f) \/ Reject(f) \/ Receive(f)
    /\ UNCHANGED <<pending_reqs, retrying, retried, issuing>>
    /\ UNCHANGED <<hnfVars, mapperVars, owed, rsp_busy>>

\* One clock cycle.
Cycle ==
    /\ on_cycle
    /\ dut' = [w \in WireIds |-> Ticked(dut[w])]
    /\ rsp_busy' = FALSE
    /\ UNCHANGED owed

\* A TXRSP flit leaves the DUT; its channel is then busy for this cycle.
TxRsp == ~rsp_busy /\ rsp_busy' = TRUE

DutRetryAck(w) ==
    /\ dut[w] # None /\ dut[w].st = "rejected"
    /\ TxRsp
    /\ dut' = [dut EXCEPT ![w] = None]
    /\ owed' = owed + 1
    /\ on_retryack(w)

DutPCrdGrant ==
    /\ owed > 0
    /\ TxRsp
    /\ owed' = owed - 1
    /\ UNCHANGED dut
    /\ on_pcrdgrant

\* EWA=0 keeps the write path DBIDResp -> data -> Comp.
DutDBIDResp(w) ==
    /\ dut[w] # None /\ dut[w].st = "admitted" /\ req[dut[w].txn].op = "write"
    /\ TxRsp
    /\ dut' = [dut EXCEPT ![w].st = "granted"]
    /\ UNCHANGED owed
    /\ on_txrsp(w, IF dut[w].ewa THEN "CompDBIDResp" ELSE "DBIDResp")

AllDataIn(e) ==
    \A id \in required_data_ids(req[e.txn]) : \E d \in e.data : d[2] = id

DutComp(w) ==
    /\ dut[w] # None /\ dut[w].st = "granted" /\ ~dut[w].ewa
    /\ AllDataIn(dut[w])
    /\ TxRsp
    /\ \E d \in 0 .. MaxDrain : dut' = [dut EXCEPT ![w] = HandBack(@, d)]
    /\ UNCHANGED owed
    /\ on_txrsp(w, "Comp")

DutCompData(w) ==
    /\ dut[w] # None /\ dut[w].st = "admitted" /\ req[dut[w].txn].op = "read"
    /\ \/ /\ dut[w].left > 1
          /\ dut' = [dut EXCEPT ![w].left = @ - 1]
       \/ /\ dut[w].left = 1
          /\ \E d \in 0 .. MaxDrain : dut' = [dut EXCEPT ![w] = HandBack(@, d)]
    /\ UNCHANGED <<owed, rsp_busy>>
    /\ on_txdat(w)

DutAnswer(w) ==
    DutRetryAck(w) \/ DutDBIDResp(w) \/ DutComp(w) \/ DutCompData(w)

Next ==
    \/ \E t \in Txns : Gem5Req(t) \/ Gem5Dat(t)
    \/ RetryPending
    \/ Deliver
    \/ Cycle
    \/ DutPCrdGrant
    \/ \E w \in WireIds : DutAnswer(w)

Spec == Init /\ [][Next]_vars

(***************************************************************************)
(* Fairness.  Python code that is running finishes (RetryPending), the     *)
(* driver keeps draining its FIFO, the barrier loop keeps clocking, the    *)
(* DUT answers what it holds, and gem5 sends the data of a granted write.  *)
(* Nothing obliges gem5 to make a request.                                 *)
(***************************************************************************)
Fairness ==
    /\ WF_vars(RetryPending)
    /\ WF_vars(Deliver)
    /\ WF_vars(Cycle)
    /\ WF_vars(DutPCrdGrant)
    /\ \A w \in WireIds : WF_vars(DutAnswer(w))
    /\ \A t \in Txns : WF_vars(Gem5Dat(t))

FairSpec == Spec /\ Fairness
-------------------------------------------------------------------------------
\* Every variable has its type.
TypeOK == HnfTypeOK /\ AgentTypeOK /\ DutTypeOK

Holds(w, t) == records[w] # None /\ records[w].txn = t

ReqFor(f, w) == f.ch = "req" /\ f.wire = w

(***************************************************************************)
(* A pool slot stays with one transaction from the moment _issue_req gives *)
(* it out until the DUT has handed the entry back, the drain after the     *)
(* last answer included: the record that translates its answers is there   *)
(* and is its own, and no second request travels under the same wire id.   *)
(***************************************************************************)
SlotHeld ==
    \A w \in PoolIds :
        /\ dut[w] # None => Holds(w, dut[w].txn)
        /\ \A i \in DOMAIN txn_queue :
              ReqFor(txn_queue[i], w) =>
                  /\ Holds(w, txn_queue[i].txn)
                  /\ dut[w] = None
                  /\ \A j \in DOMAIN txn_queue :
                        ReqFor(txn_queue[j], w) => j = i

(***************************************************************************)
(* A request gem5 has sent and not seen answered is in exactly one place:  *)
(* waiting for a slot, on its way to the DUT, in the DUT, or retried and   *)
(* waiting for its credit.  An answered or dropped one is in none.         *)
(***************************************************************************)
InSeq(s, t) == {i \in DOMAIN s : s[i] = t}

Copies(t) ==
    Cardinality(InSeq(pending_reqs, t)) + Cardinality(InSeq(retrying, t))
    + Cardinality({i \in DOMAIN txn_queue :
                      txn_queue[i].ch = "req" /\ txn_queue[i].txn = t})
    + Cardinality({w \in WireIds : /\ dut[w] # None /\ dut[w].txn = t
                                   /\ dut[w].st # "drain"})

OnePlace ==
    \A t \in Txns :
        IF hnf[t].phase = "unsent" \/ hnf[t].completed > 0
          THEN Copies(t) = 0
          ELSE Copies(t) = 1 \/ (~Supported(req[t]) /\ Copies(t) = 0)

(***************************************************************************)
(* No lost wake-up: outside _retry_pending, requests wait only because the *)
(* one at the head needs a slot and the agent's pool is full.              *)
(***************************************************************************)
StalledOnlyWhenFull ==
    ~issuing /\ pending_reqs # << >> =>
        /\ FreeSlots = {}
        /\ ~Bypasses(Head(pending_reqs))

(***************************************************************************)
(* Once gem5 has sent a write's data, every beat of it is either on its    *)
(* way to the slot the DUT gave that write, or has arrived there, until    *)
(* the write completes.                                                    *)
(***************************************************************************)
Delivered(t, w, id) ==
    \/ <<t, id>> \in dut[w].data
    \/ \E i \in DOMAIN txn_queue :
          txn_queue[i] = DataBeat(dut[w].slot, t, id)

WriteDataConserved ==
    \A t \in Txns :
        hnf[t].phase = "wait_comp" /\ hnf[t].completed = 0 =>
            \E w \in WireIds :
                /\ dut[w] # None /\ dut[w].txn = t
                /\ \A id \in required_data_ids(req[t]) : Delivered(t, w, id)

(***************************************************************************)
(* What the agent takes for granted (see SnfFaults).  The DUT admits a     *)
(* request into the slot that is its wire id; the id the next bypass read  *)
(* will get is not in use, though next_read_id wraps and alloc does not    *)
(* look; when gem5 is about to send the data of a write, the mapper has    *)
(* one record of it, though find_write takes the first it finds.           *)
(***************************************************************************)
SlotsAgree == \A w \in Pooled : dut[w].slot = w

ReadIdFree ==
    issuing /\ pending_reqs # << >> /\ Bypasses(Head(pending_reqs)) =>
        records[next_read_id] = None

OneRecord ==
    \A t \in Txns : hnf[t].phase = "wait_data" =>
        \A v, w \in WritesOf(t) : v = w

(***************************************************************************)
(* find_write can find a stale record only for a write the DUT has         *)
(* rejected: a transaction that was not is issued once, has one record at  *)
(* most, and leaves the queue of pending requests for good.                *)
(***************************************************************************)
RecordedOnceUnlessRetried ==
    \A t \in Txns : retried[t] = 0 =>
        \A v, w \in WireIds : Holds(v, t) /\ Holds(w, t) => v = w

(***************************************************************************)
(* A read the agent issues under a bypass id is one the DUT lets bypass:   *)
(* its line is not in the DUT's pool when it is admitted.                  *)
(***************************************************************************)
BypassReadsBypass ==
    [][\A w \in ReadIds : dut[w] = None /\ dut'[w] # None => dut'[w].slot = None]_vars

(***************************************************************************)
(* The path as gem5 sees it: the SN-F of SnfPort, in which a ContractError *)
(* and a second completion are no stage of a request.                      *)
(***************************************************************************)
StageOf(t) ==
    IF failed \/ hnf[t].completed > 1 THEN "error"
    ELSE IF hnf[t].completed = 1 THEN "done"
    ELSE CASE hnf[t].phase = "unsent" -> "idle"
           [] hnf[t].phase = "wait_data" -> "granted"
           [] hnf[t].phase = "wait_comp" -> "sent"
           [] OTHER -> "asked"

Port == INSTANCE SnfPort WITH
            kind <- [t \in Txns |-> req[t].op],
            beats <- [t \in Txns |-> beats_expected(req[t])],
            stage <- [t \in Txns |-> StageOf(t)],
            got <- [t \in Txns |-> hnf[t].beats]
===============================================================================
