-------------------------------- MODULE C2xmDut -------------------------------
(***************************************************************************)
(* The C2XM RTL, as the testbench sees it on its CHI link.  The RTL is not *)
(* part of the repository: this is what snf_agent.py, chi_txn.py and the   *)
(* README's known issues say of it, with every choice of timing left open. *)
(*                                                                         *)
(*  - A write, or a read whose line is held in the pool, takes a pool      *)
(*    slot when it is admitted; any other read bypasses the pool.          *)
(*  - The slot is the lowest free one.  With SlotIndexed the DUT instead   *)
(*    uses slot txn_id[4:0], the first of the two RTL changes README.md    *)
(*    (known issue 1) asks for.                                            *)
(*  - RXDAT finds its entry by slot = txn_id[4:0]; data for a slot that    *)
(*    holds no waiting write is lost.                                      *)
(*  - A request with AllowRetry=1 may be rejected: RetryAck, and later one *)
(*    PCrdGrant.  MaxRetry bounds the rejections of one transaction.       *)
(*  - An entry is handed back up to MaxDrain cycles after its last answer. *)
(*  - TXRSP carries one flit per clock cycle.                              *)
(***************************************************************************)
EXTENDS SnfAgent, FiniteSets

CONSTANTS SlotIndexed, MaxRetry, MaxDrain

ASSUME DutAssumption ==
    /\ SlotIndexed \in BOOLEAN
    /\ MaxRetry \in Nat
    /\ MaxDrain \in 0 .. ReleaseMargin

DutEntries == [st : {"admitted", "granted", "rejected", "drain"},
               txn : Txns, slot : PoolIds \cup {None}, ewa : BOOLEAN,
               left : Nat,      \* CompData beats to send
               data : SUBSET (Txns \X {DATA_ID_LOW, DATA_ID_HIGH}),
               drain : Nat]     \* cycles until the entry is handed back

ASSUME NoneIsNoEntry == None \notin DutEntries /\ None \notin PoolIds

VARIABLES
    dut,        \* wire id -> entry, or None
    owed,       \* PCrdGrants owed for RetryAcks sent
    rsp_busy    \* a TXRSP flit went out in this cycle

dutVars == <<dut, owed, rsp_busy>>

DutInit ==
    /\ dut = [w \in WireIds |-> None]
    /\ owed = 0
    /\ rsp_busy = FALSE

(***************************************************************************)
(* Slots in use, and the slots admission may give to transaction t on wire *)
(* id w (None: it bypasses the pool).                                      *)
(***************************************************************************)
Pooled == {v \in WireIds : dut[v] # None /\ dut[v].slot # None}
UsedSlots == {dut[v].slot : v \in Pooled}

DutDependent(t) == \E v \in Pooled : req[dut[v].txn].line = req[t].line

NeedsSlot(t) == req[t].op = "write" \/ DutDependent(t)

SlotsFor(t, w) ==
    IF ~NeedsSlot(t) THEN {None}
    ELSE IF SlotIndexed THEN {s \in PoolIds \ UsedSlots : s = w % PoolSlots}
    ELSE {s \in PoolIds \ UsedSlots : \A u \in PoolIds \ UsedSlots : s <= u}

required_data_ids(r) ==
    IF size_bytes(r) = LINE_BYTES THEN {DATA_ID_LOW, DATA_ID_HIGH}
    ELSE {IF r.half = 1 THEN DATA_ID_HIGH ELSE DATA_ID_LOW}

Entry(f, st, s) ==
    [st |-> st, txn |-> f.txn, slot |-> s, ewa |-> f.ewa,
     left |-> read_beats(req[f.txn]), data |-> {}, drain |-> 0]

(***************************************************************************)
(* The link delivers the flit at the head of the queue.                    *)
(***************************************************************************)
Admit(f) ==
    /\ f.ch = "req"
    /\ \E s \in SlotsFor(f.txn, f.wire) :
          dut' = [dut EXCEPT ![f.wire] = Entry(f, "admitted", s)]

Reject(f) ==
    /\ f.ch = "req"
    /\ f.allow_retry
    /\ retried[f.txn] < MaxRetry
    /\ dut' = [dut EXCEPT ![f.wire] = Entry(f, "rejected", None)]

Receiver(f, v) ==
    /\ v \in Pooled
    /\ dut[v].slot = f.wire
    /\ req[dut[v].txn].op = "write"
    /\ dut[v].st \in {"admitted", "granted"}

Receive(f) ==
    /\ f.ch = "dat"
    /\ \/ /\ \A v \in WireIds : ~Receiver(f, v)
          /\ UNCHANGED dut
       \/ \E v \in WireIds :
            /\ Receiver(f, v)
            /\ dut' = [dut EXCEPT ![v].data = @ \cup {<<f.txn, f.data_id>>}]

(***************************************************************************)
(* Handing an entry back d cycles after its last answer, and the effect of *)
(* one clock cycle on the entries that drain.                              *)
(***************************************************************************)
HandBack(e, d) == IF d = 0 THEN None ELSE [e EXCEPT !.st = "drain", !.drain = d]

Ticked(e) == IF e = None THEN None
             ELSE IF e.st # "drain" THEN e ELSE HandBack(e, e.drain - 1)

DutTypeOK ==
    /\ dut \in [WireIds -> DutEntries \cup {None}]
    /\ owed \in Nat
    /\ rsp_busy \in BOOLEAN
===============================================================================
