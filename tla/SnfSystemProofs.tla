---------------------------- MODULE SnfSystemProofs ---------------------------
(***************************************************************************)
(* Theorems about SnfSystem, for every set of transactions and requests,   *)
(* every pool size, read-id range, margin, drain and number of retries,    *)
(* and for both slot disciplines of the DUT.                               *)
(***************************************************************************)
EXTENDS SnfSystem, SequenceTheorems, TLAPS

(***************************************************************************)
(* The constants of bytes and beats: a wire read has a whole number of     *)
(* beats, whatever its size.                                               *)
(***************************************************************************)
LEMMA ReadBeatsNat ==
    ASSUME NEW r \in Requests
    PROVE  read_beats(r) \in Nat
<1>1. r.size \in Nat
  BY RequestsAssumption
<1> DEFINE b == size_bytes(r)
<1>2. b \in Nat
  BY <1>1 DEF size_bytes, LINE_BYTES
<1> HIDE DEF b
<1>3. b \div 32 \in Nat
  BY <1>2
<1> QED
  BY <1>3 DEF read_beats, DAT_BEAT_BYTES, b

(***************************************************************************)
(* Popping the first k entries of the release FIFO leaves a sequence.      *)
(***************************************************************************)
LEMMA MapperCycleType ==
    ASSUME MapperTypeOK, mapper_on_cycle
    PROVE  MapperTypeOK'
<1> USE MapperAssumption
<1>1. PICK k \in 0 .. Len(pending_release) :
        /\ pending_release' = [i \in 1 .. Len(pending_release) - k |->
                                  Elapsed(pending_release[i + k])]
        /\ records' = [w \in WireIds |->
                          IF \E i \in 1 .. k : pending_release[i].wire = w
                            THEN None ELSE records[w]]
        /\ next_read_id' = next_read_id
  BY DEF mapper_on_cycle
<1>2. Len(pending_release) \in Nat /\ pending_release \in Seq(Releases)
  BY LenProperties DEF MapperTypeOK
<1>3. \A i \in 1 .. Len(pending_release) - k :
        Elapsed(pending_release[i + k]) \in Releases
  <2> SUFFICES ASSUME NEW i \in 1 .. Len(pending_release) - k
               PROVE  Elapsed(pending_release[i + k]) \in Releases
    OBVIOUS
  <2>1. i + k \in 1 .. Len(pending_release)
    BY <1>2
  <2>2. pending_release[i + k] \in Releases
    BY <1>2, <2>1, ElementOfSeq
  <2> QED
    BY <2>2 DEF Elapsed, Releases
<1>4. pending_release' \in Seq(Releases)
  <2> DEFINE n == Len(pending_release) - k
  <2>1. n \in Nat
    BY <1>2
  <2>2. pending_release' \in [1 .. n -> Releases]
    BY <1>1, <1>3
  <2> HIDE DEF n
  <2> QED
    BY <2>1, <2>2, SeqDef
<1>5. records' \in [WireIds -> TxnRecords \cup {None}]
  BY <1>1 DEF MapperTypeOK
<1> QED
  BY <1>1, <1>4, <1>5 DEF MapperTypeOK

(***************************************************************************)
(* What the handlers the steps share do to the types.                      *)
(***************************************************************************)
LEMMA ReleaseType ==
    ASSUME MapperTypeOK, NEW w \in WireIds, NEW m \in Nat, release(w, m)
    PROVE  pending_release' \in Seq(Releases)
<1>1. [due |-> m, wire |-> w] \in Releases
  BY DEF Releases
<1> QED
  BY <1>1, AppendProperties DEF release, MapperTypeOK

(***************************************************************************)
(* expect_read and expect_write start an entry of the checker in a phase   *)
(* that exists for every opcode.                                           *)
(***************************************************************************)
LEMMA ExpectType ==
    ASSUME HnfTypeOK, NEW t \in Txns, expect(t)
    PROVE  HnfTypeOK'
<1>1. req[t].op \in {"read", "write", "other"}
  BY RequestsAssumption DEF HnfTypeOK
<1> QED
  BY <1>1 DEF expect, HnfTypeOK, HnfEntries, Phases

(***************************************************************************)
(* Whatever RSP flit reaches on_rsp, the checker's entry stays an entry.   *)
(***************************************************************************)
LEMMA OnRspType ==
    ASSUME HnfTypeOK, NEW t \in Txns, NEW dbid \in Nat,
           NEW opcode \in {"DBIDResp", "CompDBIDResp", "Comp"},
           on_rsp(t, opcode, dbid)
    PROVE  HnfTypeOK'
<1>1. hnf[t] \in HnfEntries
  BY DEF HnfTypeOK
<1>2. AfterRsp(hnf[t], opcode, dbid) \in HnfEntries
  <2>1. CASE opcode = "DBIDResp"
    BY <1>1, <2>1 DEF AfterRsp, HnfEntries, Phases
  <2>2. CASE opcode = "CompDBIDResp"
    <3>1. AfterRsp(hnf[t], opcode, dbid) =
            [hnf[t] EXCEPT !.dbid = dbid, !.phase = "done", !.completed = @ + 1]
      BY <2>2 DEF AfterRsp
    <3>2. hnf[t].completed + 1 \in Nat
      BY <1>1 DEF HnfEntries
    <3> QED
      BY <1>1, <3>1, <3>2 DEF HnfEntries, Phases
  <2>3. CASE opcode = "Comp"
    BY <1>1, <2>3 DEF AfterRsp, HnfEntries, Phases
  <2> QED
    BY <2>1, <2>2, <2>3
<1> QED
  BY <1>2 DEF on_rsp, HnfTypeOK

(***************************************************************************)
(* The same for a CompData beat and on_dat.                                *)
(***************************************************************************)
LEMMA OnDatType ==
    ASSUME HnfTypeOK, NEW t \in Txns, NEW dataid, NEW last \in BOOLEAN,
           NEW resp_err, on_dat(t, dataid, last, resp_err)
    PROVE  HnfTypeOK'
<1>1. hnf[t] \in HnfEntries
  BY DEF HnfTypeOK
<1>2. [hnf[t] EXCEPT !.beats = @ + 1,
                     !.completed = IF last THEN @ + 1 ELSE @] \in HnfEntries
  <2>1. hnf[t].beats + 1 \in Nat /\ (IF last THEN hnf[t].completed + 1
                                            ELSE hnf[t].completed) \in Nat
    BY <1>1 DEF HnfEntries
  <2> QED
    BY <1>1, <2>1 DEF HnfEntries
<1>3. CASE ~failed /\ DatAccepted(hnf[t], req[t], dataid, last, resp_err)
  <2>1. hnf' = [hnf EXCEPT ![t] =
                  [hnf[t] EXCEPT !.beats = @ + 1,
                                 !.completed = IF last THEN @ + 1 ELSE @]]
    BY <1>1, <1>3 DEF on_dat, HnfTypeOK, HnfEntries
  <2> QED
    BY <1>2, <1>3, <2>1 DEF on_dat, HnfTypeOK
<1>4. CASE ~(~failed /\ DatAccepted(hnf[t], req[t], dataid, last, resp_err))
  BY <1>4 DEF on_dat, HnfTypeOK
<1> QED
  BY <1>3, <1>4

(***************************************************************************)
(* alloc inserts a record and keeps the next read id in the read range:    *)
(* the wrap of the id counter never leaves it.                             *)
(***************************************************************************)
LEMMA AllocType ==
    ASSUME MapperTypeOK, NEW t \in Txns, NEW w \in WireIds,
           NEW a \in Nat, NEW b \in Int, alloc(t, w, a, b)
    PROVE  MapperTypeOK'
<1>1. records' \in [WireIds -> TxnRecords \cup {None}]
  BY DEF alloc, MapperTypeOK, TxnRecords
<1>2. next_read_id' \in ReadIds
  BY MapperAssumption DEF alloc, read_id_after, MapperTypeOK, ReadIds, READ_ID_BASE
<1> QED
  BY <1>1, <1>2 DEF alloc, MapperTypeOK

(***************************************************************************)
(* _split_write_data produces DAT flits for the wire id it is given.       *)
(***************************************************************************)
LEMMA SplitType ==
    ASSUME NEW w \in WireIds, NEW t \in Txns
    PROVE  split_write_data(w, t) \in Seq(Flits)
<1>1. \A id \in {DATA_ID_LOW, DATA_ID_HIGH} : DataBeat(w, t, id) \in Flits
  BY DEF DataBeat, Flits, DatFlits
<1> QED
  BY <1>1 DEF split_write_data, short_data_id

(***************************************************************************)
(* A request that reaches the DUT makes an entry.                          *)
(***************************************************************************)
LEMMA EntryType ==
    ASSUME HnfTypeOK, NEW f \in ReqFlits,
           NEW st \in {"admitted", "rejected"}, NEW s \in PoolIds \cup {None}
    PROVE  Entry(f, st, s) \in DutEntries
<1>1. read_beats(req[f.txn]) \in Nat
  BY ReadBeatsNat DEF HnfTypeOK, ReqFlits
<1>2. f.txn \in Txns /\ f.ewa \in BOOLEAN
  BY DEF ReqFlits
<1> QED
  BY <1>1, <1>2 DEF Entry, DutEntries

(***************************************************************************)
(* A draining entry has at least one cycle to go, so that the clock cycle  *)
(* that counts it down keeps its type.                                     *)
(***************************************************************************)
DrainPositive ==
    \A w \in WireIds :
        dut[w] # None /\ dut[w].st = "drain" => dut[w].drain > 0

TypeInv == TypeOK /\ DrainPositive

(***************************************************************************)
(* An entry handed back is gone or drains for a positive number of cycles. *)
(***************************************************************************)
LEMMA HandBackPositive ==
    ASSUME NEW e \in DutEntries, NEW d \in Nat
    PROVE  /\ HandBack(e, d) \in DutEntries \cup {None}
           /\ HandBack(e, d) # None =>
                 HandBack(e, d).st = "drain" /\ HandBack(e, d).drain > 0
<1>1. CASE d = 0
  BY <1>1 DEF HandBack
<1>2. CASE d # 0
  <2>1. HandBack(e, d) = [e EXCEPT !.st = "drain", !.drain = d]
    BY <1>2 DEF HandBack
  <2>2. [e EXCEPT !.st = "drain", !.drain = d] \in DutEntries
    BY DEF DutEntries
  <2>3. /\ [e EXCEPT !.st = "drain", !.drain = d].st = "drain"
        /\ [e EXCEPT !.st = "drain", !.drain = d].drain = d
    BY DEF DutEntries
  <2> QED
    BY <1>2, <2>1, <2>2, <2>3
<1> QED
  BY <1>1, <1>2

(***************************************************************************)
(* on_txrsp keeps the types of the mapper, the agent and the checker, for  *)
(* a known and for an unknown slot.                                        *)
(***************************************************************************)
LEMMA OnTxrspType ==
    ASSUME HnfTypeOK, AgentTypeOK, NEW w \in WireIds,
           NEW opcode \in {"DBIDResp", "CompDBIDResp", "Comp"},
           on_txrsp(w, opcode)
    PROVE  HnfTypeOK' /\ AgentTypeOK'
<1>1. CASE records[w] = None
  BY <1>1 DEF on_txrsp, mapperVars, hnfVars, agentVars, HnfTypeOK, AgentTypeOK,
              MapperTypeOK
<1>2. CASE records[w] # None
  <2> DEFINE dbid == IF opcode = "Comp" THEN records[w].fwd_dbid ELSE w + 1
             r == [records[w] EXCEPT !.fwd_dbid = dbid]
  <2>1. records[w] \in TxnRecords /\ records[w].txn \in Txns
    BY <1>2 DEF AgentTypeOK, MapperTypeOK, TxnRecords
  <2>2. dbid \in Nat
    BY <2>1, MapperAssumption
       DEF TxnRecords, WireIds, PoolIds, ReadIds, READ_ID_BASE
  <2>3. /\ records' = [records EXCEPT ![w] = r]
        /\ on_rsp(records[w].txn, opcode, dbid)
        /\ release(w, ReleaseMargin) \/ pending_release' = pending_release
        /\ next_read_id' = next_read_id
    BY <1>2 DEF on_txrsp, forwarded_dbid
  <2> HIDE DEF dbid
  <2>4. r \in TxnRecords
    BY <2>1, <2>2 DEF TxnRecords
  <2> HIDE DEF r
  <2>5. HnfTypeOK'
    BY <2>1, <2>2, <2>3, OnRspType
  <2>6. pending_release' \in Seq(Releases)
    BY <2>3, ReleaseType, MapperAssumption DEF AgentTypeOK, MapperTypeOK
  <2>7. MapperTypeOK'
    BY <2>3, <2>4, <2>6 DEF AgentTypeOK, MapperTypeOK
  <2> QED
    BY <2>5, <2>7 DEF on_txrsp, agentVars, AgentTypeOK
<1> QED
  BY <1>1, <1>2

(***************************************************************************)
(* on_txdat does, too: beats_left may fall below zero, and is an integer.  *)
(***************************************************************************)
LEMMA OnTxdatType ==
    ASSUME HnfTypeOK, AgentTypeOK, NEW w \in WireIds, on_txdat(w)
    PROVE  HnfTypeOK' /\ AgentTypeOK'
<1>1. CASE records[w] = None \/ req[records[w].txn].op # "read"
  BY <1>1 DEF on_txdat, mapperVars, hnfVars, agentVars, HnfTypeOK, AgentTypeOK,
              MapperTypeOK
<1>2. CASE ~(records[w] = None \/ req[records[w].txn].op # "read")
  <2> DEFINE r == [records[w] EXCEPT !.beats_left = @ - 1, !.next_dataid = @ + 1]
             last == records[w].beats_left - 1 <= 0
  <2>1. records[w] \in TxnRecords /\ records[w].txn \in Txns
    BY <1>2 DEF AgentTypeOK, MapperTypeOK, TxnRecords
  <2>2. /\ records' = [records EXCEPT ![w] = r]
        /\ on_dat(records[w].txn, records[w].next_dataid, last, {0})
        /\ release(w, ReleaseMargin) \/ pending_release' = pending_release
        /\ next_read_id' = next_read_id
    BY <1>2, <2>1 DEF on_txdat, last_beat, AgentTypeOK, MapperTypeOK
  <2>3. records[w].beats_left - 1 \in Int /\ records[w].next_dataid + 1 \in Nat
    BY <2>1 DEF TxnRecords
  <2>4. r \in TxnRecords
    BY <2>1, <2>3 DEF TxnRecords
  <2>5. last \in BOOLEAN
    OBVIOUS
  <2> HIDE DEF r, last
  <2>6. HnfTypeOK'
    BY <2>1, <2>2, <2>5, OnDatType
  <2>7. pending_release' \in Seq(Releases)
    BY <2>2, ReleaseType, MapperAssumption DEF AgentTypeOK, MapperTypeOK
  <2>8. MapperTypeOK'
    BY <2>2, <2>4, <2>7 DEF AgentTypeOK, MapperTypeOK
  <2> QED
    BY <2>6, <2>8 DEF on_txdat, agentVars, AgentTypeOK
<1> QED
  BY <1>1, <1>2

(***************************************************************************)
(* The types hold when the run starts.                                     *)
(***************************************************************************)
LEMMA TypeInit == Init => TypeInv
<1> SUFFICES ASSUME Init PROVE TypeInv
  OBVIOUS
<1> USE DEF Init
<1>1. HnfTypeOK
  BY DEF HnfInit, HnfTypeOK, HnfEntries, Phases
<1>2. MapperTypeOK
  BY MapperAssumption
     DEF AgentInit, MapperInit, MapperTypeOK, ReadIds, READ_ID_BASE
<1>3. AgentTypeOK
  <2>1. /\ << >> \in Seq(Txns) /\ << >> \in Seq(Flits)
        /\ retried \in [Txns -> Nat]
    BY EmptySeq DEF AgentInit
  <2> QED
    BY <1>2, <2>1 DEF AgentInit, AgentTypeOK
<1>4. DutTypeOK /\ DrainPositive
  BY DEF DutInit, DutTypeOK, DrainPositive
<1> QED
  BY <1>1, <1>3, <1>4 DEF TypeInv, TypeOK

(***************************************************************************)
(* Every step keeps the types, one case per handler.                       *)
(***************************************************************************)
LEMMA TypeStep == TypeInv /\ [Next]_vars => TypeInv'
<1> SUFFICES ASSUME TypeInv, [Next]_vars PROVE TypeInv'
  OBVIOUS
<1>a. /\ HnfTypeOK /\ AgentTypeOK /\ MapperTypeOK /\ DutTypeOK
      /\ DrainPositive
  BY DEF TypeInv, TypeOK, AgentTypeOK
<1>b. /\ pending_reqs # << >> => Head(pending_reqs) \in Txns
      /\ pending_reqs # << >> => Tail(pending_reqs) \in Seq(Txns)
      /\ retrying # << >> => Head(retrying) \in Txns
      /\ retrying # << >> => Tail(retrying) \in Seq(Txns)
      /\ txn_queue # << >> => Head(txn_queue) \in Flits
      /\ txn_queue # << >> => Tail(txn_queue) \in Seq(Flits)
  BY <1>a, HeadTailProperties DEF AgentTypeOK
<1>c. \A w \in WireIds :
         /\ records[w] # None => records[w] \in TxnRecords
         /\ dut[w] # None => dut[w] \in DutEntries
  BY <1>a DEF MapperTypeOK, DutTypeOK
<1>d. HeadConsumable' \in BOOLEAN
  BY DEF HeadConsumable
<1>1. ASSUME NEW t \in Txns, Gem5Req(t)
      PROVE  TypeInv'
  <2>1. HnfTypeOK'
    BY <1>a, <1>1, ExpectType DEF Gem5Req, handle_gem5_req
  <2>2. pending_reqs' \in Seq(Txns)
    BY <1>a, <1>1, AppendProperties DEF Gem5Req, handle_gem5_req, AgentTypeOK
  <2>3. AgentTypeOK'
    BY <1>a, <1>1, <1>d, <2>2
       DEF Gem5Req, handle_gem5_req, AgentTypeOK, MapperTypeOK, mapperVars,
           retry_pending
  <2>4. DutTypeOK' /\ DrainPositive'
    BY <1>a, <1>1 DEF Gem5Req, dutVars, DutTypeOK, DrainPositive
  <2> QED
    BY <2>1, <2>3, <2>4 DEF TypeInv, TypeOK
<1>2. ASSUME NEW t \in Txns, Gem5Dat(t)
      PROVE  TypeInv'
  <2>1. HnfTypeOK'
    <3>1. [hnf[t] EXCEPT !.phase = "wait_comp"] \in HnfEntries
      BY <1>a DEF HnfTypeOK, HnfEntries, Phases
    <3> QED
      BY <1>a, <1>2, <3>1
         DEF Gem5Dat, handle_gem5_dat, send_write_data, HnfTypeOK
  <2>2. txn_queue' \in Seq(Flits)
    BY <1>a, <1>2, SplitType, ConcatProperties
       DEF Gem5Dat, handle_gem5_dat, AgentTypeOK
  <2>3. AgentTypeOK'
    BY <1>a, <1>2, <2>2
       DEF Gem5Dat, handle_gem5_dat, AgentTypeOK, MapperTypeOK, mapperVars
  <2>4. DutTypeOK' /\ DrainPositive'
    BY <1>a, <1>2 DEF Gem5Dat, dutVars, DutTypeOK, DrainPositive
  <2> QED
    BY <2>1, <2>3, <2>4 DEF TypeInv, TypeOK

<1>3. CASE RetryPending
  <2>1. HnfTypeOK' /\ DutTypeOK' /\ DrainPositive'
    BY <1>a, <1>3
       DEF RetryPending, drop_req, issue_req, hnfVars, HnfTypeOK, dutVars,
           DutTypeOK, DrainPositive
  <2>2. CASE drop_req
    BY <1>a, <1>b, <1>d, <2>1, <2>2
       DEF drop_req, consume_head, AgentTypeOK, MapperTypeOK, mapperVars, retry_pending,
           TypeInv, TypeOK
  <2>3. CASE issue_req
    <3>1. PICK w \in WireIds :
            /\ alloc(Head(pending_reqs), w, retried[Head(pending_reqs)],
                     read_beats(req[Head(pending_reqs)]))
            /\ txn_queue' = Append(txn_queue,
                 [ch |-> "req", wire |-> w, txn |-> Head(pending_reqs),
                  ewa |-> FALSE, allow_retry |-> TRUE])
      BY <2>3 DEF issue_req
    <3>2. /\ retried[Head(pending_reqs)] \in Nat
          /\ read_beats(req[Head(pending_reqs)]) \in Int
      BY <1>a, <1>b, <2>3, ReadBeatsNat DEF issue_req, HnfTypeOK, AgentTypeOK
    <3>3. MapperTypeOK'
      BY <1>a, <1>b, <2>3, <3>1, <3>2, AllocType DEF issue_req
    <3>4. [ch |-> "req", wire |-> w, txn |-> Head(pending_reqs),
           ewa |-> FALSE, allow_retry |-> TRUE] \in Flits
      BY <1>b, <2>3 DEF issue_req, Flits, ReqFlits
    <3>5. txn_queue' \in Seq(Flits)
      BY <1>a, <3>1, <3>4, AppendProperties DEF AgentTypeOK
    <3> QED
      BY <1>a, <1>b, <1>d, <2>1, <2>3, <3>3, <3>5
         DEF issue_req, consume_head, AgentTypeOK, retry_pending, TypeInv, TypeOK
  <2> QED
    BY <1>3, <2>2, <2>3 DEF RetryPending
<1>4. CASE Deliver
  <2>1. HnfTypeOK' /\ AgentTypeOK'
    BY <1>a, <1>b, <1>4
       DEF Deliver, hnfVars, mapperVars, HnfTypeOK, AgentTypeOK, MapperTypeOK
  <2> DEFINE f == Head(txn_queue)
  <2>2. f \in Flits
    BY <1>b, <1>4 DEF Deliver
  <2>3. CASE Admit(f) \/ Reject(f)
    <3>1. f \in ReqFlits
      BY <2>2, <2>3 DEF Admit, Reject, Flits, DatFlits
    <3>2. \A x, w : x \in SlotsFor(f.txn, w) => x \in PoolIds \cup {None}
      BY DEF SlotsFor
    <3>3. PICK st \in {"admitted", "rejected"}, x \in PoolIds \cup {None} :
            dut' = [dut EXCEPT ![f.wire] = Entry(f, st, x)]
      BY <2>3, <3>2 DEF Admit, Reject
    <3>4. Entry(f, st, x) \in DutEntries /\ Entry(f, st, x).st = st
      BY <1>a, <3>1, EntryType DEF Entry
    <3>5. DutTypeOK'
      BY <1>a, <1>4, <3>3, <3>4 DEF Deliver, DutTypeOK
    <3>6. DrainPositive'
      BY <1>a, <3>3, <3>4 DEF DutTypeOK, DrainPositive
    <3> QED
      BY <2>1, <3>5, <3>6 DEF TypeInv, TypeOK
  <2>4. CASE Receive(f)
    <3>1. CASE dut' = dut
      BY <1>a, <1>4, <2>1, <3>1
         DEF Deliver, DutTypeOK, DrainPositive, TypeInv, TypeOK
    <3>2. ASSUME NEW v \in WireIds, Receiver(f, v), f.ch = "dat",
                 dut' = [dut EXCEPT ![v].data = @ \cup {<<f.txn, f.data_id>>}]
          PROVE  TypeInv'
      <4>1. f \in DatFlits
        BY <2>2, <3>2 DEF Flits, ReqFlits
      <4>2. dut[v] \in DutEntries
        BY <1>c, <3>2 DEF Receiver, Pooled
      <4> DEFINE e == [dut[v] EXCEPT !.data = @ \cup {<<f.txn, f.data_id>>}]
      <4>3. <<f.txn, f.data_id>> \in Txns \X {DATA_ID_LOW, DATA_ID_HIGH}
        BY <4>1 DEF DatFlits
      <4>4. e \in DutEntries
        BY <4>2, <4>3 DEF DutEntries
      <4>5. e.st = dut[v].st /\ e.drain = dut[v].drain
        BY <4>2 DEF DutEntries
      <4>6. dut' = [dut EXCEPT ![v] = e]
        BY <3>2
      <4> HIDE DEF e
      <4>7. DutTypeOK'
        BY <1>a, <1>4, <4>4, <4>6 DEF Deliver, DutTypeOK
      <4>8. DrainPositive'
        BY <1>a, <4>2, <4>5, <4>6, NoneIsNoEntry DEF DutTypeOK, DrainPositive
      <4> QED
        BY <2>1, <4>7, <4>8 DEF TypeInv, TypeOK
    <3> QED
      BY <2>4, <3>1, <3>2 DEF Receive
  <2> QED
    BY <1>4, <2>3, <2>4 DEF Deliver
<1>5. CASE Cycle
  <2>1. HnfTypeOK'
    BY <1>a, <1>5 DEF Cycle, on_cycle, hnfVars, HnfTypeOK
  <2>2. AgentTypeOK'
    BY <1>a, <1>5, <1>d, MapperCycleType
       DEF Cycle, on_cycle, retry_pending, AgentTypeOK
  <2>3. \A w \in WireIds :
          /\ Ticked(dut[w]) \in DutEntries \cup {None}
          /\ Ticked(dut[w]) # None /\ Ticked(dut[w]).st = "drain" =>
                Ticked(dut[w]).drain > 0
    <3> SUFFICES ASSUME NEW w \in WireIds
                 PROVE  /\ Ticked(dut[w]) \in DutEntries \cup {None}
                        /\ Ticked(dut[w]) # None /\ Ticked(dut[w]).st = "drain" =>
                              Ticked(dut[w]).drain > 0
      OBVIOUS
    <3>1. CASE dut[w] = None \/ dut[w].st # "drain"
      BY <1>c, <3>1 DEF Ticked
    <3>2. CASE dut[w] # None /\ dut[w].st = "drain"
      <4>1. dut[w] \in DutEntries /\ dut[w].drain \in Nat /\ dut[w].drain > 0
        BY <1>a, <1>c, <3>2 DEF DrainPositive, DutEntries
      <4>2. Ticked(dut[w]) = HandBack(dut[w], dut[w].drain - 1)
        BY <3>2 DEF Ticked
      <4>3. dut[w].drain - 1 \in Nat
        BY <4>1
      <4> QED
        BY <4>1, <4>2, <4>3, HandBackPositive
    <3> QED
      BY <3>1, <3>2
  <2>4. DutTypeOK' /\ DrainPositive'
    BY <1>a, <1>5, <2>3 DEF Cycle, DutTypeOK, DrainPositive
  <2> QED
    BY <2>1, <2>2, <2>4 DEF TypeInv, TypeOK
<1>6. CASE DutPCrdGrant
  <2>1. HnfTypeOK' /\ DutTypeOK' /\ DrainPositive'
    BY <1>a, <1>6
       DEF DutPCrdGrant, TxRsp, on_pcrdgrant, hnfVars, HnfTypeOK, DutTypeOK,
           DrainPositive
  <2>2. pending_reqs' \in Seq(Txns) /\ retrying' \in Seq(Txns)
    <3>1. CASE retrying = << >>
      BY <1>a, <1>6, <3>1 DEF DutPCrdGrant, on_pcrdgrant, AgentTypeOK
    <3>2. CASE retrying # << >>
      <4>1. /\ retrying' = Tail(retrying)
            /\ pending_reqs' = Append(pending_reqs, Head(retrying))
        BY <1>6, <3>2 DEF DutPCrdGrant, on_pcrdgrant, reissue
      <4> QED
        BY <1>a, <1>b, <3>2, <4>1, AppendProperties DEF AgentTypeOK
    <3> QED
      BY <3>1, <3>2
  <2>3. AgentTypeOK'
    BY <1>a, <1>6, <1>d, <2>2
       DEF DutPCrdGrant, on_pcrdgrant, reissue, AgentTypeOK, MapperTypeOK, mapperVars,
           retry_pending
  <2> QED
    BY <2>1, <2>3 DEF TypeInv, TypeOK
<1>7. ASSUME NEW w \in WireIds, DutRetryAck(w)
      PROVE  TypeInv'
  <2>1. HnfTypeOK'
    BY <1>a, <1>7 DEF DutRetryAck, on_retryack, hnfVars, HnfTypeOK
  <2>2. DutTypeOK' /\ DrainPositive'
    BY <1>a, <1>7 DEF DutRetryAck, TxRsp, DutTypeOK, DrainPositive
  <2>3. CASE records[w] = None
    BY <1>a, <1>7, <2>1, <2>2, <2>3
       DEF DutRetryAck, on_retryack, AgentTypeOK, MapperTypeOK, TypeInv, TypeOK
  <2>4. CASE records[w] # None
    <3>1. records[w].txn \in Txns
      BY <1>c, <2>4 DEF TxnRecords
    <3>2. pending_release' \in Seq(Releases)
      <4>1. release(w, 0)
        BY <1>7, <2>4 DEF DutRetryAck, on_retryack
      <4> QED
        BY <1>a, <4>1, ReleaseType
    <3>3. retrying' \in Seq(Txns) /\ retried' \in [Txns -> Nat]
      <4>1. /\ retrying' = Append(retrying, records[w].txn)
            /\ retried' = [retried EXCEPT ![records[w].txn] = @ + 1]
        BY <1>7, <2>4 DEF DutRetryAck, on_retryack
      <4> QED
        BY <1>a, <3>1, <4>1, AppendProperties DEF AgentTypeOK
    <3> QED
      BY <1>a, <1>7, <2>1, <2>2, <3>2, <3>3
         DEF DutRetryAck, on_retryack, AgentTypeOK, MapperTypeOK, TypeInv, TypeOK
  <2> QED
    BY <2>3, <2>4

<1>8. ASSUME NEW w \in WireIds, DutDBIDResp(w)
      PROVE  TypeInv'
  <2>1. dut[w] \in DutEntries
    BY <1>c, <1>8 DEF DutDBIDResp
  <2>2. HnfTypeOK' /\ AgentTypeOK'
    BY <1>a, <1>8, OnTxrspType DEF DutDBIDResp
  <2> DEFINE e == [dut[w] EXCEPT !.st = "granted"]
  <2>3. e \in DutEntries /\ e.st = "granted"
    BY <2>1 DEF DutEntries
  <2>4. dut' = [dut EXCEPT ![w] = e] /\ owed' = owed /\ rsp_busy' = TRUE
    BY <1>8 DEF DutDBIDResp, TxRsp
  <2> HIDE DEF e
  <2>5. DutTypeOK' /\ DrainPositive'
    BY <1>a, <2>3, <2>4 DEF DutTypeOK, DrainPositive
  <2> QED
    BY <2>2, <2>5 DEF TypeInv, TypeOK
<1>9. ASSUME NEW w \in WireIds, NEW d \in 0 .. MaxDrain, dut[w] # None,
             dut' = [dut EXCEPT ![w] = HandBack(@, d)],
             owed' = owed, rsp_busy' \in BOOLEAN
      PROVE  DutTypeOK' /\ DrainPositive'
  <2>1. d \in Nat
    BY DutAssumption
  <2>2. dut[w] \in DutEntries
    BY <1>c, <1>9
  <2> DEFINE e == HandBack(dut[w], d)
  <2>3. e \in DutEntries \cup {None} /\ (e # None => e.drain > 0)
    BY <2>1, <2>2, HandBackPositive
  <2>4. dut' = [dut EXCEPT ![w] = e]
    BY <1>9
  <2> HIDE DEF e
  <2> QED
    BY <1>a, <1>9, <2>3, <2>4 DEF DutTypeOK, DrainPositive
<1>10. ASSUME NEW w \in WireIds, DutComp(w)
       PROVE  TypeInv'
  <2>1. HnfTypeOK' /\ AgentTypeOK'
    BY <1>a, <1>10, OnTxrspType DEF DutComp
  <2>2. DutTypeOK' /\ DrainPositive'
    BY <1>9, <1>10 DEF DutComp, TxRsp
  <2> QED
    BY <2>1, <2>2 DEF TypeInv, TypeOK
<1>11. ASSUME NEW w \in WireIds, DutCompData(w)
       PROVE  TypeInv'
  <2>1. HnfTypeOK' /\ AgentTypeOK'
    BY <1>a, <1>11, OnTxdatType DEF DutCompData
  <2>2. dut[w] # None /\ dut[w] \in DutEntries /\ dut[w].st = "admitted"
    BY <1>c, <1>11 DEF DutCompData
  <2>3. CASE dut[w].left > 1 /\ dut' = [dut EXCEPT ![w].left = @ - 1]
    <3> DEFINE e == [dut[w] EXCEPT !.left = @ - 1]
    <3>1. dut[w].left - 1 \in Nat
      BY <2>2, <2>3 DEF DutEntries
    <3>2. e \in DutEntries /\ e.st = "admitted"
      BY <2>2, <3>1 DEF DutEntries
    <3>3. dut' = [dut EXCEPT ![w] = e] /\ owed' = owed /\ rsp_busy' = rsp_busy
      BY <1>11, <2>3 DEF DutCompData
    <3> HIDE DEF e
    <3>4. DutTypeOK' /\ DrainPositive'
      BY <1>a, <3>2, <3>3 DEF DutTypeOK, DrainPositive
    <3> QED
      BY <2>1, <3>4 DEF TypeInv, TypeOK
  <2>4. CASE \E d \in 0 .. MaxDrain : dut' = [dut EXCEPT ![w] = HandBack(@, d)]
    <3>1. owed' = owed /\ rsp_busy' \in BOOLEAN
      BY <1>a, <1>11 DEF DutCompData, DutTypeOK
    <3>2. DutTypeOK' /\ DrainPositive'
      BY <1>9, <2>2, <2>4, <3>1
    <3> QED
      BY <2>1, <3>2 DEF TypeInv, TypeOK
  <2> QED
    BY <1>11, <2>3, <2>4 DEF DutCompData
<1>12. CASE UNCHANGED vars
  BY <1>a, <1>12
     DEF vars, hnfVars, mapperVars, agentVars, dutVars, TypeInv, TypeOK,
         HnfTypeOK, AgentTypeOK, MapperTypeOK, DutTypeOK, DrainPositive
<1> QED
  BY <1>1, <1>2, <1>3, <1>4, <1>5, <1>6, <1>7, <1>8, <1>10, <1>11, <1>12
     DEF Next, DutAnswer

(***************************************************************************)
(* Every variable of the SN-F path keeps its type in every behaviour.      *)
(***************************************************************************)
THEOREM TypeCorrect == Spec => []TypeOK
<1>1. TypeInv => TypeOK
  BY DEF TypeInv
<1> QED
  BY <1>1, TypeInit, TypeStep, PTL DEF Spec

-------------------------------------------------------------------------------
(***************************************************************************)
(* A pool slot is never given out again while the DUT or the link still    *)
(* uses it: SlotHeld is an invariant of SnfSystem.                         *)
(*                                                                         *)
(* SlotHeld is not inductive: that a record survives until the DUT has     *)
(* handed its entry back depends on what waits in the release FIFO.  The   *)
(* strengthening says that a slot in that FIFO is in it once, is not on    *)
(* the link, and is either idle in the DUT or drains before it comes due;  *)
(* that no write was sent with EWA, so Comp is always its last answer; and *)
(* that agent and DUT count the same read beats, so the beat the agent     *)
(* releases the slot on is the DUT's last.                                 *)
(*                                                                         *)
(* The parts are stated for a set I of wire ids.  They are inductive for   *)
(* the pool's ids as they stand, and for all ids as long as alloc finds    *)
(* next_read_id free (ReadIdFree).                                         *)
(***************************************************************************)
HeldByDut(I) ==
    \A w \in I : dut[w] # None => Holds(w, dut[w].txn)

HeldByLink(I) ==
    \A w \in I : \A i \in DOMAIN txn_queue :
        ReqFor(txn_queue[i], w) =>
            /\ Holds(w, txn_queue[i].txn)
            /\ dut[w] = None
            /\ \A k \in DOMAIN pending_release : pending_release[k].wire # w
            /\ \A j \in DOMAIN txn_queue : ReqFor(txn_queue[j], w) => j = i

ReleaseSafe(I) ==
    \A w \in I : \A i \in DOMAIN pending_release :
        pending_release[i].wire = w =>
            /\ records[w] # None
            /\ dut[w] # None =>
                 dut[w].st = "drain" /\ dut[w].drain <= pending_release[i].due
            /\ \A j \in DOMAIN pending_release :
                 pending_release[j].wire = w => j = i

NoEwa ==
    /\ \A i \in DOMAIN txn_queue : txn_queue[i].ch = "req" => ~txn_queue[i].ewa
    /\ \A w \in WireIds : dut[w] # None => ~dut[w].ewa

BeatsAgree(I) ==
    \A w \in I :
        /\ dut[w] # None /\ dut[w].st = "admitted" =>
              records[w].beats_left = dut[w].left
        /\ \A i \in DOMAIN txn_queue :
              ReqFor(txn_queue[i], w) =>
                  records[w].beats_left = read_beats(req[txn_queue[i].txn])

SlotParts(I) == HeldByDut(I) /\ HeldByLink(I) /\ ReleaseSafe(I) /\ NoEwa

SlotInvOn(I) == TypeInv /\ SlotParts(I) /\ BeatsAgree(I)

SlotInv == SlotInvOn(PoolIds)

(***************************************************************************)
(* The invariant implies SlotHeld.                                         *)
(***************************************************************************)
LEMMA SlotInvImplies == SlotInv => SlotHeld
BY DEF SlotInv, SlotInvOn, SlotParts, HeldByDut, HeldByLink, SlotHeld

(***************************************************************************)
(* The invariant holds when the run starts.                                *)
(***************************************************************************)
LEMMA SlotInit == Init => SlotInvOn(WireIds) /\ SlotInv
<1> SUFFICES ASSUME Init, NEW I \in SUBSET WireIds PROVE SlotInvOn(I)
  BY DEF SlotInv, WireIds
<1>1. TypeInv
  BY TypeInit
<1>2. SlotParts(I)
  BY DEF Init, AgentInit, MapperInit, DutInit, SlotParts, HeldByDut,
         HeldByLink, ReleaseSafe, NoEwa
<1>3. BeatsAgree(I)
  BY DEF Init, AgentInit, DutInit, BeatsAgree
<1> QED
  BY <1>1, <1>2, <1>3 DEF SlotInvOn

(***************************************************************************)
(* Steps that touch neither the slots nor what refers to them.             *)
(***************************************************************************)
LEMMA SlotFrame ==
    ASSUME NEW I \in SUBSET WireIds, SlotParts(I), BeatsAgree(I),
           UNCHANGED <<req, records, pending_release, txn_queue, dut>>
    PROVE  SlotParts(I)' /\ BeatsAgree(I)'
<1>1. SlotParts(I)'
  BY DEF SlotParts, HeldByDut, HeldByLink, ReleaseSafe, NoEwa, Holds, ReqFor
<1>2. BeatsAgree(I)'
  BY DEF BeatsAgree, ReqFor, read_beats, size_bytes
<1> QED
  BY <1>1, <1>2

(***************************************************************************)
(* An answer of the DUT about wire id w: the entry becomes e, and w may    *)
(* join the release FIFO with margin m, in which case the entry is gone or *)
(* drains within m cycles.                                                 *)
(***************************************************************************)
LEMMA AnswerStep ==
    ASSUME NEW I \in SUBSET WireIds, TypeInv, SlotParts(I), BeatsAgree(I), req' = req,
           NEW w \in WireIds, NEW m \in Nat, NEW e, NEW r,
           dut[w] # None, dut[w].st # "drain",
           dut' = [dut EXCEPT ![w] = e],
           e # None => e.txn = dut[w].txn /\ e.ewa = dut[w].ewa,
           txn_queue' = txn_queue,
           records' = [records EXCEPT ![w] = r],
           records[w] # None => r # None /\ r.txn = records[w].txn,
           \/ pending_release' = pending_release
           \/ /\ pending_release' =
                   Append(pending_release, [due |-> m, wire |-> w])
              /\ records[w] # None
              /\ w \in I /\ e # None => e.st = "drain" /\ e.drain <= m,
           w \in I /\ e # None /\ e.st = "admitted" => r.beats_left = e.left
    PROVE  SlotParts(I)' /\ BeatsAgree(I)'
<1>a. /\ dut \in [WireIds -> DutEntries \cup {None}]
      /\ records \in [WireIds -> TxnRecords \cup {None}]
      /\ pending_release \in Seq(Releases)
      /\ I \subseteq WireIds
  BY DEF TypeInv, TypeOK, AgentTypeOK, MapperTypeOK, DutTypeOK, WireIds
<1>b. \A v \in WireIds : v # w => dut'[v] = dut[v] /\ records'[v] = records[v]
  BY <1>a
<1>c. dut'[w] = e /\ records'[w] = r
  BY <1>a
<1>d. \A v \in I : \A x : Holds(v, x) => Holds(v, x)'
  BY <1>a, <1>b, <1>c DEF Holds
<1>1. HeldByDut(I)'
  BY <1>a, <1>b, <1>c, <1>d DEF SlotParts, HeldByDut, Holds
<1>2. w \in I => \A i \in DOMAIN txn_queue : ~ReqFor(txn_queue[i], w)
  BY DEF SlotParts, HeldByLink
<1>3. w \in I => \A i \in DOMAIN pending_release : pending_release[i].wire # w
  BY DEF SlotParts, ReleaseSafe
<1>6. BeatsAgree(I)'
  BY <1>2, <1>a, <1>b, <1>c DEF BeatsAgree, ReqFor, read_beats, size_bytes
<1>4. CASE pending_release' = pending_release
  <2>1. HeldByLink(I)'
    BY <1>2, <1>4, <1>a, <1>b, <1>d DEF SlotParts, HeldByLink, ReqFor
  <2>2. ReleaseSafe(I)'
    BY <1>3, <1>4, <1>a, <1>b DEF SlotParts, ReleaseSafe
  <2>3. NoEwa'
    BY <1>b, <1>c DEF SlotParts, NoEwa
  <2> QED
    BY <1>1, <1>6, <2>1, <2>2, <2>3 DEF SlotParts
<1>5. CASE /\ pending_release' = Append(pending_release, [due |-> m, wire |-> w])
           /\ records[w] # None
           /\ w \in I /\ e # None => e.st = "drain" /\ e.drain <= m
  <2> DEFINE n == Len(pending_release)
  <2>1. /\ n \in Nat
        /\ DOMAIN pending_release = 1 .. n
        /\ DOMAIN pending_release' = 1 .. (n + 1)
        /\ \A i \in 1 .. n : pending_release'[i] = pending_release[i]
        /\ pending_release'[n + 1] = [due |-> m, wire |-> w]
    <3>1. [due |-> m, wire |-> w] \in Releases
      BY DEF Releases
    <3> QED
      BY <1>a, <1>5, <3>1, AppendProperties, LenProperties
  <2> HIDE DEF n
  <2>2. /\ pending_release'[n + 1].wire = w
        /\ pending_release'[n + 1].due = m
    BY <2>1
  <2>3. \A i \in 1 .. (n + 1) : i \in 1 .. n \/ i = n + 1
    BY <2>1
  <2>4. HeldByLink(I)'
    BY <1>2, <1>a, <1>b, <1>d, <2>1, <2>2, <2>3 DEF SlotParts, HeldByLink, ReqFor
  <2>5. ReleaseSafe(I)'
    <3> SUFFICES ASSUME NEW v \in I, NEW i \in 1 .. (n + 1),
                        pending_release'[i].wire = v
                 PROVE  /\ records'[v] # None
                        /\ dut'[v] # None =>
                             /\ dut'[v].st = "drain"
                             /\ dut'[v].drain <= pending_release'[i].due
                        /\ \A j \in 1 .. (n + 1) :
                             pending_release'[j].wire = v => j = i
      BY <2>1 DEF ReleaseSafe
    <3>1. CASE v = w
      <4>1. i = n + 1
        BY <1>3, <2>1, <2>3, <3>1
      <4> QED
        BY <1>3, <1>5, <1>c, <2>1, <2>2, <2>3, <3>1, <4>1
    <3>2. CASE v # w
      <4>1. i \in 1 .. n
        BY <2>2, <2>3, <3>2
      <4>2. /\ pending_release'[i] = pending_release[i]
            /\ dut'[v] = dut[v] /\ records'[v] = records[v]
        BY <1>a, <1>b, <2>1, <3>2, <4>1
      <4>3. /\ records[v] # None
            /\ dut[v] # None =>
                 dut[v].st = "drain" /\ dut[v].drain <= pending_release[i].due
            /\ \A j \in 1 .. n : pending_release[j].wire = v => j = i
        BY <2>1, <4>1, <4>2 DEF SlotParts, ReleaseSafe
      <4>4. \A j \in 1 .. (n + 1) : pending_release'[j].wire = v => j = i
        BY <2>1, <2>2, <2>3, <3>2, <4>3
      <4> QED
        BY <4>2, <4>3, <4>4
    <3> QED
      BY <3>1, <3>2
  <2>6. NoEwa'
    BY <1>b, <1>c DEF SlotParts, NoEwa
  <2> QED
    BY <1>1, <1>6, <2>4, <2>5, <2>6 DEF SlotParts
<1> QED
  BY <1>4, <1>5

(***************************************************************************)
(* Write data joins the queue behind whatever is in it; it is no request.  *)
(***************************************************************************)
LEMMA DataStep ==
    ASSUME NEW I \in SUBSET WireIds, TypeInv, SlotParts(I), BeatsAgree(I), NEW w \in WireIds, NEW t \in Txns,
           UNCHANGED <<req, records, pending_release, dut>>,
           txn_queue' = txn_queue \o split_write_data(w, t)
    PROVE  SlotParts(I)' /\ BeatsAgree(I)'
<1> DEFINE d == split_write_data(w, t)
           n == Len(txn_queue)
<1>1. txn_queue \in Seq(Flits) /\ d \in Seq(Flits)
  BY SplitType DEF TypeInv, TypeOK, AgentTypeOK
<1>2. \A i \in 1 .. Len(d) : d[i].ch = "dat"
  BY DEF split_write_data, DataBeat
<1> HIDE DEF d
<1>3. /\ n \in Nat /\ Len(d) \in Nat
      /\ DOMAIN txn_queue = 1 .. n
      /\ DOMAIN txn_queue' = 1 .. (n + Len(d))
      /\ \A i \in 1 .. n : txn_queue'[i] = txn_queue[i]
      /\ \A i \in 1 .. (n + Len(d)) : i \notin 1 .. n => txn_queue'[i] = d[i - n]
  BY <1>1, ConcatProperties, LenProperties DEF d
<1> HIDE DEF n
<1>4. \A i \in DOMAIN txn_queue' :
        txn_queue'[i].ch = "req" =>
            i \in DOMAIN txn_queue /\ txn_queue'[i] = txn_queue[i]
  <2> SUFFICES ASSUME NEW i \in 1 .. (n + Len(d)), i \notin 1 .. n
               PROVE  txn_queue'[i].ch = "dat"
    BY <1>3
  <2>1. i - n \in 1 .. Len(d)
    BY <1>3
  <2> QED
    BY <1>2, <1>3, <2>1
<1>5. HeldByDut(I)' /\ ReleaseSafe(I)' /\ NoEwa'
  BY <1>4 DEF SlotParts, HeldByDut, ReleaseSafe, NoEwa, Holds
<1>6. HeldByLink(I)'
  BY <1>4 DEF SlotParts, HeldByLink, ReqFor, Holds
<1>7. BeatsAgree(I)'
  BY <1>4 DEF BeatsAgree, ReqFor, read_beats, size_bytes
<1> QED
  BY <1>5, <1>6, <1>7 DEF SlotParts

(***************************************************************************)
(* _issue_req takes a slot with no record: by the invariant it is neither  *)
(* in the DUT, nor on the link, nor in the release FIFO.                   *)
(***************************************************************************)
LEMMA IssueStep ==
    ASSUME NEW I \in SUBSET WireIds, TypeInv, SlotParts(I), BeatsAgree(I),
           next_read_id \in I => ReadIdFree, issue_req, UNCHANGED dut
    PROVE  SlotParts(I)' /\ BeatsAgree(I)'
<1>1. PICK w \in WireIds :
        /\ alloc(Head(pending_reqs), w, retried[Head(pending_reqs)],
                 read_beats(req[Head(pending_reqs)]))
        /\ txn_queue' = Append(txn_queue,
             [ch |-> "req", wire |-> w, txn |-> Head(pending_reqs),
              ewa |-> FALSE, allow_retry |-> TRUE])
  BY DEF issue_req
<1> DEFINE t == Head(pending_reqs)
           f == [ch |-> "req", wire |-> w, txn |-> t,
                 ewa |-> FALSE, allow_retry |-> TRUE]
           n == Len(txn_queue)
<1>2. /\ t \in Txns
      /\ txn_queue \in Seq(Flits)
      /\ records \in [WireIds -> TxnRecords \cup {None}]
      /\ next_read_id \in ReadIds
      /\ I \subseteq WireIds
  BY HeadTailProperties
     DEF issue_req, TypeInv, TypeOK, AgentTypeOK, MapperTypeOK, WireIds
<1>3. f \in Flits
  BY <1>2 DEF Flits, ReqFlits
<1>4. /\ n \in Nat
      /\ DOMAIN txn_queue = 1 .. n
      /\ DOMAIN txn_queue' = 1 .. (n + 1)
      /\ \A i \in 1 .. n : txn_queue'[i] = txn_queue[i]
      /\ txn_queue'[n + 1] = f
  BY <1>1, <1>2, <1>3, AppendProperties, LenProperties
<1>5. PICK r : /\ records' = [records EXCEPT ![w] = r]
               /\ r # None /\ r.txn = t /\ r.beats_left = read_beats(req[t])
  <2>1. retried[t] \in Nat /\ read_beats(req[t]) \in Int
    BY <1>2, ReadBeatsNat DEF TypeInv, TypeOK, HnfTypeOK, AgentTypeOK
  <2> DEFINE r == [txn |-> t, attempt |-> retried[t], fwd_dbid |-> 0,
                   beats_left |-> read_beats(req[t]), next_dataid |-> 0]
  <2>2. r \in TxnRecords /\ r.txn = t /\ r.beats_left = read_beats(req[t])
    BY <1>2, <2>1 DEF TxnRecords
  <2>3. records' = [records EXCEPT ![w] = r]
    BY <1>1 DEF alloc
  <2> HIDE DEF r
  <2> QED
    BY <2>2, <2>3, NoneIsNoRecord
<1>6. pending_release' = pending_release
  BY <1>1 DEF alloc
<1>7. w \in I => records[w] = None
  <2>1. \/ w = next_read_id /\ Bypasses(Head(pending_reqs))
        \/ w \in FreeSlots
    BY <1>1 DEF alloc
  <2> QED
    BY <2>1 DEF ReadIdFree, FreeSlots, Occupied, issue_req
<1>8. f.ch = "req" /\ f.wire = w /\ f.txn = t /\ f.ewa = FALSE
  OBVIOUS
<1> HIDE DEF t, f, n
<1>9. w \in I =>
        /\ dut[w] = None
        /\ \A i \in DOMAIN txn_queue : ~ReqFor(txn_queue[i], w)
        /\ \A i \in DOMAIN pending_release : pending_release[i].wire # w
  BY <1>7 DEF SlotParts, HeldByDut, HeldByLink, ReleaseSafe, Holds
<1>10. \A v \in WireIds : v # w => records'[v] = records[v]
  BY <1>2, <1>5
<1>11. records'[w] = r
  BY <1>2, <1>5
<1>12. HeldByDut(I)'
  BY <1>2, <1>9, <1>10 DEF SlotParts, HeldByDut, Holds
<1>13. ReleaseSafe(I)'
  BY <1>2, <1>6, <1>9, <1>10 DEF SlotParts, ReleaseSafe
<1>14. NoEwa'
  BY <1>4, <1>8 DEF SlotParts, NoEwa
<1>15. HeldByLink(I)'
  <2> SUFFICES ASSUME NEW v \in I, NEW i \in 1 .. (n + 1),
                      ReqFor(txn_queue'[i], v)
               PROVE  /\ records'[v] # None /\ records'[v].txn = txn_queue'[i].txn
                      /\ dut[v] = None
                      /\ \A k \in DOMAIN pending_release :
                            pending_release[k].wire # v
                      /\ \A j \in 1 .. (n + 1) : ReqFor(txn_queue'[j], v) => j = i
    BY <1>4, <1>6 DEF HeldByLink, ReqFor, Holds
  <2>1. \A j \in 1 .. (n + 1) : j \in 1 .. n \/ j = n + 1
    BY <1>4
  <2>2. CASE v = w
    <3>1. i = n + 1
      BY <1>4, <1>9, <2>1, <2>2
    <3>2. records'[v] # None /\ records'[v].txn = txn_queue'[i].txn
      BY <1>4, <1>5, <1>8, <1>11, <2>2, <3>1 DEF Holds
    <3> QED
      BY <1>4, <1>9, <2>1, <2>2, <3>1, <3>2
  <2>3. CASE v # w
    <3>1. i \in 1 .. n /\ txn_queue'[i] = txn_queue[i]
      BY <1>4, <1>8, <2>1, <2>3 DEF ReqFor
    <3>2. /\ Holds(v, txn_queue[i].txn)
          /\ dut[v] = None
          /\ \A k \in DOMAIN pending_release : pending_release[k].wire # v
          /\ \A j \in 1 .. n : ReqFor(txn_queue[j], v) => j = i
      BY <1>4, <3>1 DEF SlotParts, HeldByLink
    <3>3. records'[v] # None /\ records'[v].txn = txn_queue'[i].txn
      BY <1>2, <1>10, <2>3, <3>1, <3>2 DEF Holds
    <3>4. \A j \in 1 .. (n + 1) : ReqFor(txn_queue'[j], v) => j = i
      BY <1>4, <1>8, <2>1, <2>3, <3>2 DEF ReqFor
    <3> QED
      BY <3>2, <3>3, <3>4
  <2> QED
    BY <2>2, <2>3
<1>16. BeatsAgree(I)'
  <2>1. req' = req
    BY DEF issue_req, hnfVars
  <2>2. \A j \in 1 .. (n + 1) : j \in 1 .. n \/ j = n + 1
    BY <1>4
  <2> QED
    BY <1>2, <1>4, <1>5, <1>8, <1>9, <1>10, <1>11, <2>1, <2>2
       DEF BeatsAgree, ReqFor, read_beats, size_bytes
<1> QED
  BY <1>12, <1>13, <1>14, <1>15, <1>16 DEF SlotParts


(***************************************************************************)
(* The link delivers a request: it leaves the queue, where it was the only *)
(* one with its wire id, and its entry appears in the DUT.                 *)
(***************************************************************************)
LEMMA DeliverStep ==
    ASSUME NEW I \in SUBSET WireIds, TypeInv, SlotParts(I), BeatsAgree(I), Deliver
    PROVE  SlotParts(I)' /\ BeatsAgree(I)'
<1> DEFINE f == Head(txn_queue)
           n == Len(txn_queue)
<1>1. /\ txn_queue \in Seq(Flits) /\ txn_queue # << >>
      /\ dut \in [WireIds -> DutEntries \cup {None}]
      /\ I \subseteq WireIds
      /\ UNCHANGED <<req, records, pending_release>>
  BY DEF Deliver, hnfVars, mapperVars, TypeInv, TypeOK, AgentTypeOK, DutTypeOK, WireIds
<1>2. /\ n \in Nat \ {0}
      /\ f = txn_queue[1] /\ f \in Flits
      /\ DOMAIN txn_queue = 1 .. n
      /\ DOMAIN txn_queue' = 1 .. (n - 1)
      /\ \A i \in 1 .. (n - 1) : txn_queue'[i] = txn_queue[i + 1]
  BY <1>1, HeadTailProperties, LenProperties, EmptySeq DEF Deliver
<1> HIDE DEF f, n
<1>3. \A i \in 1 .. (n - 1) : i + 1 \in 1 .. n /\ i + 1 # 1
  BY <1>2
<1>4. \A i \in DOMAIN txn_queue' : txn_queue'[i].ch = "req" => ~txn_queue'[i].ewa
  BY <1>2, <1>3 DEF SlotParts, NoEwa
<1>7. \A v \in I : \A i \in DOMAIN txn_queue' :
         ReqFor(txn_queue[i], v)' =>
             records'[v].beats_left = read_beats(req[txn_queue[i].txn])'
  <2> SUFFICES ASSUME NEW v \in I, NEW i \in 1 .. (n - 1),
                      ReqFor(txn_queue[i + 1], v)
               PROVE  records[v].beats_left = read_beats(req[txn_queue[i + 1].txn])
    BY <1>1, <1>2 DEF ReqFor, read_beats, size_bytes
  <2> QED
    BY <1>2, <1>3 DEF BeatsAgree
<1>5. CASE Admit(f) \/ Reject(f)
  <2>1. f \in ReqFlits
    BY <1>2, <1>5 DEF Admit, Reject, Flits, DatFlits
  <2>2. PICK e : /\ dut' = [dut EXCEPT ![f.wire] = e]
                 /\ e.txn = f.txn /\ e.ewa = f.ewa
                 /\ e.left = read_beats(req[f.txn])
                 /\ e.st \in {"admitted", "rejected"}
    <3>1. PICK st \in {"admitted", "rejected"}, x \in PoolIds \cup {None} :
            dut' = [dut EXCEPT ![f.wire] = Entry(f, st, x)]
      BY <1>5 DEF Admit, Reject, SlotsFor
    <3>2. /\ Entry(f, st, x).txn = f.txn /\ Entry(f, st, x).ewa = f.ewa
          /\ Entry(f, st, x).left = read_beats(req[f.txn])
          /\ Entry(f, st, x).st = st
      BY DEF Entry
    <3> QED
      BY <3>1, <3>2
  <2>3. /\ f.ch = "req" /\ f.wire \in WireIds
        /\ dut'[f.wire] = e
        /\ \A v \in WireIds : v # f.wire => dut'[v] = dut[v]
    BY <1>1, <2>1, <2>2 DEF ReqFlits
  <2>4. /\ 1 \in DOMAIN txn_queue
        /\ f.wire \in I => ReqFor(txn_queue[1], f.wire)
    BY <1>2, <2>3 DEF ReqFor
  <2>5. f.wire \in I =>
          /\ Holds(f.wire, f.txn)
          /\ \A k \in DOMAIN pending_release : pending_release[k].wire # f.wire
          /\ \A i \in 1 .. (n - 1) : ~ReqFor(txn_queue'[i], f.wire)
    BY <1>2, <1>3, <2>4 DEF SlotParts, HeldByLink
  <2>6. HeldByDut(I)'
    BY <1>1, <2>2, <2>3, <2>5 DEF SlotParts, HeldByDut, Holds
  <2>7. ReleaseSafe(I)'
    BY <1>1, <2>3, <2>5 DEF SlotParts, ReleaseSafe
  <2>8. NoEwa'
    <3>1. ~f.ewa
      BY <1>2, <2>3, <2>4 DEF SlotParts, NoEwa
    <3>2. \A v \in WireIds : dut'[v] # None => ~dut'[v].ewa
      BY <2>2, <2>3, <3>1 DEF SlotParts, NoEwa
    <3> QED
      BY <1>4, <3>2 DEF NoEwa
  <2>9. HeldByLink(I)'
    <3> SUFFICES ASSUME NEW v \in I, NEW i \in 1 .. (n - 1),
                        ReqFor(txn_queue'[i], v)
                 PROVE  /\ Holds(v, txn_queue[i + 1].txn)
                        /\ dut'[v] = None
                        /\ \A k \in DOMAIN pending_release :
                              pending_release[k].wire # v
                        /\ \A j \in 1 .. (n - 1) : ReqFor(txn_queue'[j], v) => j = i
      BY <1>1, <1>2 DEF HeldByLink, Holds, ReqFor
    <3>1. v # f.wire /\ dut'[v] = dut[v]
      BY <1>1, <2>3, <2>5
    <3>2. ReqFor(txn_queue[i + 1], v) /\ i + 1 \in DOMAIN txn_queue
      BY <1>2, <1>3
    <3>3. /\ Holds(v, txn_queue[i + 1].txn)
          /\ dut[v] = None
          /\ \A k \in DOMAIN pending_release : pending_release[k].wire # v
          /\ \A j \in DOMAIN txn_queue : ReqFor(txn_queue[j], v) => j = i + 1
      BY <3>2 DEF SlotParts, HeldByLink
    <3>4. \A j \in 1 .. (n - 1) : ReqFor(txn_queue'[j], v) => j = i
      BY <1>2, <1>3, <3>3
    <3> QED
      BY <3>1, <3>3, <3>4
  <2>10. BeatsAgree(I)'
    <3>1. f.wire \in I => records[f.wire].beats_left = read_beats(req[f.txn])
      BY <1>2, <2>4 DEF BeatsAgree
    <3>2. \A v \in I : dut'[v] # None /\ dut'[v].st = "admitted" =>
             records[v].beats_left = dut'[v].left
      BY <1>1, <2>2, <2>3, <3>1 DEF BeatsAgree
    <3> QED
      BY <1>1, <1>7, <3>2 DEF BeatsAgree
  <2> QED
    BY <2>6, <2>7, <2>8, <2>9, <2>10 DEF SlotParts
<1>6. CASE Receive(f)
  <2>1. /\ f.ch = "dat"
        /\ \A v \in WireIds :
             /\ dut'[v] = None <=> dut[v] = None
             /\ dut[v] # None => /\ dut'[v].txn = dut[v].txn
                                 /\ dut'[v].ewa = dut[v].ewa
                                 /\ dut'[v].st = dut[v].st
                                 /\ dut'[v].drain = dut[v].drain
                                 /\ dut'[v].left = dut[v].left
    <3>1. CASE dut' = dut /\ f.ch = "dat"
      BY <3>1
    <3>2. ASSUME NEW u \in WireIds, Receiver(f, u), f.ch = "dat",
                 dut' = [dut EXCEPT ![u].data = @ \cup {<<f.txn, f.data_id>>}]
          PROVE  <2>1!2
      <4> DEFINE e == [dut[u] EXCEPT !.data = @ \cup {<<f.txn, f.data_id>>}]
      <4>1. dut[u] # None /\ dut[u] \in DutEntries
        BY <1>1, <3>2 DEF Receiver, Pooled
      <4>2. /\ e.txn = dut[u].txn /\ e.ewa = dut[u].ewa
            /\ e.st = dut[u].st /\ e.drain = dut[u].drain
            /\ e.left = dut[u].left
        BY <4>1 DEF DutEntries
      <4>3. e \in DutEntries
        <5>1. f \in DatFlits
          BY <1>2, <3>2 DEF Flits, ReqFlits
        <5>2. <<f.txn, f.data_id>> \in Txns \X {DATA_ID_LOW, DATA_ID_HIGH}
          BY <5>1 DEF DatFlits
        <5> QED
          BY <4>1, <5>2 DEF DutEntries
      <4>4. dut' = [dut EXCEPT ![u] = e]
        BY <3>2
      <4> HIDE DEF e
      <4> QED
        BY <1>1, <4>1, <4>2, <4>3, <4>4, NoneIsNoEntry
    <3> QED
      BY <1>6, <3>1, <3>2 DEF Receive
  <2>2. HeldByDut(I)'
    BY <1>1, <2>1 DEF SlotParts, HeldByDut, Holds
  <2>3. ReleaseSafe(I)'
    BY <1>1, <2>1 DEF SlotParts, ReleaseSafe
  <2>4. NoEwa'
    BY <1>4, <2>1 DEF SlotParts, NoEwa
  <2>5. HeldByLink(I)'
    <3> SUFFICES ASSUME NEW v \in I, NEW i \in 1 .. (n - 1),
                        ReqFor(txn_queue'[i], v)
                 PROVE  /\ Holds(v, txn_queue[i + 1].txn)
                        /\ dut'[v] = None
                        /\ \A k \in DOMAIN pending_release :
                              pending_release[k].wire # v
                        /\ \A j \in 1 .. (n - 1) : ReqFor(txn_queue'[j], v) => j = i
      BY <1>1, <1>2 DEF HeldByLink, Holds, ReqFor
    <3>1. ReqFor(txn_queue[i + 1], v) /\ i + 1 \in DOMAIN txn_queue
      BY <1>2, <1>3
    <3>2. /\ Holds(v, txn_queue[i + 1].txn)
          /\ dut[v] = None
          /\ \A k \in DOMAIN pending_release : pending_release[k].wire # v
          /\ \A j \in DOMAIN txn_queue : ReqFor(txn_queue[j], v) => j = i + 1
      BY <3>1 DEF SlotParts, HeldByLink
    <3>3. \A j \in 1 .. (n - 1) : ReqFor(txn_queue'[j], v) => j = i
      BY <1>2, <1>3, <3>2
    <3> QED
      BY <1>1, <2>1, <3>2, <3>3
  <2>6. BeatsAgree(I)'
    BY <1>1, <1>7, <2>1 DEF BeatsAgree
  <2> QED
    BY <2>2, <2>3, <2>4, <2>5, <2>6 DEF SlotParts
<1> QED
  BY <1>5, <1>6 DEF Deliver, f


(***************************************************************************)
(* One clock cycle: a release that comes due finds its entry gone, because *)
(* the entry drained at least as fast as the margin ran out.               *)
(***************************************************************************)
LEMMA CycleStep ==
    ASSUME NEW I \in SUBSET WireIds, TypeInv, SlotParts(I), BeatsAgree(I), Cycle
    PROVE  SlotParts(I)' /\ BeatsAgree(I)'
<1> DEFINE n == Len(pending_release)
<1>1. /\ dut \in [WireIds -> DutEntries \cup {None}]
      /\ records \in [WireIds -> TxnRecords \cup {None}]
      /\ pending_release \in Seq(Releases)
      /\ I \subseteq WireIds
      /\ DrainPositive
  BY DEF TypeInv, TypeOK, AgentTypeOK, MapperTypeOK, DutTypeOK, WireIds
<1>2. n \in Nat /\ DOMAIN pending_release = 1 .. n
  BY <1>1, LenProperties
<1>3. PICK k \in 0 .. n :
        /\ \A i \in 1 .. k : pending_release[i].due <= 1
        /\ pending_release' = [i \in 1 .. n - k |-> Elapsed(pending_release[i + k])]
        /\ records' = [w \in WireIds |->
                          IF \E i \in 1 .. k : pending_release[i].wire = w
                            THEN None ELSE records[w]]
  BY DEF Cycle, on_cycle, mapper_on_cycle, ComesDue
<1> HIDE DEF n
<1>4. /\ txn_queue' = txn_queue
      /\ \A w \in WireIds : dut'[w] = Ticked(dut[w])
  BY DEF Cycle, on_cycle
<1>5. /\ \A i \in 1 .. k : i \in 1 .. n
      /\ \A i \in 1 .. (n - k) : i + k \in 1 .. n /\ i + k \notin 1 .. k
      /\ \A i, j \in 1 .. (n - k) : i + k = j + k => i = j
  BY <1>2
<1>6. \A i \in 1 .. n : pending_release[i] \in Releases
  BY <1>1, <1>2, ElementOfSeq
<1>7. /\ DOMAIN pending_release' = 1 .. (n - k)
      /\ \A i \in 1 .. (n - k) :
           /\ pending_release'[i].wire = pending_release[i + k].wire
           /\ pending_release'[i].due = IF pending_release[i + k].due = 0
                                          THEN 0 ELSE pending_release[i + k].due - 1
  <2>1. \A x \in Releases : /\ Elapsed(x).wire = x.wire
                            /\ Elapsed(x).due = IF x.due = 0 THEN 0 ELSE x.due - 1
    BY DEF Elapsed, Releases
  <2> QED
    BY <1>3, <1>5, <1>6, <2>1
<1>8. \A w \in WireIds :
        /\ (\A i \in 1 .. k : pending_release[i].wire # w) => records'[w] = records[w]
        /\ (\E i \in 1 .. k : pending_release[i].wire = w) => records'[w] = None
  BY <1>3
<1>9. \A w \in WireIds :
        /\ dut[w] = None => dut'[w] = None
        /\ dut[w] # None /\ dut[w].st # "drain" => dut'[w] = dut[w]
        /\ dut[w] # None /\ dut[w].st = "drain" =>
             /\ dut[w].drain = 1 => dut'[w] = None
             /\ dut[w].drain # 1 =>
                  /\ dut'[w] # None
                  /\ dut'[w].txn = dut[w].txn /\ dut'[w].ewa = dut[w].ewa
                  /\ dut'[w].st = "drain" /\ dut'[w].drain = dut[w].drain - 1
  <2> SUFFICES ASSUME NEW w \in WireIds, dut[w] # None, dut[w].st = "drain"
               PROVE  /\ dut[w].drain = 1 => dut'[w] = None
                      /\ dut[w].drain # 1 =>
                           /\ dut'[w] # None
                           /\ dut'[w].txn = dut[w].txn /\ dut'[w].ewa = dut[w].ewa
                           /\ dut'[w].st = "drain"
                           /\ dut'[w].drain = dut[w].drain - 1
    BY <1>4 DEF Ticked
  <2>1. dut[w] \in DutEntries /\ dut[w].drain \in Nat /\ dut[w].drain > 0
    BY <1>1 DEF DrainPositive, DutEntries
  <2>2. dut'[w] = HandBack(dut[w], dut[w].drain - 1)
    BY <1>4 DEF Ticked
  <2>3. CASE dut[w].drain = 1
    BY <2>2, <2>3 DEF HandBack
  <2>4. CASE dut[w].drain # 1
    <3> DEFINE d == dut[w].drain - 1
               e == [dut[w] EXCEPT !.st = "drain", !.drain = d]
    <3>1. d \in Nat /\ d # 0
      BY <2>1, <2>4
    <3>2. dut'[w] = e
      BY <2>2, <3>1 DEF HandBack
    <3>3. e \in DutEntries
      BY <2>1, <3>1 DEF DutEntries
    <3>4. e.txn = dut[w].txn /\ e.ewa = dut[w].ewa /\ e.st = "drain" /\ e.drain = d
      BY <2>1 DEF DutEntries
    <3> HIDE DEF e
    <3> QED
      BY <2>4, <3>2, <3>3, <3>4, NoneIsNoEntry
  <2> QED
    BY <2>3, <2>4
\* A slot that is popped is not in the DUT afterwards.
<1>10. \A w \in I :
         (\E i \in 1 .. k : pending_release[i].wire = w) => dut'[w] = None
  <2> SUFFICES ASSUME NEW w \in I, NEW i \in 1 .. k,
                      pending_release[i].wire = w, dut[w] # None
               PROVE  dut'[w] = None
    BY <1>1, <1>9
  <2>1. dut[w].st = "drain" /\ dut[w].drain <= pending_release[i].due
    BY <1>2, <1>5 DEF SlotParts, ReleaseSafe
  <2>2. dut[w].drain \in Nat /\ dut[w].drain > 0
    BY <1>1, <2>1 DEF DrainPositive, DutEntries
  <2>3. pending_release[i].due \in Nat /\ pending_release[i].due <= 1
    BY <1>3, <1>5, <1>6 DEF Releases
  <2> QED
    BY <1>1, <1>9, <2>1, <2>2, <2>3
<1>11. HeldByDut(I)'
  <2> SUFFICES ASSUME NEW w \in I, dut'[w] # None
               PROVE  records'[w] # None /\ records'[w].txn = dut'[w].txn
    BY DEF HeldByDut, Holds
  <2>1. records'[w] = records[w]
    BY <1>1, <1>8, <1>10
  <2>2. dut[w] # None /\ dut'[w].txn = dut[w].txn
    BY <1>1, <1>9
  <2> QED
    BY <2>1, <2>2 DEF SlotParts, HeldByDut, Holds
<1>12. HeldByLink(I)'
  <2> SUFFICES ASSUME NEW w \in I, NEW i \in DOMAIN txn_queue,
                      ReqFor(txn_queue[i], w)
               PROVE  /\ records'[w] # None /\ records'[w].txn = txn_queue[i].txn
                      /\ dut'[w] = None
                      /\ \A j \in 1 .. (n - k) : pending_release'[j].wire # w
                      /\ \A j \in DOMAIN txn_queue : ReqFor(txn_queue[j], w) => j = i
    BY <1>4, <1>7 DEF HeldByLink, Holds, ReqFor
  <2>1. /\ records[w] # None /\ records[w].txn = txn_queue[i].txn
        /\ dut[w] = None
        /\ \A j \in 1 .. n : pending_release[j].wire # w
        /\ \A j \in DOMAIN txn_queue : ReqFor(txn_queue[j], w) => j = i
    BY <1>2 DEF SlotParts, HeldByLink, Holds
  <2>2. records'[w] = records[w]
    BY <1>1, <1>5, <1>8, <2>1
  <2> QED
    BY <1>1, <1>5, <1>7, <1>9, <2>1, <2>2
<1>13. ReleaseSafe(I)'
  <2> SUFFICES ASSUME NEW w \in I, NEW i \in 1 .. (n - k),
                      pending_release'[i].wire = w
               PROVE  /\ records'[w] # None
                      /\ dut'[w] # None =>
                           /\ dut'[w].st = "drain"
                           /\ dut'[w].drain <= pending_release'[i].due
                      /\ \A j \in 1 .. (n - k) :
                           pending_release'[j].wire = w => j = i
    BY <1>7 DEF ReleaseSafe
  <2>1. i + k \in 1 .. n /\ pending_release[i + k].wire = w
    BY <1>5, <1>7
  <2>2. /\ records[w] # None
        /\ dut[w] # None =>
             dut[w].st = "drain" /\ dut[w].drain <= pending_release[i + k].due
        /\ \A j \in 1 .. n : pending_release[j].wire = w => j = i + k
    BY <1>2, <2>1 DEF SlotParts, ReleaseSafe
  <2>3. records'[w] # None
    BY <1>1, <1>5, <1>8, <2>2
  <2>4. \A j \in 1 .. (n - k) : pending_release'[j].wire = w => j = i
    BY <1>5, <1>7, <2>2
  <2>5. ASSUME dut'[w] # None
        PROVE  dut'[w].st = "drain" /\ dut'[w].drain <= pending_release'[i].due
    <3>1. /\ dut[w] # None /\ dut[w].st = "drain" /\ dut[w].drain # 1
          /\ dut'[w].st = "drain" /\ dut'[w].drain = dut[w].drain - 1
      BY <1>1, <1>9, <2>2, <2>5
    <3>2. dut[w].drain \in Nat /\ dut[w].drain > 0
      BY <1>1, <3>1 DEF DrainPositive, DutEntries
    <3>3. pending_release[i + k].due \in Nat
      BY <1>6, <2>1 DEF Releases
    <3> QED
      BY <1>7, <2>2, <3>1, <3>2, <3>3
  <2> QED
    BY <2>3, <2>4, <2>5
<1>14. NoEwa'
  BY <1>4, <1>9 DEF SlotParts, NoEwa
<1>15. BeatsAgree(I)'
  <2>1. req' = req
    BY DEF Cycle, on_cycle, hnfVars
  <2>2. \A w \in I :
          \/ dut[w] # None /\ dut[w].st = "admitted"
          \/ \E i \in DOMAIN txn_queue : ReqFor(txn_queue[i], w)
          => records'[w] = records[w]
    BY <1>1, <1>2, <1>5, <1>8 DEF SlotParts, ReleaseSafe, HeldByLink
  <2>3. \A w \in I :
          dut'[w] # None /\ dut'[w].st = "admitted" =>
              dut[w] # None /\ dut[w].st = "admitted" /\ dut'[w] = dut[w]
    BY <1>1, <1>9
  <2> QED
    BY <1>1, <1>4, <2>1, <2>2, <2>3 DEF BeatsAgree, ReqFor, read_beats, size_bytes
<1> QED
  BY <1>11, <1>12, <1>13, <1>14, <1>15 DEF SlotParts

(***************************************************************************)
(* The record that answers for w after on_txrsp or on_txdat is still the   *)
(* record of the same transaction, and w joins the release FIFO, if at     *)
(* all, with the full margin; a closing answer is the only one that does.  *)
(***************************************************************************)
LEMMA TxrspRecord ==
    ASSUME TypeInv, NEW w \in WireIds, NEW opcode \in {"DBIDResp", "Comp"},
           on_txrsp(w, opcode)
    PROVE  \E r : /\ records' = [records EXCEPT ![w] = r]
                  /\ records[w] # None => /\ r # None /\ r.txn = records[w].txn
                                          /\ r.beats_left = records[w].beats_left
                  /\ \/ pending_release' = pending_release
                     \/ /\ opcode = "Comp" /\ records[w] # None
                        /\ pending_release' = Append(pending_release,
                               [due |-> ReleaseMargin, wire |-> w])
<1>1. records \in [WireIds -> TxnRecords \cup {None}]
  BY DEF TypeInv, TypeOK, AgentTypeOK, MapperTypeOK
<1>2. CASE records[w] = None
  <2>1. records' = [records EXCEPT ![w] = records[w]]
    BY <1>1, <1>2 DEF on_txrsp, mapperVars
  <2> QED
    BY <1>2, <2>1 DEF on_txrsp, mapperVars
<1>3. CASE records[w] # None
  <2> DEFINE dbid == IF opcode = "Comp" THEN records[w].fwd_dbid ELSE w + 1
             r == [records[w] EXCEPT !.fwd_dbid = dbid]
  <2>1. records[w] \in TxnRecords
    BY <1>1, <1>3
  <2>2. dbid \in Nat
    BY <2>1, MapperAssumption
       DEF TxnRecords, WireIds, PoolIds, ReadIds, READ_ID_BASE
  <2>3. /\ records' = [records EXCEPT ![w] = r]
        /\ \/ pending_release' = pending_release
           \/ opcode = "Comp" /\ release(w, ReleaseMargin)
    BY <1>3 DEF on_txrsp, forwarded_dbid, closes
  <2> HIDE DEF dbid
  <2>4. r \in TxnRecords /\ r.txn = records[w].txn /\ r.beats_left = records[w].beats_left
    BY <2>1, <2>2 DEF TxnRecords
  <2> HIDE DEF r
  <2> QED
    BY <1>3, <2>3, <2>4, NoneIsNoRecord DEF release
<1> QED
  BY <1>2, <1>3

(***************************************************************************)
(* The same for on_txdat, which may release at any beat: that the beat it  *)
(* takes for the last is the DUT's last is shown where it is used.         *)
(***************************************************************************)
LEMMA TxdatRecord ==
    ASSUME TypeInv, NEW w \in WireIds, on_txdat(w)
    PROVE  \E r : /\ records' = [records EXCEPT ![w] = r]
                  /\ records[w] # None =>
                       /\ r # None /\ r.txn = records[w].txn
                       /\ req[r.txn].op = "read" =>
                             r.beats_left = records[w].beats_left - 1
                  /\ \/ pending_release' = pending_release
                     \/ /\ records[w] # None /\ records[w].beats_left <= 1
                        /\ pending_release' = Append(pending_release,
                               [due |-> ReleaseMargin, wire |-> w])
<1>1. records \in [WireIds -> TxnRecords \cup {None}]
  BY DEF TypeInv, TypeOK, AgentTypeOK, MapperTypeOK
<1>2. CASE records[w] = None \/ req[records[w].txn].op # "read"
  <2>1. records' = [records EXCEPT ![w] = records[w]]
    BY <1>1, <1>2 DEF on_txdat, mapperVars
  <2> QED
    BY <1>2, <2>1 DEF on_txdat, mapperVars
<1>3. CASE ~(records[w] = None \/ req[records[w].txn].op # "read")
  <2> DEFINE r == [records[w] EXCEPT !.beats_left = @ - 1, !.next_dataid = @ + 1]
  <2>1. records[w] \in TxnRecords
    BY <1>1, <1>3
  <2>2. /\ records' = [records EXCEPT ![w] = r]
        /\ \/ pending_release' = pending_release
           \/ records[w].beats_left - 1 <= 0 /\ release(w, ReleaseMargin)
    BY <1>1, <1>3, <2>1 DEF on_txdat, last_beat
  <2>3. records[w].beats_left - 1 \in Int /\ records[w].next_dataid + 1 \in Nat
    BY <2>1 DEF TxnRecords
  <2>4. r \in TxnRecords /\ r.txn = records[w].txn
    BY <2>1, <2>3 DEF TxnRecords
  <2>5. records[w].beats_left - 1 <= 0 => records[w].beats_left <= 1
    BY <2>1 DEF TxnRecords
  <2>6. req[records[w].txn].op = "read" => r.beats_left = records[w].beats_left - 1
    BY <2>1 DEF TxnRecords
  <2> HIDE DEF r
  <2> QED
    BY <1>3, <2>2, <2>4, <2>5, <2>6, NoneIsNoRecord DEF release
<1> QED
  BY <1>2, <1>3

(***************************************************************************)
(* Every step of the SN-F path keeps the invariant.                        *)
(***************************************************************************)
LEMMA SlotStepOn ==
    ASSUME NEW I \in SUBSET WireIds, next_read_id \in I => ReadIdFree
    PROVE  SlotInvOn(I) /\ [Next]_vars => SlotInvOn(I)'
<1> SUFFICES ASSUME SlotInvOn(I), [Next]_vars
             PROVE  SlotParts(I)' /\ BeatsAgree(I)'
  BY TypeStep DEF SlotInvOn
<1>a. TypeInv /\ SlotParts(I) /\ BeatsAgree(I)
  BY DEF SlotInvOn
<1>b. \A w \in WireIds : dut[w] # None => dut[w] \in DutEntries /\ ~dut[w].ewa
  BY <1>a DEF TypeInv, TypeOK, DutTypeOK, SlotParts, NoEwa
<1>c. ReleaseMargin \in Nat
  BY MapperAssumption
<1>1. ASSUME NEW t \in Txns, Gem5Req(t)
      PROVE  SlotParts(I)' /\ BeatsAgree(I)'
  BY <1>a, <1>1, SlotFrame
     DEF Gem5Req, handle_gem5_req, expect, mapperVars, dutVars
<1>2. ASSUME NEW t \in Txns, Gem5Dat(t)
      PROVE  SlotParts(I)' /\ BeatsAgree(I)'
  <2>1. UNCHANGED <<req, records, pending_release, dut>>
    BY <1>2 DEF Gem5Dat, handle_gem5_dat, send_write_data, mapperVars, dutVars
  <2>2. CASE txn_queue' = txn_queue
    BY <1>a, <2>1, <2>2, SlotFrame
  <2>3. ASSUME NEW w \in WireIds, txn_queue' = txn_queue \o split_write_data(w, t)
        PROVE  SlotParts(I)' /\ BeatsAgree(I)'
    BY <1>a, <2>1, <2>3, DataStep
  <2> QED
    BY <1>2, <2>2, <2>3 DEF Gem5Dat, handle_gem5_dat
<1>3. CASE RetryPending
  <2>1. CASE drop_req
    BY <1>a, <1>3, <2>1, SlotFrame
       DEF RetryPending, drop_req, mapperVars, hnfVars, dutVars
  <2>2. CASE issue_req
    BY <1>a, <1>3, <2>2, IssueStep DEF RetryPending, dutVars
  <2> QED
    BY <1>3, <2>1, <2>2 DEF RetryPending
<1>4. CASE Deliver
  BY <1>a, <1>4, DeliverStep
<1>5. CASE Cycle
  BY <1>a, <1>5, CycleStep
<1>6. CASE DutPCrdGrant
  BY <1>a, <1>6, SlotFrame DEF DutPCrdGrant, on_pcrdgrant, mapperVars, hnfVars
<1>7. ASSUME NEW w \in WireIds, DutRetryAck(w)
      PROVE  SlotParts(I)' /\ BeatsAgree(I)'
  <2>1. /\ dut[w] # None /\ dut[w].st # "drain"
        /\ dut' = [dut EXCEPT ![w] = None]
        /\ txn_queue' = txn_queue /\ req' = req
    BY <1>7 DEF DutRetryAck, on_retryack, hnfVars
  <2>2. records' = [records EXCEPT ![w] = records[w]]
    BY <1>a, <1>7 DEF DutRetryAck, on_retryack, TypeInv, TypeOK, AgentTypeOK,
                      MapperTypeOK
  <2>3. \/ pending_release' = pending_release
        \/ /\ pending_release' = Append(pending_release, [due |-> 0, wire |-> w])
           /\ records[w] # None
    BY <1>7 DEF DutRetryAck, on_retryack, release
  <2> QED
    BY <1>a, <2>1, <2>2, <2>3, AnswerStep
<1>8. ASSUME NEW w \in WireIds, DutDBIDResp(w)
      PROVE  SlotParts(I)' /\ BeatsAgree(I)'
  <2> DEFINE e == [dut[w] EXCEPT !.st = "granted"]
  <2>1. dut[w] # None /\ dut[w].st = "admitted" /\ dut[w] \in DutEntries
    BY <1>b, <1>8 DEF DutDBIDResp
  <2>2. on_txrsp(w, "DBIDResp")
    BY <1>b, <1>8 DEF DutDBIDResp
  <2>3. txn_queue' = txn_queue /\ req' = req
    BY <2>2 DEF on_txrsp, agentVars, hnfVars, on_rsp
  <2>4. dut' = [dut EXCEPT ![w] = e]
    BY <1>8 DEF DutDBIDResp
  <2>5. e.txn = dut[w].txn /\ e.ewa = dut[w].ewa /\ e.st = "granted"
    BY <2>1 DEF DutEntries
  <2> HIDE DEF e
  <2>6. PICK r : /\ records' = [records EXCEPT ![w] = r]
                 /\ records[w] # None => r # None /\ r.txn = records[w].txn
                 /\ pending_release' = pending_release
    BY <1>a, <2>2, TxrspRecord
  <2> QED
    BY <1>a, <1>c, <2>1, <2>3, <2>4, <2>5, <2>6, AnswerStep
\* The answers that hand the entry back: it is gone, or drains in time.
<1>9. ASSUME NEW w \in WireIds, dut[w] # None, NEW d \in 0 .. MaxDrain
      PROVE  LET e == HandBack(dut[w], d)
             IN  e # None => /\ e.txn = dut[w].txn /\ e.ewa = dut[w].ewa
                             /\ e.st = "drain" /\ e.drain <= ReleaseMargin
  <2>1. dut[w] \in DutEntries /\ d <= ReleaseMargin
    BY <1>b, <1>c, <1>9, DutAssumption
  <2>2. CASE d = 0
    BY <2>2 DEF HandBack
  <2>3. CASE d # 0
    <3> DEFINE e == [dut[w] EXCEPT !.st = "drain", !.drain = d]
    <3>1. /\ e.txn = dut[w].txn /\ e.ewa = dut[w].ewa
          /\ e.st = "drain" /\ e.drain = d
      BY <2>1 DEF DutEntries
    <3>2. HandBack(dut[w], d) = e
      BY <2>3 DEF HandBack
    <3> HIDE DEF e
    <3> QED
      BY <2>1, <3>1, <3>2
  <2> QED
    BY <2>2, <2>3
<1>10. ASSUME NEW w \in WireIds, DutComp(w)
       PROVE  SlotParts(I)' /\ BeatsAgree(I)'
  <2>1. /\ dut[w] # None /\ dut[w].st = "granted"
        /\ on_txrsp(w, "Comp")
    BY <1>10 DEF DutComp
  <2>2. PICK d \in 0 .. MaxDrain : dut' = [dut EXCEPT ![w] = HandBack(@, d)]
    BY <1>10 DEF DutComp
  <2> DEFINE e == HandBack(dut[w], d)
  <2>3. dut' = [dut EXCEPT ![w] = e]
    BY <2>2
  <2>4. e # None => /\ e.txn = dut[w].txn /\ e.ewa = dut[w].ewa
                    /\ e.st = "drain" /\ e.drain <= ReleaseMargin
    BY <1>9, <2>1
  <2> HIDE DEF e
  <2>5. txn_queue' = txn_queue /\ req' = req
    BY <2>1 DEF on_txrsp, agentVars, hnfVars, on_rsp
  <2>6. PICK r : /\ records' = [records EXCEPT ![w] = r]
                 /\ records[w] # None => r # None /\ r.txn = records[w].txn
                 /\ \/ pending_release' = pending_release
                    \/ /\ records[w] # None
                       /\ pending_release' = Append(pending_release,
                              [due |-> ReleaseMargin, wire |-> w])
    BY <1>a, <2>1, TxrspRecord
  <2> QED
    BY <1>a, <1>c, <2>1, <2>3, <2>4, <2>5, <2>6, AnswerStep
<1>11. ASSUME NEW w \in WireIds, DutCompData(w)
       PROVE  SlotParts(I)' /\ BeatsAgree(I)'
  <2>1. /\ dut[w] # None /\ dut[w].st = "admitted" /\ dut[w] \in DutEntries
        /\ req[dut[w].txn].op = "read"
        /\ on_txdat(w)
    BY <1>b, <1>11 DEF DutCompData
  <2>2. txn_queue' = txn_queue /\ req' = req
    BY <2>1 DEF on_txdat, agentVars, hnfVars, on_dat
  <2>3. PICK r : /\ records' = [records EXCEPT ![w] = r]
                 /\ records[w] # None =>
                      /\ r # None /\ r.txn = records[w].txn
                      /\ req[r.txn].op = "read" =>
                            r.beats_left = records[w].beats_left - 1
                 /\ \/ pending_release' = pending_release
                    \/ /\ records[w] # None /\ records[w].beats_left <= 1
                       /\ pending_release' = Append(pending_release,
                              [due |-> ReleaseMargin, wire |-> w])
    BY <1>a, <2>1, TxdatRecord
  <2>4. CASE /\ dut[w].left > 1
             /\ dut' = [dut EXCEPT ![w].left = @ - 1]
    <3> DEFINE e == [dut[w] EXCEPT !.left = @ - 1]
    <3>1. e.txn = dut[w].txn /\ e.ewa = dut[w].ewa /\ e.st = "admitted"
          /\ e.left = dut[w].left - 1
      BY <2>1 DEF DutEntries
    <3>2. dut' = [dut EXCEPT ![w] = e]
      BY <2>4
    <3> HIDE DEF e
    <3>3. w \in I => /\ Holds(w, dut[w].txn)
                           /\ records[w].beats_left = dut[w].left
      BY <1>a, <2>1 DEF SlotParts, HeldByDut, BeatsAgree
    <3>4. w \in I => r.beats_left = e.left
      BY <2>1, <2>3, <3>1, <3>3 DEF Holds
    <3>5. CASE pending_release' = pending_release
      BY <1>a, <1>c, <2>1, <2>2, <2>3, <3>1, <3>2, <3>4, <3>5, AnswerStep
    <3>6. CASE w \in I
      <4>1. dut[w].left \in Nat
        BY <2>1 DEF DutEntries
      <4>2. pending_release' = pending_release
        BY <2>3, <2>4, <3>3, <3>6, <4>1
      <4> QED
        BY <3>5, <4>2
    <3>7. CASE w \notin I
      BY <1>a, <1>c, <2>1, <2>2, <2>3, <3>1, <3>2, <3>7, AnswerStep
    <3> QED
      BY <3>6, <3>7
  <2>5. CASE \E d \in 0 .. MaxDrain : dut' = [dut EXCEPT ![w] = HandBack(@, d)]
    <3>1. PICK d \in 0 .. MaxDrain : dut' = [dut EXCEPT ![w] = HandBack(@, d)]
      BY <2>5
    <3> DEFINE e == HandBack(dut[w], d)
    <3>2. dut' = [dut EXCEPT ![w] = e]
      BY <3>1
    <3>3. e # None => /\ e.txn = dut[w].txn /\ e.ewa = dut[w].ewa
                      /\ e.st = "drain" /\ e.drain <= ReleaseMargin
      BY <1>9, <2>1
    <3> HIDE DEF e
    <3> QED
      BY <1>a, <1>c, <2>1, <2>2, <2>3, <3>2, <3>3, AnswerStep
  <2> QED
    BY <1>11, <2>4, <2>5 DEF DutCompData
<1>12. CASE UNCHANGED vars
  BY <1>a, <1>12, SlotFrame DEF vars, hnfVars, mapperVars, agentVars, dutVars
<1> QED
  BY <1>1, <1>2, <1>3, <1>4, <1>5, <1>6, <1>7, <1>8, <1>10, <1>11, <1>12
     DEF Next, DutAnswer

\* Of the pool ids without a condition, of all ids while the read ids last.
LEMMA SlotStep == SlotInv /\ [Next]_vars => SlotInv'
<1> SUFFICES ASSUME TypeInv PROVE SlotInv /\ [Next]_vars => SlotInv'
  BY DEF SlotInv, SlotInvOn
<1>1. PoolIds \subseteq WireIds /\ next_read_id \notin PoolIds
  BY MapperAssumption DEF TypeInv, TypeOK, AgentTypeOK, MapperTypeOK, WireIds,
                          ReadIds, PoolIds, READ_ID_BASE
<1> QED
  BY <1>1, SlotStepOn DEF SlotInv

LEMMA SlotStepAll == ReadIdFree /\ SlotInvOn(WireIds) /\ [Next]_vars => SlotInvOn(WireIds)'
BY SlotStepOn

(***************************************************************************)
(* TxnIdMapper never gives a pool slot to a second transaction while the   *)
(* first is on the link, in the DUT or draining there: RELEASE_MARGIN_-    *)
(* CYCLES covers the drain, and a RetryAck'd slot is released only after   *)
(* the DUT has let go of it.                                               *)
(***************************************************************************)
THEOREM SlotsHeld == Spec => []SlotHeld
BY SlotInvImplies, SlotInit, SlotStep, PTL DEF Spec

-------------------------------------------------------------------------------
(***************************************************************************)
(* What is proved about the SnfAgent's two decisions, when to issue a      *)
(* request and under which wire id: a request waits only while the pool is *)
(* full (no wake-up is lost), and a read that is issued under a bypass id  *)
(* is one the DUT lets bypass its pool.                                    *)
(***************************************************************************)
\* Outside _retry_pending the request at the head cannot be consumed.
WakeInv == issuing \/ ~HeadConsumable

\* The line of a read on its way under a bypass id is in no pool slot of the
\* DUT, and in no request ahead of it that will take one.
ReqOnPool(f) == f.ch = "req" /\ f.wire \in PoolIds
ReqOnRead(f) == f.ch = "req" /\ f.wire \in ReadIds

NoHazardAhead(i) ==
    LET line(t) == req[t].line
        f == txn_queue[i]
    IN  /\ req[f.txn].op = "read"
        /\ \A v \in PoolIds : dut[v] # None => line(dut[v].txn) # line(f.txn)
        /\ \A j \in DOMAIN txn_queue :
              j < i /\ ReqOnPool(txn_queue[j]) => line(txn_queue[j].txn) # line(f.txn)

ReadsUnpooled == \A w \in ReadIds : dut[w] # None => dut[w].slot = None

BypassInv ==
    /\ ReadsUnpooled
    /\ \A i \in DOMAIN txn_queue : ReqOnRead(txn_queue[i]) => NoHazardAhead(i)

-------------------------------------------------------------------------------
(***************************************************************************)
(* HeadConsumable depends on which wire ids have a record and for which    *)
(* transaction, and on nothing else of the records.                        *)
(***************************************************************************)
LEMMA WakeFrame ==
    ASSUME TypeInv, WakeInv, UNCHANGED <<req, pending_reqs, issuing>>,
           \A w \in WireIds : /\ records'[w] = None <=> records[w] = None
                              /\ records[w] # None => records'[w].txn = records[w].txn
    PROVE  WakeInv'
<1>1. PoolIds \subseteq WireIds /\ PoolIds' = PoolIds
  BY DEF WireIds, PoolIds
<1>2. Occupied' = Occupied
  BY <1>1 DEF Occupied
<1>3. FreeSlots' = FreeSlots
  BY <1>1, <1>2 DEF FreeSlots
<1>4. pool_hazard_addrs' = pool_hazard_addrs
  <2>1. \A w \in Occupied : req'[records'[w].txn].line = req[records[w].txn].line
    BY <1>1 DEF Occupied
  <2> QED
    BY <1>2, <2>1 DEF pool_hazard_addrs
<1>5. \A t : Bypasses(t)' <=> Bypasses(t)
  BY <1>4 DEF Bypasses, dependent
<1>6. HeadConsumable' <=> HeadConsumable
  <2>1. Supported(req[Head(pending_reqs)])' <=> Supported(req[Head(pending_reqs)])
    BY DEF Supported, SizeSupported, size_bytes
  <2>2. Bypasses(Head(pending_reqs))' <=> Bypasses(Head(pending_reqs))
    BY <1>4 DEF Bypasses, dependent
  <2> QED
    BY <1>3, <2>1, <2>2 DEF HeadConsumable
<1> QED
  BY <1>6 DEF WakeInv

\* The handlers of the DUT's answers keep a record's transaction.
LEMMA WakeAnswer ==
    ASSUME SlotInv, WakeInv, NEW w \in WireIds,
           on_txrsp(w, "DBIDResp") \/ on_txrsp(w, "Comp") \/ on_txdat(w)
    PROVE  WakeInv'
<1>1. UNCHANGED <<req, pending_reqs, issuing>>
  BY DEF on_txrsp, on_txdat, on_rsp, on_dat, hnfVars, agentVars
<1>2. CASE records[w] = None
  BY <1>1, <1>2, WakeFrame DEF on_txrsp, on_txdat, mapperVars, SlotInv, SlotInvOn
<1>3. CASE records[w] # None
  <2>1. TypeInv /\ records \in [WireIds -> TxnRecords \cup {None}]
    BY DEF SlotInv, SlotInvOn, TypeInv, TypeOK, AgentTypeOK, MapperTypeOK
  <2>2. PICK r : /\ records' = [records EXCEPT ![w] = r]
                 /\ r # None /\ r.txn = records[w].txn
    BY <1>3, <2>1, TxrspRecord, TxdatRecord
  <2>3. \A v \in WireIds : /\ records'[v] = None <=> records[v] = None
                           /\ records[v] # None => records'[v].txn = records[v].txn
    BY <1>3, <2>1, <2>2
  <2> QED
    BY <1>1, <2>1, <2>3, WakeFrame
<1> QED
  BY <1>2, <1>3

LEMMA WakeStep == SlotInv /\ WakeInv /\ [Next]_vars => WakeInv'
<1> SUFFICES ASSUME SlotInv, WakeInv, [Next]_vars PROVE WakeInv'
  OBVIOUS
<1>1. CASE retry_pending
  BY <1>1 DEF retry_pending, WakeInv
<1>2. CASE UNCHANGED <<req, pending_reqs, issuing, records>>
  BY <1>2, WakeFrame DEF SlotInv, SlotInvOn
<1>3. ASSUME NEW t \in Txns, Gem5Req(t) \/ Gem5Dat(t) PROVE WakeInv'
  BY <1>1, <1>2, <1>3 DEF Gem5Req, Gem5Dat, handle_gem5_req, handle_gem5_dat,
                          send_write_data, mapperVars
<1>4. CASE RetryPending
  BY <1>1, <1>4 DEF RetryPending, drop_req, issue_req
<1>5. CASE Deliver \/ UNCHANGED vars
  BY <1>2, <1>5 DEF Deliver, vars, hnfVars, mapperVars, agentVars
<1>6. CASE Cycle
  BY <1>1, <1>6 DEF Cycle, on_cycle
<1>7. CASE DutPCrdGrant
  BY <1>1, <1>2, <1>7 DEF DutPCrdGrant, on_pcrdgrant, reissue, mapperVars, hnfVars
<1>8. ASSUME NEW w \in WireIds, DutRetryAck(w) PROVE WakeInv'
  BY <1>2, <1>8 DEF DutRetryAck, on_retryack, hnfVars
<1>9. ASSUME NEW w \in WireIds, DutDBIDResp(w) PROVE WakeInv'
  <2>1. ~dut[w].ewa
    BY <1>9 DEF DutDBIDResp, SlotInv, SlotInvOn, SlotParts, NoEwa
  <2> QED
    BY <1>9, <2>1, WakeAnswer DEF DutDBIDResp
<1>10. ASSUME NEW w \in WireIds, DutComp(w) \/ DutCompData(w) PROVE WakeInv'
  BY <1>10, WakeAnswer DEF DutComp, DutCompData
<1> QED
  BY <1>3, <1>4, <1>5, <1>6, <1>7, <1>8, <1>9, <1>10 DEF Next, DutAnswer

(***************************************************************************)
(* No wake-up is lost: outside _retry_pending a request waits only because *)
(* the pool is full and it needs a slot.  Every handler that frees a slot, *)
(* or puts a request at the head, ends in _retry_pending.                  *)
(***************************************************************************)
THEOREM NoLostWakeUp == Spec => []StalledOnlyWhenFull
<1>1. Init => WakeInv
  BY DEF Init, AgentInit, WakeInv, HeadConsumable
<1>2. WakeInv => StalledOnlyWhenFull
  BY DEF WakeInv, HeadConsumable, StalledOnlyWhenFull
<1> QED
  BY <1>1, <1>2, SlotInit, SlotStep, WakeStep, PTL DEF Spec

-------------------------------------------------------------------------------
(***************************************************************************)
(* Bypass reads.  Steps that bring no request to the DUT, and put none on  *)
(* the link.                                                               *)
(***************************************************************************)
LEMMA BypassFrame ==
    ASSUME BypassInv, req' = req,
           \A v \in WireIds : dut'[v] # None =>
               dut[v] # None /\ dut'[v].txn = dut[v].txn /\ dut'[v].slot = dut[v].slot,
           \A i \in DOMAIN txn_queue' : txn_queue'[i].ch = "req" =>
               i \in DOMAIN txn_queue /\ txn_queue'[i] = txn_queue[i]
    PROVE  BypassInv'
<1>1. PoolIds \subseteq WireIds /\ ReadIds \subseteq WireIds
  BY DEF WireIds
<1>2. ReadsUnpooled'
  BY <1>1 DEF BypassInv, ReadsUnpooled
<1>3. ASSUME NEW i \in DOMAIN txn_queue', ReqOnRead(txn_queue[i])'
      PROVE  NoHazardAhead(i)'
  <2>1. /\ i \in DOMAIN txn_queue /\ txn_queue'[i] = txn_queue[i]
        /\ ReqOnRead(txn_queue[i]) /\ NoHazardAhead(i)
    BY <1>3 DEF ReqOnRead, BypassInv
  <2> QED
    BY <1>1, <2>1 DEF NoHazardAhead, ReqOnPool
<1> QED
  BY <1>2, <1>3 DEF BypassInv

\* An answer of the DUT about w changes nothing else of its entry than its
\* state and what is left of it, or removes it.
LEMMA BypassAnswer ==
    ASSUME TypeInv, BypassInv, UNCHANGED <<req, txn_queue>>, NEW w \in WireIds, dut[w] # None,
           NEW e, dut' = [dut EXCEPT ![w] = e],
           e # None => e.txn = dut[w].txn /\ e.slot = dut[w].slot
    PROVE  BypassInv'
<1>1. dut \in [WireIds -> DutEntries \cup {None}]
  BY DEF TypeInv, TypeOK, DutTypeOK
<1>2. \A v \in WireIds : dut'[v] # None =>
         dut[v] # None /\ dut'[v].txn = dut[v].txn /\ dut'[v].slot = dut[v].slot
  BY <1>1
<1> QED
  BY <1>2, BypassFrame

\* The agent issues a request: a bypass id only when no record in the pool
\* has its line, and each request ahead of it has its record.
LEMMA BypassIssue ==
    ASSUME SlotInv, BypassInv, issue_req, UNCHANGED dut
    PROVE  BypassInv'
<1>1. req' = req
  BY DEF issue_req, hnfVars
<1>a. Head(pending_reqs) \in Txns
  BY HeadTailProperties DEF issue_req, SlotInv, SlotInvOn, TypeInv, TypeOK, AgentTypeOK
<1>2. PICK w \in WireIds, t \in Txns :
        /\ t = Head(pending_reqs) /\ alloc(t, w, retried[t], read_beats(req[t]))
        /\ txn_queue' = Append(txn_queue, [ch |-> "req", wire |-> w, txn |-> t,
                                           ewa |-> FALSE, allow_retry |-> TRUE])
  BY <1>a DEF issue_req
<1> DEFINE f == [ch |-> "req", wire |-> w, txn |-> t, ewa |-> FALSE, allow_retry |-> TRUE]
           n == Len(txn_queue)
<1>3. txn_queue \in Seq(Flits) /\ n \in Nat /\ DOMAIN txn_queue = 1 .. n
  BY LenProperties DEF SlotInv, SlotInvOn, TypeInv, TypeOK, AgentTypeOK
<1>4. f.ch = "req" /\ f.wire = w /\ f.txn = t
  OBVIOUS
<1>5. txn_queue' = Append(txn_queue, f)
  BY <1>2
<1> HIDE DEF f, n
<1>6. /\ DOMAIN txn_queue' = 1 .. n + 1 /\ txn_queue'[n + 1] = f
      /\ \A i \in 1 .. n : txn_queue'[i] = txn_queue[i]
  <2>1. f \in Flits
    BY DEF f, Flits, ReqFlits
  <2> QED
    BY <1>3, <1>5, <2>1, AppendProperties, LenProperties DEF n
<1>7. PoolIds \subseteq WireIds /\ ReadIds \subseteq WireIds /\ PoolIds \cap ReadIds = {}
  BY MapperAssumption DEF WireIds, PoolIds, ReadIds, READ_ID_BASE
<1>8. ReadsUnpooled'
  BY <1>7 DEF BypassInv, ReadsUnpooled
<1>9. ASSUME NEW i \in 1 .. n, ReqOnRead(txn_queue[i]) PROVE NoHazardAhead(i)'
  <2>1. NoHazardAhead(i)
    BY <1>3, <1>9 DEF BypassInv
  <2>2. \A j \in DOMAIN txn_queue' : j < i => j \in DOMAIN txn_queue /\ txn_queue'[j] = txn_queue[j]
    BY <1>3, <1>6
  <2>3. txn_queue'[i] = txn_queue[i]
    BY <1>6
  <2> QED
    BY <1>1, <1>7, <2>1, <2>2, <2>3 DEF NoHazardAhead, ReqOnPool
<1>10. ASSUME NEW i \in Nat, i = n + 1, w \in ReadIds PROVE NoHazardAhead(i)'
  <2>1. Bypasses(t)
    BY <1>2, <1>7, <1>10 DEF alloc, FreeSlots
  <2>2. req[t].op = "read"
    BY <2>1 DEF Bypasses
  <2>3. \A v \in PoolIds : records[v] # None => req[records[v].txn].line # req[t].line
    BY <2>1 DEF Bypasses, dependent, pool_hazard_addrs, Occupied
  <2>4. \A v \in PoolIds : dut[v] # None => req[dut[v].txn].line # req[t].line
    BY <2>3 DEF SlotInv, SlotInvOn, SlotParts, HeldByDut, Holds
  <2>5. \A j \in 1 .. n : ReqOnPool(txn_queue[j]) =>
           req[txn_queue[j].txn].line # req[t].line
    BY <1>3, <2>3 DEF SlotInv, SlotInvOn, SlotParts, HeldByLink, Holds, ReqFor, ReqOnPool
  <2>6. \A j \in DOMAIN txn_queue' : j < n + 1 => j \in 1 .. n /\ txn_queue'[j] = txn_queue[j]
    BY <1>3, <1>6
  <2> QED
    BY <1>1, <1>4, <1>6, <1>7, <1>10, <2>2, <2>4, <2>5, <2>6 DEF NoHazardAhead, ReqOnPool
<1>11. ASSUME NEW i \in DOMAIN txn_queue', ReqOnRead(txn_queue[i])' PROVE NoHazardAhead(i)'
  <2>1. CASE i \in 1 .. n
    BY <1>6, <1>9, <1>11, <2>1 DEF ReqOnRead
  <2>2. CASE i = n + 1
    BY <1>3, <1>4, <1>6, <1>10, <1>11, <2>2 DEF ReqOnRead
  <2> QED
    BY <1>3, <1>6, <2>1, <2>2
<1> QED
  BY <1>8, <1>11 DEF BypassInv

\* The DUT admits or rejects the request at the head: a bypass read finds
\* its line in no slot.
LEMMA BypassDeliver ==
    ASSUME TypeInv, BypassInv, Deliver
    PROVE  BypassInv'
<1> DEFINE f == Head(txn_queue)
           n == Len(txn_queue)
<1>1. /\ txn_queue \in Seq(Flits) /\ txn_queue # << >> /\ req' = req
      /\ dut \in [WireIds -> DutEntries \cup {None}]
  BY DEF Deliver, hnfVars, TypeInv, TypeOK, AgentTypeOK, DutTypeOK
<1>2. /\ n \in Nat \ {0} /\ f = txn_queue[1] /\ f \in Flits
      /\ DOMAIN txn_queue = 1 .. n /\ DOMAIN txn_queue' = 1 .. (n - 1)
      /\ \A i \in 1 .. (n - 1) : txn_queue'[i] = txn_queue[i + 1]
  BY <1>1, HeadTailProperties, LenProperties, EmptySeq DEF Deliver
<1> HIDE DEF f, n
<1>3. PoolIds \subseteq WireIds /\ ReadIds \subseteq WireIds /\ PoolIds \cap ReadIds = {}
  BY MapperAssumption DEF WireIds, PoolIds, ReadIds, READ_ID_BASE
\* The pool entries after the step: those before it, and that of f.
<1>4. /\ \A v \in PoolIds : dut'[v] # None =>
            \/ dut[v] # None /\ dut'[v].txn = dut[v].txn
            \/ ReqOnPool(f) /\ dut'[v].txn = f.txn
      /\ ReadsUnpooled'
  <2>1. CASE Admit(f) \/ Reject(f)
    <3>1. f.ch = "req" /\ f.wire \in WireIds
      BY <1>2, <2>1 DEF Admit, Reject, Flits, ReqFlits, DatFlits
    <3>2. PICK s : /\ \/ dut' = [dut EXCEPT ![f.wire] = Entry(f, "admitted", s)]
                      \/ dut' = [dut EXCEPT ![f.wire] = Entry(f, "rejected", s)]
                   /\ s = None \/ s \in SlotsFor(f.txn, f.wire)
      BY <2>1 DEF Admit, Reject
    <3>3. \A st : Entry(f, st, s).txn = f.txn /\ Entry(f, st, s).slot = s
      BY DEF Entry
    <3>4. /\ dut'[f.wire].txn = f.txn /\ dut'[f.wire].slot = s
          /\ \A v \in WireIds : v # f.wire => dut'[v] = dut[v]
      BY <1>1, <3>1, <3>2, <3>3
    <3>5. ASSUME f.wire \in ReadIds PROVE s = None
      <4>1. NoHazardAhead(1) /\ 1 \in DOMAIN txn_queue
        BY <1>2, <3>1, <3>5 DEF BypassInv, ReqOnRead
      <4>2. /\ req[f.txn].op = "read"
            /\ \A v \in PoolIds : dut[v] # None => req[dut[v].txn].line # req[f.txn].line
        BY <1>2, <4>1 DEF NoHazardAhead
      <4>3. \A v \in Pooled : v \in PoolIds /\ dut[v] # None
        BY DEF Pooled, WireIds, BypassInv, ReadsUnpooled
      <4>4. ~NeedsSlot(f.txn)
        BY <4>2, <4>3 DEF NeedsSlot, DutDependent
      <4> QED
        BY <3>2, <4>4 DEF SlotsFor
    <3>6. ReadsUnpooled'
      BY <1>3, <3>4, <3>5 DEF BypassInv, ReadsUnpooled
    <3> QED
      BY <1>3, <3>1, <3>4, <3>6 DEF ReqOnPool
  <2>2. CASE Receive(f)
    <3>1. \A v \in WireIds : dut'[v] # None =>
            dut[v] # None /\ dut'[v].txn = dut[v].txn /\ dut'[v].slot = dut[v].slot
      <4>1. CASE UNCHANGED dut
        BY <4>1
      <4>2. ASSUME NEW u \in WireIds, NEW d, dut[u] # None,
                   dut' = [dut EXCEPT ![u].data = d]
            PROVE  \A v \in WireIds : dut'[v] # None =>
                       dut[v] # None /\ dut'[v].txn = dut[v].txn /\ dut'[v].slot = dut[v].slot
        <5> DEFINE e == [dut[u] EXCEPT !.data = d]
        <5>1. dut[u] \in DutEntries
          BY <1>1, <4>2
        <5>2. e.txn = dut[u].txn /\ e.slot = dut[u].slot /\ dut' = [dut EXCEPT ![u] = e]
          BY <4>2, <5>1 DEF DutEntries
        <5> HIDE DEF e
        <5> QED
          BY <1>1, <4>2, <5>2
      <4> QED
        BY <2>2, <4>1, <4>2 DEF Receive, Receiver, Pooled
    <3> QED
      BY <1>3, <3>1 DEF BypassInv, ReadsUnpooled
  <2> QED
    BY <2>1, <2>2 DEF Deliver, f
<1>5. ASSUME NEW i \in DOMAIN txn_queue', ReqOnRead(txn_queue[i])' PROVE NoHazardAhead(i)'
  <2>1. /\ i + 1 \in DOMAIN txn_queue /\ 1 \in DOMAIN txn_queue /\ 1 < i + 1
        /\ txn_queue'[i] = txn_queue[i + 1]
    BY <1>2
  <2>2. NoHazardAhead(i + 1)
    BY <1>5, <2>1 DEF BypassInv, ReqOnRead
  <2>3. \A j \in DOMAIN txn_queue' : j < i =>
          j + 1 \in DOMAIN txn_queue /\ j + 1 < i + 1 /\ txn_queue'[j] = txn_queue[j + 1]
    BY <1>2
  <2>4. ReqOnPool(f) => req[f.txn].line # req[txn_queue[i + 1].txn].line
    BY <1>2, <2>1, <2>2 DEF NoHazardAhead
  <2> QED
    BY <1>1, <1>4, <2>1, <2>2, <2>3, <2>4 DEF NoHazardAhead, ReqOnPool
<1> QED
  BY <1>4, <1>5 DEF BypassInv

LEMMA BypassStep == SlotInv /\ BypassInv /\ [Next]_vars => BypassInv'
<1> SUFFICES ASSUME SlotInv, BypassInv, [Next]_vars PROVE BypassInv'
  OBVIOUS
<1>1. TypeInv /\ dut \in [WireIds -> DutEntries \cup {None}] /\ txn_queue \in Seq(Flits)
  BY DEF SlotInv, SlotInvOn, TypeInv, TypeOK, DutTypeOK, AgentTypeOK
<1>2. CASE UNCHANGED <<dut, txn_queue>> /\ req' = req
  BY <1>2, BypassFrame
<1>3. ASSUME NEW t \in Txns, Gem5Req(t) PROVE BypassInv'
  BY <1>2, <1>3 DEF Gem5Req, handle_gem5_req, dutVars, expect
<1>4. ASSUME NEW t \in Txns, Gem5Dat(t) PROVE BypassInv'
  <2>1. UNCHANGED dut /\ req' = req
    BY <1>4 DEF Gem5Dat, handle_gem5_dat, send_write_data, dutVars
  <2>2. CASE UNCHANGED txn_queue
    BY <1>2, <2>1, <2>2
  <2>3. ASSUME NEW w \in WireIds, txn_queue' = txn_queue \o split_write_data(w, t)
        PROVE  BypassInv'
    <3> DEFINE d == split_write_data(w, t)
    <3>1. d \in Seq(Flits)
      BY <1>1, SplitType
    <3>2. \A i \in 1 .. Len(d) : d[i].ch = "dat"
      BY DEF split_write_data, DataBeat
    <3> HIDE DEF d
    <3>3. ASSUME NEW i \in DOMAIN txn_queue', txn_queue'[i].ch = "req"
          PROVE  i \in DOMAIN txn_queue /\ txn_queue'[i] = txn_queue[i]
      <4> DEFINE n == Len(txn_queue)
      <4>1. /\ n \in Nat /\ Len(d) \in Nat
            /\ DOMAIN txn_queue = 1 .. n /\ DOMAIN txn_queue' = 1 .. (n + Len(d))
            /\ \A j \in 1 .. n : txn_queue'[j] = txn_queue[j]
            /\ \A j \in 1 .. (n + Len(d)) : j \notin 1 .. n => txn_queue'[j] = d[j - n]
        BY <1>1, <2>3, <3>1, ConcatProperties, LenProperties DEF d
      <4> HIDE DEF n
      <4>2. i \notin 1 .. n => i - n \in 1 .. Len(d)
        BY <3>3, <4>1
      <4> QED
        BY <3>2, <3>3, <4>1, <4>2
    <3> QED
      BY <2>1, <3>3, BypassFrame
  <2> QED
    BY <1>4, <2>2, <2>3 DEF Gem5Dat, handle_gem5_dat
<1>5. CASE RetryPending
  BY <1>2, <1>5, BypassIssue DEF RetryPending, drop_req, dutVars, hnfVars
<1>6. CASE Deliver
  BY <1>1, <1>6, BypassDeliver
<1>7. CASE Cycle
  <2>1. /\ txn_queue' = txn_queue /\ req' = req
        /\ dut' = [v \in WireIds |-> Ticked(dut[v])]
    BY <1>7 DEF Cycle, on_cycle, hnfVars
  <2>2. \A v \in WireIds : Ticked(dut[v]) # None =>
           /\ dut[v] # None
           /\ Ticked(dut[v]).txn = dut[v].txn /\ Ticked(dut[v]).slot = dut[v].slot
    BY <1>1 DEF Ticked, HandBack, DutEntries
  <2> QED
    BY <2>1, <2>2, BypassFrame
<1>8. CASE DutPCrdGrant
  BY <1>2, <1>8 DEF DutPCrdGrant, on_pcrdgrant, hnfVars
<1>9. ASSUME NEW w \in WireIds, DutRetryAck(w) PROVE BypassInv'
  BY <1>1, <1>9, BypassAnswer DEF DutRetryAck, on_retryack, hnfVars
<1>10. ASSUME NEW w \in WireIds, DutDBIDResp(w) \/ DutComp(w) \/ DutCompData(w)
       PROVE  BypassInv'
  <2>1. UNCHANGED <<req, txn_queue>> /\ dut[w] \in DutEntries /\ dut[w] # None
    BY <1>1, <1>10 DEF DutDBIDResp, DutComp, DutCompData, on_txrsp, on_txdat, on_rsp, on_dat,
                       agentVars, hnfVars
  <2>2. \A d : HandBack(dut[w], d) # None =>
           HandBack(dut[w], d).txn = dut[w].txn /\ HandBack(dut[w], d).slot = dut[w].slot
    BY <2>1 DEF HandBack, DutEntries
  <2>3. PICK e : /\ dut' = [dut EXCEPT ![w] = e]
                 /\ e # None => e.txn = dut[w].txn /\ e.slot = dut[w].slot
    <3>1. CASE DutDBIDResp(w)
      <4> DEFINE g == [dut[w] EXCEPT !.st = "granted"]
      <4>1. g.txn = dut[w].txn /\ g.slot = dut[w].slot /\ dut' = [dut EXCEPT ![w] = g]
        BY <2>1, <3>1 DEF DutDBIDResp, DutEntries
      <4> QED
        BY <4>1
    <3>2. ASSUME NEW d, dut' = [dut EXCEPT ![w] = HandBack(@, d)]
          PROVE  \E e : /\ dut' = [dut EXCEPT ![w] = e]
                        /\ e # None => e.txn = dut[w].txn /\ e.slot = dut[w].slot
      BY <2>2, <3>2
    <3>3. CASE dut' = [dut EXCEPT ![w].left = @ - 1]
      <4> DEFINE g == [dut[w] EXCEPT !.left = @ - 1]
      <4>1. g.txn = dut[w].txn /\ g.slot = dut[w].slot /\ dut' = [dut EXCEPT ![w] = g]
        BY <2>1, <3>3 DEF DutEntries
      <4> QED
        BY <4>1
    <3> QED
      BY <1>10, <3>1, <3>2, <3>3 DEF DutComp, DutCompData
  <2> QED
    BY <1>1, <2>1, <2>3, BypassAnswer
<1>11. CASE UNCHANGED vars
  BY <1>2, <1>11 DEF vars, dutVars, agentVars, hnfVars
<1> QED
  BY <1>3, <1>4, <1>5, <1>6, <1>7, <1>8, <1>9, <1>10, <1>11 DEF Next, DutAnswer

(***************************************************************************)
(* A read _issue_req sends under a bypass id is one the DUT lets bypass:   *)
(* pool_hazard_addrs names the line of every request that will hold a slot *)
(* when the read arrives, those still on the link included, so the agent's *)
(* slots and the DUT's stay in step.                                       *)
(***************************************************************************)
THEOREM BypassesAgree == Spec => BypassReadsBypass
<1>1. Init => BypassInv
  <2> SUFFICES ASSUME Init PROVE BypassInv
    OBVIOUS
  <2>1. txn_queue = << >> /\ \A w \in WireIds : dut[w] = None
    BY DEF Init, AgentInit, DutInit
  <2> QED
    BY <2>1 DEF BypassInv, ReadsUnpooled, WireIds
<1>2. BypassInv' => \A w \in ReadIds : dut'[w] # None => dut'[w].slot = None
  BY DEF BypassInv, ReadsUnpooled, ReadIds
<1>3. SlotInv /\ BypassInv /\ [Next]_vars =>
        [\A w \in ReadIds : dut[w] = None /\ dut'[w] # None => dut'[w].slot = None]_vars
  BY <1>2, BypassStep
<1> QED
  BY <1>1, <1>3, SlotInit, SlotStep, BypassStep, PTL DEF Spec, BypassReadsBypass
===============================================================================
