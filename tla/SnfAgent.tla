------------------------------- MODULE SnfAgent -------------------------------
(***************************************************************************)
(* SnfAgent of snf_agent.py: adapts the gem5 SN-F flits to the DUT's CHI   *)
(* link.  The operators below are its handlers; the runtime's dispatcher,  *)
(* the clock and the CHI monitor call them (see SnfSystem).                *)
(*                                                                         *)
(* Every handler is one Python call and runs without interruption.  The    *)
(* only loop among them, `_retry_pending`, takes one step per iteration:   *)
(* `issuing` holds while the loop runs and keeps every other step out.     *)
(***************************************************************************)
EXTENDS TxnIdMapper

VARIABLES
    pending_reqs,   \* gem5 requests waiting for a pool slot, FIFO
    txn_queue,      \* flits on their way to the DUT: _txn_queue, the driver's
                    \* item_fifo and the link, one FIFO in series
    retrying,       \* RetryAck'd requests waiting for a PCrdGrant, FIFO
    retried,        \* retried[t]: how many RetryAcks t has met
    issuing         \* control is inside the loop of _retry_pending

agentVars == <<pending_reqs, txn_queue, retrying, retried, issuing>>

DAT_BEAT_BYTES == 32
DATA_ID_LOW == 0
DATA_ID_HIGH == 2

ReqFlits == [ch : {"req"}, wire : WireIds, txn : Txns,
             ewa : BOOLEAN,             \* memattr bit 0
             allow_retry : BOOLEAN]
DatFlits == [ch : {"dat"}, wire : WireIds, txn : Txns,
             data_id : {DATA_ID_LOW, DATA_ID_HIGH}]
Flits == ReqFlits \cup DatFlits

AgentInit ==
    /\ MapperInit
    /\ pending_reqs = << >>
    /\ txn_queue = << >>
    /\ retrying = << >>
    /\ retried = [t \in Txns |-> 0]
    /\ issuing = FALSE

(***************************************************************************)
(* bytes_size_to_log2: 0 means the whole line; anything that is not a      *)
(* power of two up to 64 is refused.                                       *)
(***************************************************************************)
size_bytes(r) == IF r.size = 0 THEN LINE_BYTES ELSE r.size

SizeSupported(r) == \E log2 \in 0 .. 6 : size_bytes(r) = 2 ^ log2

Supported(r) == SizeSupported(r) /\ r.op \in {"read", "write"}

read_beats(r) == IF size_bytes(r) \div DAT_BEAT_BYTES < 1
                   THEN 1 ELSE size_bytes(r) \div DAT_BEAT_BYTES

(***************************************************************************)
(* _retry_pending: the loop goes on as long as the request at the head can *)
(* be consumed, either dropped or given a wire id.                         *)
(***************************************************************************)
HeadConsumable ==
    /\ pending_reqs # << >>
    /\ LET t == Head(pending_reqs)
       IN  ~Supported(req[t]) \/ Bypasses(t) \/ FreeSlots # {}

retry_pending == issuing' = HeadConsumable'

\* Mutant: the request stays queued after it was consumed.
consume_head_keep == UNCHANGED pending_reqs

consume_head == pending_reqs' = Tail(pending_reqs)

(***************************************************************************)
(* _issue_req for the request at the head of the queue.                    *)
(***************************************************************************)
drop_req ==
    /\ issuing /\ pending_reqs # << >>
    /\ ~Supported(req[Head(pending_reqs)])
    /\ consume_head
    /\ UNCHANGED <<mapperVars, txn_queue, retrying, retried>>
    /\ UNCHANGED hnfVars
    /\ retry_pending

issue_req ==
    /\ issuing /\ pending_reqs # << >>
    /\ LET t == Head(pending_reqs)
       IN  /\ Supported(req[t])
           /\ \E w \in WireIds :
                /\ alloc(t, w, retried[t], read_beats(req[t]))
                /\ txn_queue' = Append(txn_queue,
                     [ch |-> "req", wire |-> w, txn |-> t,
                      ewa |-> FALSE, allow_retry |-> TRUE])
    /\ consume_head
    /\ UNCHANGED <<retrying, retried>>
    /\ UNCHANGED hnfVars
    /\ retry_pending

(***************************************************************************)
(* gem5 -> DUT.  A request joins pending_reqs and the loop runs.  Write    *)
(* data is addressed through find_write and split into 32-byte beats.      *)
(***************************************************************************)
handle_gem5_req(t) ==
    /\ ~issuing
    /\ expect(t)
    /\ pending_reqs' = Append(pending_reqs, t)
    /\ UNCHANGED <<mapperVars, txn_queue, retrying, retried>>
    /\ retry_pending

DataBeat(w, t, id) == [ch |-> "dat", wire |-> w, txn |-> t, data_id |-> id]

\* Mutant: a short write always goes to the low half of the line.
short_data_id_low(r) == DATA_ID_LOW

short_data_id(r) == IF r.half = 1 THEN DATA_ID_HIGH ELSE DATA_ID_LOW

\* By the length of the data gem5 sent, which is that of its request.
split_write_data(w, t) ==
    IF data_len(req[t]) > DAT_BEAT_BYTES
      THEN <<DataBeat(w, t, DATA_ID_LOW), DataBeat(w, t, DATA_ID_HIGH)>>
      ELSE <<DataBeat(w, t, short_data_id(req[t]))>>

handle_gem5_dat(t) ==
    /\ ~issuing
    /\ send_write_data(t)
    /\ \/ /\ WritesOf(t) = {}                       \* unknown txn: dropped
          /\ UNCHANGED txn_queue
       \/ \E w \in WireIds :
            /\ find_write(t, w)
            /\ txn_queue' = txn_queue \o split_write_data(w, t)
    /\ UNCHANGED <<mapperVars, pending_reqs, retrying, retried, issuing>>

(***************************************************************************)
(* DUT -> gem5.  RetryAck and PCrdGrant are absorbed here.                 *)
(***************************************************************************)
on_retryack(w) ==
    /\ ~issuing
    /\ IF records[w] = None
         THEN UNCHANGED <<pending_release, retrying, retried>>
         ELSE /\ release(w, 0)
              /\ retrying' = Append(retrying, records[w].txn)
              /\ retried' = [retried EXCEPT ![records[w].txn] = @ + 1]
    /\ UNCHANGED <<records, next_read_id, pending_reqs, txn_queue, issuing>>
    /\ UNCHANGED hnfVars

\* Mutant: the request is queued but nothing tries to issue it.
reissue_idle(t) == pending_reqs' = Append(pending_reqs, t) /\ UNCHANGED issuing

reissue(t) == pending_reqs' = Append(pending_reqs, t) /\ retry_pending

on_pcrdgrant ==
    /\ ~issuing
    /\ UNCHANGED <<mapperVars, txn_queue, retried>>
    /\ UNCHANGED hnfVars
    /\ IF retrying = << >>
         THEN UNCHANGED <<retrying, pending_reqs, issuing>>
         ELSE /\ retrying' = Tail(retrying)
              /\ reissue(Head(retrying))

\* Mutant: the slot itself is forwarded as DBID.
forwarded_dbid_slot(w, opcode) == IF opcode = "Comp" THEN records[w].fwd_dbid ELSE w

forwarded_dbid(w, opcode) == IF opcode = "Comp" THEN records[w].fwd_dbid ELSE w + 1
closes(opcode) == opcode \in {"Comp", "CompDBIDResp"}

on_txrsp(w, opcode) ==
    /\ ~issuing
    /\ IF records[w] = None
         THEN UNCHANGED <<mapperVars, hnfVars>>     \* unknown slot: dropped
         ELSE LET dbid == forwarded_dbid(w, opcode)
              IN  /\ records' = [records EXCEPT ![w].fwd_dbid = dbid]
                  /\ IF closes(opcode) THEN release(w, ReleaseMargin)
                                       ELSE UNCHANGED pending_release
                  /\ UNCHANGED next_read_id
                  /\ on_rsp(records[w].txn, opcode, dbid)
    /\ UNCHANGED agentVars

\* Mutant: the last beat is never recognised.
last_beat_endless(r) == r.beats_left - 1 < 0

last_beat(r) == r.beats_left - 1 <= 0

on_txdat(w) ==
    /\ ~issuing
    /\ IF records[w] = None \/ req[records[w].txn].op # "read"
         THEN UNCHANGED <<mapperVars, hnfVars>>     \* unknown or closed slot
         ELSE LET last == last_beat(records[w])
              IN  /\ records' = [records EXCEPT ![w].beats_left = @ - 1,
                                                ![w].next_dataid = @ + 1]
                  /\ IF last THEN release(w, ReleaseMargin)
                             ELSE UNCHANGED pending_release
                  /\ UNCHANGED next_read_id
                  /\ on_dat(records[w].txn, records[w].next_dataid, last, {0})
    /\ UNCHANGED agentVars

(***************************************************************************)
(* on_cycle: one DUT clock cycle, called by the barrier loop.              *)
(***************************************************************************)
on_cycle ==
    /\ ~issuing
    /\ mapper_on_cycle
    /\ UNCHANGED <<pending_reqs, txn_queue, retrying, retried>>
    /\ UNCHANGED hnfVars
    /\ retry_pending

AgentTypeOK ==
    /\ MapperTypeOK
    /\ pending_reqs \in Seq(Txns)
    /\ txn_queue \in Seq(Flits)
    /\ retrying \in Seq(Txns)
    /\ retried \in [Txns -> Nat]
    /\ issuing \in BOOLEAN
===============================================================================
