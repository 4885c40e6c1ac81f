------------------------------ MODULE TxnIdMapper -----------------------------
(***************************************************************************)
(* TxnIdMapper of snf_agent.py: the agent's mirror of the DUT transaction  *)
(* pool.  Wire txnids 0..PoolSlots-1 are pool slots (writes and dependent  *)
(* reads); the ids from READ_ID_BASE up belong to independent reads.       *)
(*                                                                         *)
(* A record keeps the gem5 transaction it stands for; the fields the code  *)
(* copies from the request (kind, addr, size, srcid, qos) are read through *)
(* req[record.txn].                                                        *)
(***************************************************************************)
EXTENDS HnfChecker, Sequences

CONSTANTS
    PoolSlots,      \* POOL_SLOTS
    ReadIdLimit,    \* one past the largest wire txnid (4096 in the code)
    ReleaseMargin,  \* RELEASE_MARGIN_CYCLES
    None            \* Python's None: no record, no entry, no slot

ASSUME MapperAssumption ==
    /\ PoolSlots \in Nat
    /\ ReadIdLimit \in Nat
    /\ PoolSlots < ReadIdLimit
    /\ ReleaseMargin \in Nat

READ_ID_BASE == PoolSlots
PoolIds == 0 .. PoolSlots - 1
ReadIds == READ_ID_BASE .. ReadIdLimit - 1
WireIds == PoolIds \cup ReadIds

(***************************************************************************)
(* `attempt` is how often the transaction had been retried when the record *)
(* was inserted: records of one transaction are in the dict in the order   *)
(* of their attempts.                                                      *)
(***************************************************************************)
TxnRecords == [txn : Txns, attempt : Nat, fwd_dbid : Nat,
               beats_left : Int, next_dataid : Nat]

Releases == [due : Nat, wire : WireIds]

ASSUME NoneIsNoRecord == None \notin TxnRecords

VARIABLES
    records,            \* wire id -> record, or None when not in the dict
    pending_release,    \* FIFO of [due, wire]; due counts from self.cycle,
                        \* 0 when it has passed
    next_read_id

mapperVars == <<records, pending_release, next_read_id>>

MapperInit ==
    /\ records = [w \in WireIds |-> None]
    /\ pending_release = << >>
    /\ next_read_id = READ_ID_BASE

Occupied == {w \in PoolIds : records[w] # None}
FreeSlots == PoolIds \ Occupied

\* Mutant: a write stops being a hazard once it is granted.
pool_hazard_addrs_ungranted ==
    {req[records[w].txn].line : w \in {v \in Occupied : records[v].fwd_dbid = 0}}

pool_hazard_addrs == {req[records[w].txn].line : w \in Occupied}

dependent(t) == req[t].line \in pool_hazard_addrs

Bypasses(t) == req[t].op = "read" /\ ~dependent(t)

\* Mutant: the read id wraps one id late.
read_id_after_late(n) == IF n + 1 > ReadIdLimit THEN READ_ID_BASE ELSE n + 1

read_id_after(n) == IF n + 1 >= ReadIdLimit THEN READ_ID_BASE ELSE n + 1

(***************************************************************************)
(* alloc gives transaction t the wire id w.                                *)
(***************************************************************************)
alloc(t, w, attempt, beats) ==
    /\ records' = [records EXCEPT ![w] =
                      [txn |-> t, attempt |-> attempt, fwd_dbid |-> 0,
                       beats_left |-> beats, next_dataid |-> 0]]
    /\ \/ /\ Bypasses(t)
          /\ w = next_read_id
          /\ next_read_id' = read_id_after(next_read_id)
       \/ /\ ~Bypasses(t)
          /\ w \in FreeSlots
          /\ \A s \in FreeSlots : w <= s
          /\ UNCHANGED next_read_id
    /\ UNCHANGED pending_release

\* Mutant: only a release without margin is queued.
release_lost(w, margin) ==
    pending_release' =
        IF records[w] = None \/ margin # 0 THEN pending_release
        ELSE Append(pending_release, [due |-> margin, wire |-> w])

release(w, margin) ==
    pending_release' =
        IF records[w] = None THEN pending_release
        ELSE Append(pending_release, [due |-> margin, wire |-> w])

(***************************************************************************)
(* on_cycle: the clock advances one cycle, then the entries at the head of *)
(* the FIFO that have come due are popped, up to the first that has not.   *)
(***************************************************************************)
Elapsed(e) == [e EXCEPT !.due = IF @ = 0 THEN 0 ELSE @ - 1]

\* Mutant: a release does not wait for its margin.
ComesDue_early(e) == e.due >= 0

ComesDue(e) == e.due <= 1

mapper_on_cycle ==
    \E k \in 0 .. Len(pending_release) :
        /\ \A i \in 1 .. k : ComesDue(pending_release[i])
        /\ k < Len(pending_release) => ~ComesDue(pending_release[k + 1])
        /\ pending_release' = [i \in 1 .. Len(pending_release) - k |->
                                  Elapsed(pending_release[i + k])]
        /\ records' = [w \in WireIds |->
                          IF \E i \in 1 .. k : pending_release[i].wire = w
                            THEN None ELSE records[w]]
        /\ UNCHANGED next_read_id

(***************************************************************************)
(* find_write: w holds the first record of write t in the dict, if any.    *)
(***************************************************************************)
WritesOf(t) == {w \in WireIds : /\ records[w] # None
                                /\ records[w].txn = t
                                /\ req[t].op = "write"}

find_write(t, w) ==
    /\ w \in WritesOf(t)
    /\ \A v \in WritesOf(t) : records[w].attempt <= records[v].attempt

MapperTypeOK ==
    /\ records \in [WireIds -> TxnRecords \cup {None}]
    /\ pending_release \in Seq(Releases)
    /\ next_read_id \in ReadIds
===============================================================================
