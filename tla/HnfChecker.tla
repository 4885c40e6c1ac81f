------------------------------ MODULE HnfChecker ------------------------------
(***************************************************************************)
(* The gem5 side of the SN-F port: the acceptance contract of the home     *)
(* node, as `HnfChecker` in fake_gem5.py enforces it.                      *)
(*                                                                         *)
(* A request is identified by its gem5 txnid (an element of Txns).  What   *)
(* it asks for is chosen once, in the initial state, and never changes.    *)
(* A flit that breaks the contract raises ContractError, which ends the    *)
(* run: `failed` becomes TRUE and gem5 neither sends nor accepts anything  *)
(* any more.                                                               *)
(***************************************************************************)
EXTENDS Integers

CONSTANTS
    Txns,       \* gem5 txnids; one HNF, so srcid does not tell requests apart
    Requests    \* [op, line, half, size]: opcode class, 64-byte line,
                \* addr[5] as the half of the line, and size in bytes

ASSUME RequestsAssumption ==
    Requests \subseteq
        [op : {"read", "write", "other"}, line : Nat, half : {0, 1}, size : Nat]

\* Every REQ of gem5 states its size (_read_req, _write_req).
ASSUME SizesAssumption == \A r \in Requests : r.size # 0

VARIABLES
    req,        \* req[t]: the request gem5 makes under txnid t
    hnf,        \* hnf[t]: the checker's entry for t (`reads` / `writes`)
    failed      \* a ContractError was raised

hnfVars == <<req, hnf, failed>>

LINE_BYTES == 64
BEAT_BYTES == 32

(***************************************************************************)
(* An entry.  `phase` is the write phase, or "read"; "other" stands for a  *)
(* request the checker does not track.  `completed` counts this entry's    *)
(* share of completed_reads / completed_writes; r["done"] is completed > 0.*)
(***************************************************************************)
Phases == {"unsent", "read", "wait_dbid", "wait_data", "wait_comp",
           "done", "other"}

HnfEntries == [phase : Phases, dbid : Nat, beats : Nat, completed : Nat]

HnfInit ==
    /\ req \in [Txns -> Requests]
    /\ hnf = [t \in Txns |->
                [phase |-> "unsent", dbid |-> 0, beats |-> 0, completed |-> 0]]
    /\ failed = FALSE

beats_expected(r) == (r.size + BEAT_BYTES - 1) \div BEAT_BYTES

(***************************************************************************)
(* Sending: expect_read / expect_write before the REQ flit goes out, and   *)
(* the flush of pending_write_data, which moves a write to wait_comp.      *)
(***************************************************************************)
expect(t) ==
    /\ ~failed
    /\ hnf[t].phase = "unsent"
    /\ hnf' = [hnf EXCEPT ![t].phase =
                    CASE req[t].op = "read"  -> "read"
                      [] req[t].op = "write" -> "wait_dbid"
                      [] req[t].op = "other" -> "other"]
    /\ UNCHANGED <<req, failed>>

\* The bytes of data in the DAT flit: what the request announced.
data_len(r) == r.size

send_write_data(t) ==
    /\ ~failed
    /\ hnf[t].phase = "wait_data"
    /\ hnf' = [hnf EXCEPT ![t].phase = "wait_comp"]
    /\ UNCHANGED <<req, failed>>

(***************************************************************************)
(* on_rsp: which RSP flit an entry accepts, and the entry afterwards.      *)
(***************************************************************************)
RspAccepted(h, opcode, dbid) ==
    \/ /\ opcode \in {"DBIDResp", "CompDBIDResp"}
       /\ h.phase = "wait_dbid"
       /\ dbid # 0
    \/ /\ opcode = "Comp"
       /\ h.phase = "wait_comp"
       /\ dbid = h.dbid

AfterRsp(h, opcode, dbid) ==
    CASE opcode = "DBIDResp"     -> [h EXCEPT !.dbid = dbid, !.phase = "wait_data"]
      [] opcode = "CompDBIDResp" -> [h EXCEPT !.dbid = dbid, !.phase = "done",
                                              !.completed = @ + 1]
      [] opcode = "Comp"         -> [h EXCEPT !.completed = @ + 1]

on_rsp(t, opcode, dbid) ==
    /\ UNCHANGED req
    /\ IF ~failed /\ RspAccepted(hnf[t], opcode, dbid)
         THEN /\ hnf' = [hnf EXCEPT ![t] = AfterRsp(@, opcode, dbid)]
              /\ UNCHANGED failed
         ELSE failed' = TRUE /\ UNCHANGED hnf

(***************************************************************************)
(* on_dat: CompData beats arrive in dataid order, the last one flagged,    *)
(* and say that there was no error.  `resp_err` is the set of values the   *)
(* flit carries as respErr: empty when it has no such field, and the       *)
(* checker wants the field there.  Node ids, dbid, resp and the geometry   *)
(* of a beat (beatOffset, length, byteEnable, chunkValid) follow from the  *)
(* request and dataid in the same way in both senders, and are left out.   *)
(***************************************************************************)
DatAccepted(h, r, dataid, last, resp_err) ==
    /\ h.phase = "read"
    /\ h.completed = 0
    /\ resp_err = {0}
    /\ dataid = h.beats
    /\ last = (h.beats + 1 = beats_expected(r))

on_dat(t, dataid, last, resp_err) ==
    /\ UNCHANGED req
    /\ IF ~failed /\ DatAccepted(hnf[t], req[t], dataid, last, resp_err)
         THEN /\ hnf' = [hnf EXCEPT ![t].beats = @ + 1,
                                    ![t].completed = IF last THEN @ + 1 ELSE @]
              /\ UNCHANGED failed
         ELSE failed' = TRUE /\ UNCHANGED hnf

HnfTypeOK ==
    /\ req \in [Txns -> Requests]
    /\ hnf \in [Txns -> HnfEntries]
    /\ failed \in BOOLEAN
===============================================================================
