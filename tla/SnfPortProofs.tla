----------------------------- MODULE SnfPortProofs ----------------------------
(***************************************************************************)
(* The SN-F path keeps its promises towards gem5: no request is lost or    *)
(* doubled, no write data is lost, no ContractError is raised, and the     *)
(* flits gem5 sees are those of SnfPort, until one of the three things the *)
(* agent takes for granted fails (SnfFaults): that the DUT uses the slot   *)
(* the agent assigned, that next_read_id is free, and that find_write has  *)
(* one record to find.  Nothing is assumed of the allocator, the margins,  *)
(* the rejections or the number of read ids.  The last theorem says that   *)
(* the third can fail only for a write the DUT has rejected.               *)
(***************************************************************************)
EXTENDS SnfSystemProofs, SnfFaults, FiniteSetTheorems

(***************************************************************************)
(* Counting the elements of a sequence that are in a set.                  *)
(***************************************************************************)
Hits(s, S) == {i \in DOMAIN s : s[i] \in S}

LEMMA HitsFinite ==
    ASSUME NEW A, NEW s \in Seq(A), NEW S
    PROVE  IsFiniteSet(Hits(s, S)) /\ Cardinality(Hits(s, S)) \in Nat
<1>1. Len(s) \in Nat /\ DOMAIN s = 1 .. Len(s)
  BY LenProperties
<1>2. IsFiniteSet(1 .. Len(s))
  BY <1>1, FS_Interval
<1>3. IsFiniteSet(Hits(s, S))
  BY <1>1, <1>2, FS_Subset DEF Hits
<1> QED
  BY <1>3, FS_CardinalityType

\* Append adds one if the new element is in the set.
LEMMA HitsAppend ==
    ASSUME NEW A, NEW s \in Seq(A), NEW x \in A, NEW S
    PROVE  Cardinality(Hits(Append(s, x), S)) =
              Cardinality(Hits(s, S)) + (IF x \in S THEN 1 ELSE 0)
<1> DEFINE n == Len(s)
           q == Append(s, x)
<1>1. /\ n \in Nat /\ DOMAIN s = 1 .. n /\ DOMAIN q = 1 .. (n + 1)
      /\ \A i \in 1 .. n : q[i] = s[i]
      /\ q[n + 1] = x
  BY AppendProperties, LenProperties
<1>2. IsFiniteSet(Hits(s, S)) /\ Cardinality(Hits(s, S)) \in Nat
  BY HitsFinite
<1> HIDE DEF n, q
<1>3. n + 1 \notin Hits(s, S)
  BY <1>1 DEF Hits
<1>4. CASE x \in S
  <2>1. Hits(q, S) = Hits(s, S) \cup {n + 1}
    BY <1>1, <1>4 DEF Hits
  <2> QED
    BY <1>2, <1>3, <1>4, <2>1, FS_AddElement DEF q
<1>5. CASE x \notin S
  <2>1. Hits(q, S) = Hits(s, S)
    BY <1>1, <1>5 DEF Hits
  <2> QED
    BY <1>2, <1>5, <2>1 DEF q
<1> QED
  BY <1>4, <1>5

\* Tail takes one away if the head is in the set.
LEMMA HitsTail ==
    ASSUME NEW A, NEW s \in Seq(A), s # << >>, NEW S
    PROVE  Cardinality(Hits(Tail(s), S)) =
              Cardinality(Hits(s, S)) - (IF Head(s) \in S THEN 1 ELSE 0)
<1> DEFINE n == Len(s)
           q == Tail(s)
           X == Hits(q, S)
           Y == Hits(s, S) \ {1}
<1>1. /\ n \in Nat \ {0} /\ DOMAIN s = 1 .. n /\ DOMAIN q = 1 .. (n - 1)
      /\ \A i \in 1 .. (n - 1) : q[i] = s[i + 1]
      /\ Head(s) = s[1]
      /\ q \in Seq(A)
  BY HeadTailProperties, LenProperties, EmptySeq
<1>2. IsFiniteSet(X) /\ IsFiniteSet(Hits(s, S)) /\ Cardinality(Hits(s, S)) \in Nat
  BY <1>1, HitsFinite
<1> HIDE DEF n, q
<1>3. /\ \A i : i \in X => i \in Int /\ i + 1 \in Y
      /\ \A j : j \in Y => j \in Int /\ j - 1 \in X
  BY <1>1 DEF Hits
<1>4. ExistsBijection(X, Y)
  <2> DEFINE f == [i \in X |-> i + 1]
  <2> HIDE DEF X, Y
  <2>1. f \in [X -> Y]
    BY <1>3
  <2>2. \A i, j \in X : f[i] = f[j] => i = j
    BY <1>3
  <2>3. \A j \in Y : \E i \in X : f[i] = j
    <3> SUFFICES ASSUME NEW j \in Y PROVE \E i \in X : f[i] = j
      OBVIOUS
    <3>1. j - 1 \in X /\ (j - 1) + 1 = j
      BY <1>3
    <3> QED
      BY <3>1
  <2>4. f \in Bijection(X, Y)
    BY <2>1, <2>2, <2>3 DEF Bijection, Injection, Surjection, IsInjective
  <2> QED
    BY <2>4 DEF ExistsBijection
<1>5. Cardinality(X) = Cardinality(Y)
  BY <1>2, <1>4, FS_Bijection
<1>6. Cardinality(Y) = IF 1 \in Hits(s, S) THEN Cardinality(Hits(s, S)) - 1
                                           ELSE Cardinality(Hits(s, S))
  BY <1>2, FS_RemoveElement
<1>7. 1 \in Hits(s, S) <=> Head(s) \in S
  BY <1>1 DEF Hits
<1> QED
  BY <1>2, <1>5, <1>6, <1>7 DEF q

-------------------------------------------------------------------------------
(***************************************************************************)
(* Copies, as the sum of four counts.                                      *)
(***************************************************************************)
ReqsOf(t) == {f \in Flits : f.ch = "req" /\ f.txn = t}

InDut(t) == {w \in WireIds : dut[w] # None /\ dut[w].txn = t /\ dut[w].st # "drain"}

NPending(t) == Cardinality(Hits(pending_reqs, {t}))
NRetrying(t) == Cardinality(Hits(retrying, {t}))
NQueued(t) == Cardinality(Hits(txn_queue, ReqsOf(t)))
NInDut(t) == Cardinality(InDut(t))

Counted ==
    \A t \in Txns :
        /\ Copies(t) = NPending(t) + NRetrying(t) + NQueued(t) + NInDut(t)
        /\ NPending(t) \in Nat /\ NRetrying(t) \in Nat
        /\ NQueued(t) \in Nat /\ NInDut(t) \in Nat
        /\ IsFiniteSet(InDut(t))

LEMMA CopiesCounted == TypeInv => Counted
<1> SUFFICES ASSUME TypeInv, NEW t \in Txns
             PROVE  /\ Copies(t) = NPending(t) + NRetrying(t) + NQueued(t) + NInDut(t)
                    /\ NPending(t) \in Nat /\ NRetrying(t) \in Nat
                    /\ NQueued(t) \in Nat /\ NInDut(t) \in Nat
                    /\ IsFiniteSet(InDut(t))
  BY DEF Counted
<1>1. pending_reqs \in Seq(Txns) /\ retrying \in Seq(Txns) /\ txn_queue \in Seq(Flits)
  BY DEF TypeInv, TypeOK, AgentTypeOK
<1>2. NPending(t) \in Nat /\ NRetrying(t) \in Nat /\ NQueued(t) \in Nat
  BY <1>1, HitsFinite DEF NPending, NRetrying, NQueued
<1>3. IsFiniteSet(WireIds)
  <2>1. IsFiniteSet(PoolIds) /\ IsFiniteSet(ReadIds)
    BY MapperAssumption, FS_Interval DEF PoolIds, ReadIds, READ_ID_BASE
  <2> QED
    BY <2>1, FS_Union DEF WireIds
<1>4. IsFiniteSet(InDut(t))
  BY <1>3, FS_Subset DEF InDut
<1>5. NInDut(t) \in Nat
  BY <1>4, FS_CardinalityType DEF NInDut
<1>6. InSeq(pending_reqs, t) = Hits(pending_reqs, {t}) /\ InSeq(retrying, t) = Hits(retrying, {t})
  BY DEF InSeq, Hits
<1>7. \A i \in DOMAIN txn_queue : txn_queue[i] \in Flits
  BY <1>1, ElementOfSeq, LenProperties
<1>8. {i \in DOMAIN txn_queue : txn_queue[i].ch = "req" /\ txn_queue[i].txn = t}
         = Hits(txn_queue, ReqsOf(t))
  BY <1>7 DEF Hits, ReqsOf
<1>9. Copies(t) = NPending(t) + NRetrying(t) + NQueued(t) + NInDut(t)
  BY <1>6, <1>8, Zenon DEF Copies, NPending, NRetrying, NQueued, NInDut, InDut
<1> QED
  BY <1>2, <1>4, <1>5, <1>9

(***************************************************************************)
(* How the entry of one wire id changes the count of the DUT.  A request   *)
(* is live in the DUT until its last answer.                               *)
(***************************************************************************)
Live(e) == e # None /\ e.st # "drain"

LEMMA DutCount ==
    ASSUME TypeInv, NEW w \in WireIds, NEW e, dut' = [dut EXCEPT ![w] = e],
           Live(e) /\ Live(dut[w]) => e.txn = dut[w].txn, NEW t \in Txns
    PROVE  NInDut(t)' = NInDut(t) + (IF Live(e) /\ e.txn = t THEN 1 ELSE 0)
                                  - (IF Live(dut[w]) /\ dut[w].txn = t THEN 1 ELSE 0)
<1>1. IsFiniteSet(InDut(t)) /\ NInDut(t) \in Nat
  BY CopiesCounted DEF Counted
<1>2. /\ dut \in [WireIds -> DutEntries \cup {None}]
      /\ WireIds' = WireIds
  BY DEF TypeInv, TypeOK, DutTypeOK
<1>3. dut'[w] = e /\ \A v \in WireIds : v # w => dut'[v] = dut[v]
  BY <1>2
<1>4. w \in InDut(t) <=> Live(dut[w]) /\ dut[w].txn = t
  BY DEF InDut, Live
<1>5. CASE Live(e) /\ e.txn = t
  <2>1. InDut(t)' = InDut(t) \cup {w}
    BY <1>2, <1>3, <1>5 DEF InDut, Live
  <2>2. NInDut(t)' = IF w \in InDut(t) THEN NInDut(t) ELSE NInDut(t) + 1
    BY <1>1, <2>1, FS_AddElement DEF NInDut
  <2> QED
    BY <1>1, <1>4, <1>5, <2>2
<1>6. CASE ~(Live(e) /\ e.txn = t)
  <2>1. InDut(t)' = InDut(t) \ {w}
    BY <1>2, <1>3, <1>6 DEF InDut, Live
  <2>2. NInDut(t)' = IF w \in InDut(t) THEN NInDut(t) - 1 ELSE NInDut(t)
    BY <1>1, <2>1, FS_RemoveElement DEF NInDut
  <2> QED
    BY <1>1, <1>4, <1>6, <2>2
<1> QED
  BY <1>5, <1>6

-------------------------------------------------------------------------------
(***************************************************************************)
(* OnePlace, as long as gem5 has raised no ContractError.                  *)
(***************************************************************************)
\* gem5 has sent t and has not seen its last answer.
Open(t) == hnf[t].phase # "unsent" /\ ~(hnf[t].completed > 0)

PlaceOk(t) ==
    /\ ~Open(t) => Copies(t) = 0
    /\ Open(t) => Copies(t) = 1 \/ (~Supported(req[t]) /\ Copies(t) = 0)

UnsentFresh == \A t \in Txns : hnf[t].phase = "unsent" => hnf[t].completed = 0

PlaceInv == SlotInvOn(WireIds) /\ OnePlace /\ UnsentFresh

LEMMA OnePlaceIs == OnePlace <=> \A t \in Txns : PlaceOk(t)
BY DEF OnePlace, PlaceOk, Open

\* A step that moves no request and changes no request's standing with gem5.
LEMMA PlaceFrame ==
    ASSUME NEW t \in Txns, PlaceOk(t), req' = req, Open(t)' <=> Open(t),
           Copies(t)' = Copies(t)
    PROVE  PlaceOk(t)'
BY DEF PlaceOk, Supported, SizeSupported, size_bytes

\* What the handlers of the DUT's answers do to gem5's side: the flit goes to
\* the transaction the DUT answers for.
LEMMA RspGoesTo ==
    ASSUME SlotInvOn(WireIds), NEW w \in WireIds, dut[w] # None, NEW opcode,
           on_txrsp(w, opcode)
    PROVE  /\ on_rsp(dut[w].txn, opcode, forwarded_dbid(w, opcode))
           /\ records[w] # None /\ dut[w].txn \in Txns
           /\ records' = [records EXCEPT ![w].fwd_dbid = forwarded_dbid(w, opcode)]
           /\ UNCHANGED agentVars
<1>1. Holds(w, dut[w].txn)
  BY DEF SlotInvOn, SlotParts, HeldByDut
<1>2. dut[w].txn \in Txns
  BY DEF SlotInvOn, TypeInv, TypeOK, DutTypeOK, DutEntries
<1> QED
  BY <1>1, <1>2 DEF Holds, on_txrsp

LEMMA DatGoesTo ==
    ASSUME SlotInvOn(WireIds), NEW w \in WireIds, dut[w] # None,
           dut[w].st = "admitted", req[dut[w].txn].op = "read", on_txdat(w)
    PROVE  /\ on_dat(dut[w].txn, records[w].next_dataid, dut[w].left <= 1, {0})
           /\ records[w] # None /\ dut[w].txn \in Txns
           /\ records' = [records EXCEPT ![w].beats_left = @ - 1,
                                         ![w].next_dataid = @ + 1]
           /\ UNCHANGED agentVars
<1>1. Holds(w, dut[w].txn) /\ records[w].beats_left = dut[w].left
  BY DEF SlotInvOn, SlotParts, HeldByDut, BeatsAgree
<1>2. dut[w].txn \in Txns /\ dut[w].left \in Nat
  BY DEF SlotInvOn, TypeInv, TypeOK, DutTypeOK, DutEntries
<1>3. last_beat(records[w]) = (dut[w].left <= 1)
  BY <1>1, <1>2 DEF last_beat
<1> QED
  BY <1>1, <1>2, <1>3 DEF Holds, on_txdat

\* An entry that is handed back is live no more.
LEMMA HandBackNotLive ==
    ASSUME NEW e \in DutEntries, NEW d
    PROVE  ~Live(HandBack(e, d))
BY DEF HandBack, Live, DutEntries

\* A flit gem5 accepts completes its transaction or leaves it open.
LEMMA AcceptedRsp ==
    ASSUME HnfTypeOK, NEW u \in Txns, NEW opcode \in {"DBIDResp", "Comp"}, NEW dbid \in Nat,
           on_rsp(u, opcode, dbid), ~failed'
    PROVE  /\ \A t \in Txns : t # u => hnf'[t] = hnf[t]
           /\ hnf[u].phase # "unsent" /\ hnf'[u].phase # "unsent"
           /\ hnf'[u].completed = hnf[u].completed + (IF opcode = "Comp" THEN 1 ELSE 0)
           /\ ~failed /\ RspAccepted(hnf[u], opcode, dbid)
           /\ hnf'[u].beats = hnf[u].beats
           /\ opcode = "DBIDResp" => hnf'[u].phase = "wait_data" /\ hnf'[u].dbid = dbid
           /\ opcode = "Comp" => hnf'[u].phase = "wait_comp"
<1>1. hnf \in [Txns -> HnfEntries] /\ hnf[u] \in HnfEntries /\ hnf[u].completed \in Nat
  BY DEF HnfTypeOK, HnfEntries
<1>2. /\ ~failed /\ RspAccepted(hnf[u], opcode, dbid)
      /\ hnf' = [hnf EXCEPT ![u] = AfterRsp(hnf[u], opcode, dbid)]
  BY DEF on_rsp
<1>3. hnf'[u] = AfterRsp(hnf[u], opcode, dbid) /\ \A t \in Txns : t # u => hnf'[t] = hnf[t]
  BY <1>1, <1>2
<1>4. CASE opcode = "DBIDResp"
  <2>1. hnf'[u] = [hnf[u] EXCEPT !.dbid = dbid, !.phase = "wait_data"]
    BY <1>3, <1>4 DEF AfterRsp
  <2>2. hnf[u].phase = "wait_dbid"
    BY <1>2, <1>4 DEF RspAccepted
  <2>3. /\ hnf'[u].phase = "wait_data" /\ hnf'[u].dbid = dbid
        /\ hnf'[u].beats = hnf[u].beats /\ hnf'[u].completed = hnf[u].completed
    BY <1>1, <2>1 DEF HnfEntries
  <2> QED
    BY <1>1, <1>2, <1>3, <1>4, <2>2, <2>3
<1>5. CASE opcode = "Comp"
  <2>1. hnf'[u] = [hnf[u] EXCEPT !.completed = @ + 1]
    BY <1>3, <1>5 DEF AfterRsp
  <2>2. hnf[u].phase = "wait_comp"
    BY <1>2, <1>5 DEF RspAccepted
  <2> QED
    BY <1>1, <1>2, <1>3, <1>5, <2>1, <2>2 DEF HnfEntries
<1> QED
  BY <1>4, <1>5

LEMMA AcceptedDat ==
    ASSUME HnfTypeOK, NEW u \in Txns, NEW dataid, NEW last \in BOOLEAN,
           on_dat(u, dataid, last, {0}), ~failed'
    PROVE  /\ \A t \in Txns : t # u => hnf'[t] = hnf[t]
           /\ hnf[u].phase = "read" /\ hnf'[u].phase = "read"
           /\ hnf'[u].completed = hnf[u].completed + (IF last THEN 1 ELSE 0)
           /\ hnf'[u].beats = hnf[u].beats + 1
           /\ ~failed /\ DatAccepted(hnf[u], req[u], dataid, last, {0})
<1>1. /\ hnf \in [Txns -> HnfEntries] /\ hnf[u] \in HnfEntries
      /\ hnf[u].completed \in Nat /\ hnf[u].beats \in Nat
  BY DEF HnfTypeOK, HnfEntries
<1> DEFINE c == IF last THEN hnf[u].completed + 1 ELSE hnf[u].completed
           h == [hnf[u] EXCEPT !.beats = @ + 1, !.completed = c]
<1>2. ~failed /\ DatAccepted(hnf[u], req[u], dataid, last, {0}) /\ hnf' = [hnf EXCEPT ![u] = h]
  BY DEF on_dat
<1>3. h.phase = hnf[u].phase /\ h.beats = hnf[u].beats + 1 /\ h.completed = c
  BY <1>1 DEF HnfEntries
<1>4. hnf[u].phase = "read"
  BY <1>2 DEF DatAccepted
<1> HIDE DEF h
<1>5. hnf'[u] = h /\ \A t \in Txns : t # u => hnf'[t] = hnf[t]
  BY <1>1, <1>2
<1> QED
  BY <1>1, <1>2, <1>3, <1>4, <1>5

(***************************************************************************)
(* Every step keeps each request in its one place.                         *)
(***************************************************************************)
LEMMA PlaceStep ==
    ASSUME PlaceInv, TypeInv', ~failed', [Next]_vars
    PROVE  OnePlace' /\ UnsentFresh'
<1>a. /\ SlotInvOn(WireIds) /\ TypeInv /\ HnfTypeOK /\ UnsentFresh
      /\ pending_reqs \in Seq(Txns) /\ retrying \in Seq(Txns) /\ txn_queue \in Seq(Flits)
      /\ dut \in [WireIds -> DutEntries \cup {None}]
      /\ hnf \in [Txns -> HnfEntries]
  BY DEF PlaceInv, SlotInvOn, TypeInv, TypeOK, AgentTypeOK, DutTypeOK, HnfTypeOK
<1>b. Counted /\ Counted'
  <2>1. (TypeInv => Counted)'
    BY CopiesCounted, PTL
  <2> QED
    BY <1>a, <2>1, CopiesCounted
<1>c. \A t \in Txns : PlaceOk(t)
  BY OnePlaceIs DEF PlaceInv
<1>d. \A t \in Txns : hnf[t].completed \in Nat
  BY <1>a DEF HnfEntries
<1>e. (\A t \in Txns : PlaceOk(t)') => OnePlace'
  <2>1. (OnePlace <=> \A t \in Txns : PlaceOk(t))'
    BY OnePlaceIs, PTL
  <2> QED
    BY <2>1
\* Steps that leave gem5's entries alone: no request is gained or lost.
<1>f. ASSUME UNCHANGED <<req, hnf>>, \A t \in Txns : Copies(t)' = Copies(t)
      PROVE  OnePlace' /\ UnsentFresh'
  <2>1. \A t \in Txns : PlaceOk(t)'
    BY <1>c, <1>f, PlaceFrame DEF Open
  <2> QED
    BY <1>a, <1>e, <1>f, <2>1 DEF UnsentFresh
<1>1. ASSUME NEW u \in Txns, Gem5Req(u) PROVE OnePlace' /\ UnsentFresh'
  <2>1. /\ UNCHANGED <<req, txn_queue, retrying, dut>>
        /\ pending_reqs' = Append(pending_reqs, u)
        /\ hnf[u].phase = "unsent"
    BY <1>1 DEF Gem5Req, handle_gem5_req, expect, dutVars
  <2>2. /\ \A t \in Txns : t # u => hnf'[t] = hnf[t]
        /\ hnf'[u].phase # "unsent" /\ hnf'[u].completed = hnf[u].completed
    <3>1. PICK p \in {"read", "wait_dbid", "other"} : hnf' = [hnf EXCEPT ![u].phase = p]
      <4>1. req[u].op \in {"read", "write", "other"}
        BY <1>a, RequestsAssumption DEF HnfTypeOK
      <4> QED
        BY <1>1, <4>1 DEF Gem5Req, handle_gem5_req, expect
    <3> DEFINE h == [hnf[u] EXCEPT !.phase = p]
    <3>2. hnf' = [hnf EXCEPT ![u] = h] /\ h.phase = p /\ h.completed = hnf[u].completed
      BY <1>a, <3>1 DEF HnfEntries
    <3> HIDE DEF h
    <3> QED
      BY <1>a, <3>2
  <2>3. ASSUME NEW t \in Txns
        PROVE  Copies(t)' = Copies(t) + (IF t = u THEN 1 ELSE 0)
    <3>1. NPending(t)' = NPending(t) + (IF t = u THEN 1 ELSE 0)
      BY <1>a, <2>1, HitsAppend DEF NPending
    <3>2. NRetrying(t)' = NRetrying(t) /\ NQueued(t)' = NQueued(t) /\ NInDut(t)' = NInDut(t)
      BY <2>1 DEF NRetrying, NQueued, NInDut, InDut, ReqsOf
    <3> QED
      BY <1>b, <3>1, <3>2 DEF Counted
  <2>4. PlaceOk(u)'
    <3>1. hnf[u].completed = 0 /\ Copies(u) = 0
      BY <1>a, <1>c, <2>1 DEF UnsentFresh, PlaceOk, Open
    <3> QED
      BY <2>2, <2>3, <3>1 DEF PlaceOk, Open
  <2>5. \A t \in Txns : t # u => PlaceOk(t)'
    <3> SUFFICES ASSUME NEW t \in Txns, t # u PROVE PlaceOk(t)'
      OBVIOUS
    <3>1. Copies(t)' = Copies(t)
      BY <1>b, <2>3 DEF Counted
    <3> QED
      BY <1>c, <2>1, <2>2, <3>1, PlaceFrame DEF Open
  <2> QED
    BY <1>a, <1>e, <2>2, <2>4, <2>5 DEF UnsentFresh
<1>2. ASSUME NEW u \in Txns, Gem5Dat(u) PROVE OnePlace' /\ UnsentFresh'
  <2>1. /\ UNCHANGED <<req, pending_reqs, retrying, dut>>
        /\ hnf[u].phase = "wait_data" /\ hnf' = [hnf EXCEPT ![u].phase = "wait_comp"]
    BY <1>2 DEF Gem5Dat, handle_gem5_dat, send_write_data, dutVars
  <2>2. \A t \in Txns : /\ hnf'[t].completed = hnf[t].completed
                        /\ hnf'[t].phase = "unsent" <=> hnf[t].phase = "unsent"
    <3> DEFINE h == [hnf[u] EXCEPT !.phase = "wait_comp"]
    <3>1. hnf' = [hnf EXCEPT ![u] = h] /\ h.phase = "wait_comp" /\ h.completed = hnf[u].completed
      BY <1>a, <2>1 DEF HnfEntries
    <3> HIDE DEF h
    <3> QED
      BY <1>a, <2>1, <3>1
  <2>3. \A t \in Txns : Hits(txn_queue', ReqsOf(t)) = Hits(txn_queue, ReqsOf(t))
    <3>1. CASE txn_queue' = txn_queue
      BY <3>1
    <3>2. ASSUME NEW w \in WireIds, txn_queue' = txn_queue \o split_write_data(w, u)
          PROVE  \A t \in Txns : Hits(txn_queue', ReqsOf(t)) = Hits(txn_queue, ReqsOf(t))
      <4> DEFINE d == split_write_data(w, u)
                 n == Len(txn_queue)
      <4>1. d \in Seq(Flits)
        BY SplitType
      <4>2. \A i \in 1 .. Len(d) : d[i].ch = "dat"
        BY DEF split_write_data, DataBeat
      <4> HIDE DEF d
      <4>3. /\ n \in Nat /\ Len(d) \in Nat /\ DOMAIN txn_queue = 1 .. n
            /\ DOMAIN txn_queue' = 1 .. (n + Len(d))
            /\ \A i \in 1 .. n : txn_queue'[i] = txn_queue[i]
            /\ \A i \in 1 .. (n + Len(d)) : i \notin 1 .. n => txn_queue'[i] = d[i - n]
        BY <1>a, <3>2, <4>1, ConcatProperties, LenProperties DEF d
      <4> HIDE DEF n
      <4>4. \A i \in 1 .. (n + Len(d)) : i \notin 1 .. n => i - n \in 1 .. Len(d)
        BY <4>3
      <4>5. \A i \in 1 .. (n + Len(d)) : i \notin 1 .. n => txn_queue'[i].ch = "dat"
        BY <4>2, <4>3, <4>4
      <4>6. 1 .. n \subseteq 1 .. (n + Len(d))
        BY <4>3
      <4> QED
        BY <4>3, <4>5, <4>6 DEF Hits, ReqsOf
    <3> QED
      BY <1>2, <3>1, <3>2 DEF Gem5Dat, handle_gem5_dat
  <2>4. \A t \in Txns : Copies(t)' = Copies(t)
    <3> SUFFICES ASSUME NEW t \in Txns PROVE Copies(t)' = Copies(t)
      OBVIOUS
    <3>1. ReqsOf(t)' = ReqsOf(t)
      BY DEF ReqsOf
    <3>2. /\ NPending(t)' = NPending(t) /\ NRetrying(t)' = NRetrying(t)
          /\ NQueued(t)' = NQueued(t) /\ NInDut(t)' = NInDut(t)
      BY <2>1, <2>3, <3>1 DEF NPending, NRetrying, NQueued, NInDut, InDut
    <3> QED
      BY <1>b, <3>2 DEF Counted
  <2>5. \A t \in Txns : PlaceOk(t)'
    BY <1>c, <2>1, <2>2, <2>4, PlaceFrame DEF Open
  <2> QED
    BY <1>a, <1>e, <2>2, <2>5 DEF UnsentFresh
<1>3. CASE RetryPending
  <2>1. /\ UNCHANGED <<req, hnf, retrying, dut>>
        /\ pending_reqs # << >> /\ pending_reqs' = Tail(pending_reqs)
    BY <1>3 DEF RetryPending, drop_req, issue_req, consume_head, hnfVars, dutVars
  <2>2. PICK u \in Txns : u = Head(pending_reqs)
    BY <1>a, <2>1, HeadTailProperties
  <2>3. \A t \in Txns : /\ NPending(t)' = NPending(t) - (IF u = t THEN 1 ELSE 0)
                        /\ NRetrying(t)' = NRetrying(t) /\ NInDut(t)' = NInDut(t)
    BY <1>a, <2>1, <2>2, HitsTail DEF NPending, NRetrying, NInDut, InDut
  <2>4. CASE drop_req
    <3>1. txn_queue' = txn_queue /\ ~Supported(req[u])
      BY <2>2, <2>4 DEF drop_req
    <3>2. \A t \in Txns : Copies(t)' = Copies(t) - (IF u = t THEN 1 ELSE 0)
      <4>1. \A t \in Txns : NQueued(t)' = NQueued(t)
        BY <3>1 DEF NQueued, ReqsOf
      <4> QED
        BY <1>b, <2>3, <4>1 DEF Counted
    <3>3. PlaceOk(u)'
      <4>1. Copies(u) \in Nat /\ Copies(u)' \in Nat /\ Copies(u)' = Copies(u) - 1
        BY <1>b, <2>2, <3>2 DEF Counted
      <4>2. Copies(u) = 1 /\ Copies(u)' = 0
        BY <1>c, <2>2, <4>1 DEF PlaceOk
      <4>3. ~Supported(req'[u])
        BY <2>1, <3>1 DEF Supported, SizeSupported, size_bytes
      <4> QED
        BY <2>1, <4>2, <4>3 DEF PlaceOk
    <3>4. \A t \in Txns : t # u => PlaceOk(t)'
      <4> SUFFICES ASSUME NEW t \in Txns, t # u PROVE PlaceOk(t)'
        OBVIOUS
      <4>1. Copies(t)' = Copies(t)
        BY <1>b, <3>2 DEF Counted
      <4> QED
        BY <1>c, <2>1, <4>1, PlaceFrame DEF Open
    <3> QED
      BY <1>a, <1>e, <2>1, <3>3, <3>4 DEF UnsentFresh
  <2>5. CASE issue_req
    <3>1. PICK w \in WireIds : txn_queue' = Append(txn_queue,
             [ch |-> "req", wire |-> w, txn |-> u, ewa |-> FALSE, allow_retry |-> TRUE])
      BY <2>2, <2>5 DEF issue_req
    <3> DEFINE f == [ch |-> "req", wire |-> w, txn |-> u, ewa |-> FALSE, allow_retry |-> TRUE]
    <3>2. f \in Flits /\ \A t \in Txns : f \in ReqsOf(t) <=> u = t
      BY <2>2 DEF Flits, ReqFlits, ReqsOf
    <3>3. txn_queue' = Append(txn_queue, f)
      BY <3>1
    <3> HIDE DEF f
    <3>4. \A t \in Txns : NQueued(t)' = NQueued(t) + (IF u = t THEN 1 ELSE 0)
      <4> SUFFICES ASSUME NEW t \in Txns
                   PROVE  NQueued(t)' = NQueued(t) + (IF u = t THEN 1 ELSE 0)
        OBVIOUS
      <4>1. ReqsOf(t)' = ReqsOf(t)
        BY DEF ReqsOf
      <4> QED
        BY <1>a, <3>2, <3>3, <4>1, HitsAppend DEF NQueued
    <3>5. \A t \in Txns : Copies(t)' = Copies(t)
      BY <1>b, <2>3, <3>4 DEF Counted
    <3> QED
      BY <1>f, <2>1, <3>5
  <2> QED
    BY <1>3, <2>4, <2>5 DEF RetryPending
<1>4. CASE Deliver
  <2> DEFINE f == Head(txn_queue)
  <2>1. /\ UNCHANGED <<req, hnf, pending_reqs, retrying>>
        /\ txn_queue # << >> /\ txn_queue' = Tail(txn_queue)
        /\ Admit(f) \/ Reject(f) \/ Receive(f)
    BY <1>4 DEF Deliver, hnfVars
  <2>2. f \in Flits /\ f = txn_queue[1] /\ 1 \in DOMAIN txn_queue
    BY <1>a, <2>1, HeadTailProperties, LenProperties, EmptySeq
  <2>3. ASSUME NEW t \in Txns
        PROVE  /\ NQueued(t)' = NQueued(t) - (IF f \in ReqsOf(t) THEN 1 ELSE 0)
               /\ NPending(t)' = NPending(t) /\ NRetrying(t)' = NRetrying(t)
    <3>1. ReqsOf(t)' = ReqsOf(t)
      BY DEF ReqsOf
    <3> QED
      BY <1>a, <2>1, <3>1, HitsTail DEF NPending, NRetrying, NQueued
  <2> HIDE DEF f
  <2>4. CASE Admit(f) \/ Reject(f)
    <3>1. f.ch = "req" /\ f.wire \in WireIds /\ f.txn \in Txns
      BY <2>2, <2>4 DEF Admit, Reject, Flits, ReqFlits, DatFlits
    <3>2. PICK st \in {"admitted", "rejected"}, x \in PoolIds \cup {None} :
            dut' = [dut EXCEPT ![f.wire] = Entry(f, st, x)]
      BY <2>4 DEF Admit, Reject, SlotsFor
    <3> DEFINE e == Entry(f, st, x)
    <3>3. e \in DutEntries /\ e.txn = f.txn /\ e.st # "drain"
      <4>1. f \in ReqFlits
        BY <2>2, <3>1 DEF Flits, DatFlits
      <4>2. e \in DutEntries
        BY <1>a, <4>1, EntryType
      <4> QED
        BY <4>2 DEF Entry
    <3>4. dut' = [dut EXCEPT ![f.wire] = e]
      BY <3>2
    <3> HIDE DEF e
    <3>5. Live(e) /\ ~Live(dut[f.wire])
      <4>1. ReqFor(txn_queue[1], f.wire)
        BY <2>2, <3>1 DEF ReqFor
      <4>2. dut[f.wire] = None
        BY <1>a, <2>2, <3>1, <4>1 DEF SlotInvOn, SlotParts, HeldByLink
      <4> QED
        BY <3>3, <4>2, NoneIsNoEntry DEF Live
    <3>6. \A t \in Txns : NInDut(t)' = NInDut(t) + (IF f.txn = t THEN 1 ELSE 0)
      <4> SUFFICES ASSUME NEW t \in Txns
                   PROVE  NInDut(t)' = NInDut(t) + (IF f.txn = t THEN 1 ELSE 0)
        OBVIOUS
      <4>1. NInDut(t)' = NInDut(t) + (IF Live(e) /\ e.txn = t THEN 1 ELSE 0)
               - (IF Live(dut[f.wire]) /\ dut[f.wire].txn = t THEN 1 ELSE 0)
        BY <1>a, <3>1, <3>4, <3>5, DutCount
      <4> QED
        BY <1>b, <3>3, <3>5, <4>1 DEF Counted
    <3>7. \A t \in Txns : f \in ReqsOf(t) <=> f.txn = t
      BY <2>2, <3>1 DEF ReqsOf
    <3>8. \A t \in Txns : Copies(t)' = Copies(t)
      BY <1>b, <2>3, <3>6, <3>7 DEF Counted
    <3> QED
      BY <1>f, <2>1, <3>8
  <2>5. CASE Receive(f)
    <3>1. f.ch = "dat" /\ \A t \in Txns : f \notin ReqsOf(t)
      BY <2>5 DEF Receive, ReqsOf
    <3>2. \A t \in Txns : NInDut(t)' = NInDut(t)
      <4>1. CASE UNCHANGED dut
        BY <4>1 DEF NInDut, InDut
      <4>2. ASSUME NEW u \in WireIds, Receiver(f, u),
                   dut' = [dut EXCEPT ![u].data = @ \cup {<<f.txn, f.data_id>>}]
            PROVE  \A t \in Txns : NInDut(t)' = NInDut(t)
        <5> DEFINE e == [dut[u] EXCEPT !.data = @ \cup {<<f.txn, f.data_id>>}]
        <5>1. dut[u] # None /\ dut[u] \in DutEntries /\ dut' = [dut EXCEPT ![u] = e]
          BY <1>a, <4>2 DEF Receiver, Pooled
        <5>2. e.txn = dut[u].txn /\ e.st = dut[u].st
          BY <5>1 DEF DutEntries
        <5>3. e # None
          <6>1. f \in DatFlits
            BY <2>2, <3>1 DEF Flits, ReqFlits
          <6>2. <<f.txn, f.data_id>> \in Txns \X {DATA_ID_LOW, DATA_ID_HIGH}
            BY <6>1 DEF DatFlits
          <6>3. e \in DutEntries
            BY <5>1, <6>2 DEF DutEntries
          <6> HIDE DEF e
          <6> QED
            BY <6>3, NoneIsNoEntry
        <5> HIDE DEF e
        <5>4. Live(e) <=> Live(dut[u])
          BY <5>1, <5>2, <5>3 DEF Live
        <5>5. ASSUME NEW t \in Txns PROVE NInDut(t)' = NInDut(t)
          <6>1. NInDut(t)' = NInDut(t) + (IF Live(e) /\ e.txn = t THEN 1 ELSE 0)
                   - (IF Live(dut[u]) /\ dut[u].txn = t THEN 1 ELSE 0)
            BY <1>a, <4>2, <5>1, <5>2, DutCount
          <6> QED
            BY <1>b, <5>2, <5>4, <6>1 DEF Counted
        <5> QED
          BY <5>5
      <4> QED
        BY <2>5, <4>1, <4>2 DEF Receive
    <3>3. \A t \in Txns : Copies(t)' = Copies(t)
      BY <1>b, <2>3, <3>1, <3>2 DEF Counted
    <3> QED
      BY <1>f, <2>1, <3>3
  <2> QED
    BY <2>1, <2>4, <2>5
\* The clock only moves entries that are not live.
<1>5. CASE Cycle
  <2>1. /\ UNCHANGED <<req, hnf, pending_reqs, retrying, txn_queue>>
        /\ \A v \in WireIds : dut'[v] = Ticked(dut[v])
    BY <1>5 DEF Cycle, on_cycle, hnfVars
  <2>2. \A v \in WireIds : /\ Live(Ticked(dut[v])) <=> Live(dut[v])
                           /\ Live(dut[v]) => Ticked(dut[v]).txn = dut[v].txn
    <3> SUFFICES ASSUME NEW v \in WireIds
                 PROVE  /\ Live(Ticked(dut[v])) <=> Live(dut[v])
                        /\ Live(dut[v]) => Ticked(dut[v]).txn = dut[v].txn
      OBVIOUS
    <3>1. CASE dut[v] = None \/ dut[v].st # "drain"
      BY <3>1 DEF Ticked
    <3>2. CASE dut[v] # None /\ dut[v].st = "drain"
      <4>1. dut[v] \in DutEntries /\ Ticked(dut[v]) = HandBack(dut[v], dut[v].drain - 1)
        BY <1>a, <3>2 DEF Ticked
      <4> QED
        BY <3>2, <4>1, HandBackNotLive DEF Live
    <3> QED
      BY <3>1, <3>2
  <2>3. \A t \in Txns : InDut(t)' = InDut(t)
    BY <2>1, <2>2 DEF InDut, Live
  <2>4. \A t \in Txns : Copies(t)' = Copies(t)
    <3>1. \A t \in Txns : /\ NPending(t)' = NPending(t) /\ NRetrying(t)' = NRetrying(t)
                          /\ NQueued(t)' = NQueued(t) /\ NInDut(t)' = NInDut(t)
      BY <2>1, <2>3 DEF NPending, NRetrying, NQueued, NInDut, ReqsOf
    <3> QED
      BY <1>b, <3>1 DEF Counted
  <2> QED
    BY <1>f, <2>1, <2>4
<1>6. CASE DutPCrdGrant
  <2>1. UNCHANGED <<req, hnf, txn_queue, dut>>
    BY <1>6 DEF DutPCrdGrant, on_pcrdgrant, hnfVars
  <2>2. \A t \in Txns : NQueued(t)' = NQueued(t) /\ NInDut(t)' = NInDut(t)
    BY <2>1 DEF NQueued, NInDut, InDut, ReqsOf
  <2>3. CASE retrying = << >>
    <3>1. UNCHANGED <<retrying, pending_reqs>>
      BY <1>6, <2>3 DEF DutPCrdGrant, on_pcrdgrant
    <3>2. \A t \in Txns : Copies(t)' = Copies(t)
      <4>1. \A t \in Txns : NPending(t)' = NPending(t) /\ NRetrying(t)' = NRetrying(t)
        BY <3>1 DEF NPending, NRetrying
      <4> QED
        BY <1>b, <2>2, <4>1 DEF Counted
    <3> QED
      BY <1>f, <2>1, <3>2
  <2>4. CASE retrying # << >>
    <3>1. retrying' = Tail(retrying) /\ pending_reqs' = Append(pending_reqs, Head(retrying))
      BY <1>6, <2>4 DEF DutPCrdGrant, on_pcrdgrant, reissue
    <3>2. Head(retrying) \in Txns
      BY <1>a, <2>4, HeadTailProperties
    <3>3. \A t \in Txns :
            /\ NPending(t)' = NPending(t) + (IF Head(retrying) \in {t} THEN 1 ELSE 0)
            /\ NRetrying(t)' = NRetrying(t) - (IF Head(retrying) \in {t} THEN 1 ELSE 0)
      BY <1>a, <2>4, <3>1, <3>2, HitsAppend, HitsTail DEF NPending, NRetrying
    <3>4. \A t \in Txns : Copies(t)' = Copies(t)
      BY <1>b, <2>2, <3>3 DEF Counted
    <3> QED
      BY <1>f, <2>1, <3>4
  <2> QED
    BY <2>3, <2>4
<1>7. ASSUME NEW w \in WireIds, DutRetryAck(w) PROVE OnePlace' /\ UnsentFresh'
  <2> DEFINE u == dut[w].txn
  <2>1. /\ dut[w] # None /\ dut[w].st = "rejected" /\ dut' = [dut EXCEPT ![w] = None]
        /\ UNCHANGED <<req, hnf, pending_reqs, txn_queue>> /\ on_retryack(w)
    BY <1>7 DEF DutRetryAck, on_retryack, hnfVars
  <2>2. u \in Txns /\ Live(dut[w]) /\ ~Live(None)
    BY <1>a, <2>1 DEF Live, DutEntries
  <2>3. retrying' = Append(retrying, u)
    <3>1. Holds(w, u)
      BY <1>a, <2>1 DEF SlotInvOn, SlotParts, HeldByDut
    <3> QED
      BY <2>1, <3>1 DEF on_retryack, Holds
  <2> HIDE DEF u
  <2>4. ASSUME NEW t \in Txns PROVE Copies(t)' = Copies(t)
    <3>1. NInDut(t)' = NInDut(t) + (IF Live(None) /\ None.txn = t THEN 1 ELSE 0)
             - (IF Live(dut[w]) /\ dut[w].txn = t THEN 1 ELSE 0)
      BY <1>a, <2>1, <2>2, DutCount
    <3>2. NRetrying(t)' = NRetrying(t) + (IF u \in {t} THEN 1 ELSE 0)
      BY <1>a, <2>2, <2>3, HitsAppend DEF NRetrying
    <3>3. NPending(t)' = NPending(t) /\ NQueued(t)' = NQueued(t)
      BY <2>1 DEF NPending, NQueued, ReqsOf
    <3> QED
      BY <1>b, <2>2, <3>1, <3>2, <3>3 DEF Counted, u
  <2> QED
    BY <1>f, <2>1, <2>4
\* An answer: the entry stays live and the request open, or neither does.
<1>8. ASSUME NEW w \in WireIds, NEW e, Live(dut[w]), dut' = [dut EXCEPT ![w] = e],
             Live(e) => e.txn = dut[w].txn,
             UNCHANGED <<req, agentVars>>,
             \A t \in Txns : t # dut[w].txn => hnf'[t] = hnf[t],
             hnf[dut[w].txn].phase # "unsent", hnf'[dut[w].txn].phase # "unsent",
             hnf'[dut[w].txn].completed = hnf[dut[w].txn].completed + (IF Live(e) THEN 0 ELSE 1)
      PROVE  OnePlace' /\ UnsentFresh'
  <2>1. PICK u \in Txns : u = dut[w].txn
    BY <1>a, <1>8 DEF Live, DutEntries
  <2>2. ASSUME NEW t \in Txns
        PROVE  Copies(t)' = Copies(t) - (IF ~Live(e) /\ u = t THEN 1 ELSE 0)
    <3>1. NInDut(t)' = NInDut(t) + (IF Live(e) /\ e.txn = t THEN 1 ELSE 0)
             - (IF Live(dut[w]) /\ dut[w].txn = t THEN 1 ELSE 0)
      BY <1>a, <1>8, DutCount
    <3>2. NPending(t)' = NPending(t) /\ NRetrying(t)' = NRetrying(t) /\ NQueued(t)' = NQueued(t)
      BY <1>8 DEF agentVars, NPending, NRetrying, NQueued, ReqsOf
    <3> QED
      BY <1>b, <1>8, <2>1, <3>1, <3>2 DEF Counted
  <2>3. Copies(u) \in Nat /\ Copies(u)' \in Nat /\ Copies(u) > 0
    <3>1. w \in InDut(u)
      BY <1>8, <2>1 DEF InDut, Live
    <3>2. NInDut(u) # 0
      BY <1>b, <2>1, <3>1, FS_EmptySet DEF Counted, NInDut
    <3>3. \A t \in Txns : Copies(t) \in Nat /\ Copies(t)' \in Nat /\ Copies(t) >= NInDut(t)
      BY <1>b DEF Counted
    <3>4. NInDut(u) \in Nat
      BY <1>b, <2>1 DEF Counted
    <3> QED
      BY <2>1, <3>2, <3>3, <3>4
  <2>4. Copies(u) = 1 /\ Open(u) /\ hnf[u].completed = 0
    BY <1>c, <1>d, <2>1, <2>3 DEF PlaceOk, Open
  <2>5. PlaceOk(u)'
    <3>1. CASE Live(e)
      <4>1. Copies(u)' = 1 /\ hnf'[u].completed = 0
        BY <1>8, <2>1, <2>2, <2>4, <3>1
      <4> QED
        BY <1>8, <2>1, <4>1 DEF PlaceOk, Open
    <3>2. CASE ~Live(e)
      <4>1. Copies(u)' = 0 /\ hnf'[u].completed = 1
        BY <1>8, <2>1, <2>2, <2>4, <3>2
      <4> QED
        BY <1>8, <2>1, <4>1 DEF PlaceOk, Open
    <3> QED
      BY <3>1, <3>2
  <2>6. ASSUME NEW t \in Txns, t # u PROVE PlaceOk(t)'
    <3>1. Copies(t)' = Copies(t)
      BY <1>b, <2>2, <2>6 DEF Counted
    <3> QED
      BY <1>c, <1>8, <2>1, <2>6, <3>1, PlaceFrame DEF Open
  <2> QED
    BY <1>a, <1>8, <1>e, <2>1, <2>5, <2>6 DEF UnsentFresh
<1>9. ASSUME NEW w \in WireIds, DutDBIDResp(w) PROVE OnePlace' /\ UnsentFresh'
  <2> DEFINE e == [dut[w] EXCEPT !.st = "granted"]
  <2>1. dut[w] # None /\ dut[w].st = "admitted" /\ dut[w] \in DutEntries /\ dut' = [dut EXCEPT ![w] = e]
    BY <1>a, <1>9 DEF DutDBIDResp
  <2>2. on_txrsp(w, "DBIDResp")
    BY <1>a, <1>9 DEF DutDBIDResp, SlotInvOn, SlotParts, NoEwa
  <2>3. e \in DutEntries /\ e.txn = dut[w].txn /\ e.st = "granted"
    BY <2>1 DEF DutEntries
  <2> HIDE DEF e
  <2>4. Live(dut[w]) /\ Live(e)
    BY <2>1, <2>3, NoneIsNoEntry DEF Live
  <2>5. /\ on_rsp(dut[w].txn, "DBIDResp", forwarded_dbid(w, "DBIDResp"))
        /\ dut[w].txn \in Txns /\ UNCHANGED <<req, agentVars>>
    BY <1>a, <2>1, <2>2, RspGoesTo DEF on_rsp
  <2>6. forwarded_dbid(w, "DBIDResp") \in Nat
    BY MapperAssumption DEF forwarded_dbid, WireIds, PoolIds, ReadIds, READ_ID_BASE
  <2>7. /\ \A t \in Txns : t # dut[w].txn => hnf'[t] = hnf[t]
        /\ hnf[dut[w].txn].phase # "unsent" /\ hnf'[dut[w].txn].phase # "unsent"
        /\ hnf'[dut[w].txn].completed = hnf[dut[w].txn].completed + 0
    BY <1>a, <2>5, <2>6, AcceptedRsp
  <2> QED
    BY <1>8, <2>1, <2>3, <2>4, <2>5, <2>7
<1>10. ASSUME NEW w \in WireIds, DutComp(w) PROVE OnePlace' /\ UnsentFresh'
  <2>1. dut[w] # None /\ dut[w].st = "granted" /\ dut[w] \in DutEntries /\ on_txrsp(w, "Comp")
    BY <1>a, <1>10 DEF DutComp
  <2>2. PICK d \in 0 .. MaxDrain : dut' = [dut EXCEPT ![w] = HandBack(dut[w], d)]
    BY <1>10 DEF DutComp
  <2>3. Live(dut[w]) /\ ~Live(HandBack(dut[w], d))
    BY <2>1, HandBackNotLive DEF Live
  <2>4. /\ on_rsp(dut[w].txn, "Comp", forwarded_dbid(w, "Comp"))
        /\ dut[w].txn \in Txns /\ UNCHANGED <<req, agentVars>> /\ records[w] # None
    BY <1>a, <2>1, RspGoesTo DEF on_rsp
  <2>5. forwarded_dbid(w, "Comp") \in Nat
    BY <1>a, <2>4 DEF forwarded_dbid, TypeInv, TypeOK, AgentTypeOK, MapperTypeOK, TxnRecords
  <2>6. /\ \A t \in Txns : t # dut[w].txn => hnf'[t] = hnf[t]
        /\ hnf[dut[w].txn].phase # "unsent" /\ hnf'[dut[w].txn].phase # "unsent"
        /\ hnf'[dut[w].txn].completed = hnf[dut[w].txn].completed + 1
    BY <1>a, <2>4, <2>5, AcceptedRsp
  <2> QED
    BY <1>8, <2>2, <2>3, <2>4, <2>6
<1>11. ASSUME NEW w \in WireIds, DutCompData(w) PROVE OnePlace' /\ UnsentFresh'
  <2>1. /\ dut[w] # None /\ dut[w].st = "admitted" /\ dut[w] \in DutEntries
        /\ req[dut[w].txn].op = "read" /\ on_txdat(w)
    BY <1>a, <1>11 DEF DutCompData
  <2> DEFINE last == dut[w].left <= 1
  <2>2. /\ on_dat(dut[w].txn, records[w].next_dataid, last, {0})
        /\ dut[w].txn \in Txns /\ UNCHANGED <<req, agentVars>>
    BY <1>a, <2>1, DatGoesTo DEF on_dat
  <2>3. last \in BOOLEAN
    OBVIOUS
  <2> HIDE DEF last
  <2>4. /\ \A t \in Txns : t # dut[w].txn => hnf'[t] = hnf[t]
        /\ hnf[dut[w].txn].phase = "read" /\ hnf'[dut[w].txn].phase = "read"
        /\ hnf'[dut[w].txn].completed = hnf[dut[w].txn].completed + (IF last THEN 1 ELSE 0)
    BY <1>a, <2>2, <2>3, AcceptedDat
  <2>5. PICK e : /\ dut' = [dut EXCEPT ![w] = e]
                 /\ Live(e) => e.txn = dut[w].txn
                 /\ last <=> ~Live(e)
    <3>1. CASE dut[w].left > 1 /\ dut' = [dut EXCEPT ![w].left = @ - 1]
      <4> DEFINE e == [dut[w] EXCEPT !.left = @ - 1]
      <4>1. dut' = [dut EXCEPT ![w] = e] /\ e.txn = dut[w].txn /\ e.st = "admitted"
        BY <2>1, <3>1 DEF DutEntries
      <4>2. dut[w].left \in Nat /\ dut[w].left - 1 \in Nat
        BY <2>1, <3>1 DEF DutEntries
      <4>3. e \in DutEntries /\ ~last
        BY <2>1, <3>1, <4>2 DEF DutEntries, last
      <4> HIDE DEF e
      <4>4. Live(e)
        BY <4>1, <4>3, NoneIsNoEntry DEF Live
      <4> QED
        BY <4>1, <4>3, <4>4
    <3>2. ASSUME NEW d \in 0 .. MaxDrain, dut[w].left = 1,
                 dut' = [dut EXCEPT ![w] = HandBack(dut[w], d)]
          PROVE  \E e : /\ dut' = [dut EXCEPT ![w] = e]
                        /\ Live(e) => e.txn = dut[w].txn
                        /\ last <=> ~Live(e)
      <4>1. ~Live(HandBack(dut[w], d)) /\ last
        BY <2>1, <3>2, HandBackNotLive DEF last
      <4> QED
        BY <3>2, <4>1
    <3> QED
      BY <1>11, <3>1, <3>2 DEF DutCompData
  <2>6. Live(dut[w])
    BY <2>1 DEF Live
  <2>7. hnf'[dut[w].txn].completed = hnf[dut[w].txn].completed + (IF Live(e) THEN 0 ELSE 1)
    BY <2>4, <2>5
  <2>8. hnf[dut[w].txn].phase # "unsent" /\ hnf'[dut[w].txn].phase # "unsent"
    BY <2>4
  <2> QED
    BY <1>8, <2>2, <2>4, <2>5, <2>6, <2>7, <2>8
<1>12. CASE UNCHANGED vars
  <2>1. UNCHANGED <<req, hnf, pending_reqs, retrying, txn_queue, dut>>
    BY <1>12 DEF vars, hnfVars, agentVars, dutVars
  <2>2. \A t \in Txns : Copies(t)' = Copies(t)
    BY <2>1 DEF Copies, InSeq
  <2> QED
    BY <1>f, <2>1, <2>2
<1> QED
  BY <1>1, <1>2, <1>3, <1>4, <1>5, <1>6, <1>7, <1>9, <1>10, <1>11, <1>12 DEF Next, DutAnswer

LEMMA PlaceInit == Init => PlaceInv
<1> SUFFICES ASSUME Init PROVE PlaceInv
  OBVIOUS
<1>1. SlotInvOn(WireIds)
  BY SlotInit
<1>2. \A t \in Txns : hnf[t].phase = "unsent" /\ hnf[t].completed = 0
  BY DEF Init, HnfInit
<1>3. \A t \in Txns : Copies(t) = 0
  <2> SUFFICES ASSUME NEW t \in Txns PROVE Copies(t) = 0
    OBVIOUS
  <2>1. pending_reqs = << >> /\ retrying = << >> /\ txn_queue = << >> /\ \A w \in WireIds : dut[w] = None
    BY DEF Init, AgentInit, DutInit
  <2>2. Hits(pending_reqs, {t}) = {} /\ Hits(retrying, {t}) = {} /\ Hits(txn_queue, ReqsOf(t)) = {} /\ InDut(t) = {}
    BY <2>1 DEF Hits, InDut
  <2>3. NPending(t) = 0 /\ NRetrying(t) = 0 /\ NQueued(t) = 0 /\ NInDut(t) = 0
    BY <2>2, FS_EmptySet DEF NPending, NRetrying, NQueued, NInDut
  <2> QED
    BY <1>1, <2>3, CopiesCounted DEF Counted, SlotInvOn
<1> QED
  BY <1>1, <1>2, <1>3 DEF PlaceInv, OnePlace, UnsentFresh

(***************************************************************************)
(* As long as gem5 has raised no ContractError and next_read_id has not    *)
(* wrapped onto an id in use, a request gem5 has sent is in exactly one    *)
(* place, in whatever slots the DUT puts it and however often it is        *)
(* retried: neither RetryAck nor PCrdGrant loses or doubles one.           *)
(***************************************************************************)
THEOREM RequestsInOnePlace == Spec /\ [](ReadIdFree /\ ~failed) => []OnePlace
<1>1. PlaceInv /\ (ReadIdFree /\ ~failed) /\ (ReadIdFree /\ ~failed)' /\ [Next]_vars => PlaceInv'
  <2> SUFFICES ASSUME PlaceInv, ReadIdFree, ~failed', [Next]_vars PROVE PlaceInv'
    OBVIOUS
  <2>1. SlotInvOn(WireIds)'
    BY SlotStepAll DEF PlaceInv
  <2>2. TypeInv'
    BY <2>1 DEF SlotInvOn
  <2> QED
    BY <2>1, <2>2, PlaceStep DEF PlaceInv
<1>2. PlaceInv => OnePlace
  BY DEF PlaceInv
<1> QED
  BY PlaceInit, <1>1, <1>2, PTL DEF Spec

-------------------------------------------------------------------------------
(***************************************************************************)
(* The contract with gem5, as long as the three hold.                      *)
(***************************************************************************)
(***************************************************************************)
(* The invariant: what gem5's entry for a transaction looks like, given    *)
(* the place the transaction is in.                                        *)
(***************************************************************************)
\* gem5 has seen no answer for t.
Asked(t) ==
    /\ hnf[t].beats = 0
    /\ req[t].op = "write" => hnf[t].phase = "wait_dbid"
    /\ req[t].op = "read" => hnf[t].phase = "read"

AskedInv ==
    /\ \A i \in DOMAIN pending_reqs : Asked(pending_reqs[i])
    /\ \A i \in DOMAIN retrying : Asked(retrying[i])

ReqFlitOk(i) ==
    LET f == txn_queue[i]
    IN  f.ch = "req" =>
            /\ Asked(f.txn) /\ Supported(req[f.txn])
            /\ records[f.wire].next_dataid = 0

\* A data beat on the link is for the granted write that holds its slot, and
\* is the only copy of that beat.
DatFlitOk(i) ==
    LET f == txn_queue[i]
    IN  f.ch = "dat" =>
            /\ f.wire \in PoolIds /\ dut[f.wire] # None
            /\ dut[f.wire].st = "granted" /\ dut[f.wire].txn = f.txn
            /\ hnf[f.txn].phase = "wait_comp"
            /\ f.data_id \in required_data_ids(req[f.txn])
            /\ <<f.txn, f.data_id>> \notin dut[f.wire].data
            /\ \A j \in DOMAIN txn_queue : txn_queue[j] = f => j = i

QueueInv == \A i \in DOMAIN txn_queue : ReqFlitOk(i) /\ DatFlitOk(i)

EntryOk(w) ==
    LET e == dut[w]
        t == dut[w].txn
        h == hnf[dut[w].txn]
    IN  /\ Supported(req[t])
        /\ e.slot \in {None, w}
        /\ e.st = "rejected" => Asked(t)
        /\ e.st # "rejected" /\ req[t].op = "write" => e.slot = w /\ w \in PoolIds
        /\ e.st = "admitted" /\ req[t].op = "write" => h.phase = "wait_dbid"
        /\ e.st = "admitted" /\ req[t].op = "read" =>
              /\ h.phase = "read" /\ h.beats + e.left = beats_expected(req[t])
              /\ records[w].next_dataid = h.beats
        /\ e.st = "granted" =>
              /\ req[t].op = "write" /\ h.phase \in {"wait_data", "wait_comp"}
              /\ h.dbid = w + 1 /\ records[w].fwd_dbid = w + 1

\* An entry holds beats of its own write only, and once gem5 has sent them
\* each is in the entry or on the link.
DataOk(w) ==
    LET e == dut[w]
        t == dut[w].txn
    IN  /\ e.data # {} => e.st = "granted" /\ hnf[t].phase = "wait_comp"
        /\ \A d \in e.data : d[1] = t
        /\ e.st = "granted" /\ hnf[t].phase = "wait_comp" =>
              \A id \in required_data_ids(req[t]) :
                  \/ <<t, id>> \in e.data
                  \/ \E i \in DOMAIN txn_queue : txn_queue[i] = DataBeat(w, t, id)

EntryInv == \A w \in WireIds : Live(dut[w]) => EntryOk(w) /\ DataOk(w)

\* Every granted write that is not complete is in the DUT.
GrantedInv ==
    \A t \in Txns : hnf[t].phase \in {"wait_data", "wait_comp"} /\ hnf[t].completed = 0 =>
        \E w \in WireIds : dut[w] # None /\ dut[w].st = "granted" /\ dut[w].txn = t

CountsInv ==
    \A t \in Txns : /\ hnf[t].completed \in {0, 1}
                    /\ hnf[t].phase = "unsent" => hnf[t].beats = 0
                    /\ hnf[t].completed = 1 => hnf[t].phase \in {"read", "wait_comp"}

PortParts == AskedInv /\ QueueInv /\ EntryInv /\ GrantedInv /\ CountsInv /\ ~failed

PortInv == PlaceInv /\ PortParts

-------------------------------------------------------------------------------
(***************************************************************************)
(* A supported size is a full line or at most one beat; agent and checker  *)
(* count the same beats.                                                   *)
(***************************************************************************)
LEMMA SizeCases ==
    ASSUME NEW r \in Requests, Supported(r)
    PROVE  /\ read_beats(r) = beats_expected(r)
           /\ \/ size_bytes(r) = 64
              \/ size_bytes(r) <= 32 /\ size_bytes(r) \in Nat
           /\ r.op \in {"read", "write"} /\ r.half \in {0, 1}
<1>1. r.size \in Nat /\ r.size # 0 /\ r.half \in {0, 1}
  BY RequestsAssumption, SizesAssumption
<1>2. size_bytes(r) = r.size
  BY <1>1 DEF size_bytes
<1>3. r.size \in {1, 2, 4, 8, 16, 32, 64}
  <2>1. PICK n \in 0 .. 6 : r.size = 2 ^ n
    BY <1>2 DEF Supported, SizeSupported
  <2>2. n \in {0, 1, 2, 3, 4, 5, 6}
    OBVIOUS
  <2>3. /\ 2 ^ 0 = 1 /\ 2 ^ 1 = 2 /\ 2 ^ 2 = 4 /\ 2 ^ 3 = 8 /\ 2 ^ 4 = 16
        /\ 2 ^ 5 = 32 /\ 2 ^ 6 = 64
    OBVIOUS
  <2>4. /\ n = 0 => r.size = 1
        /\ n = 1 => r.size = 2
        /\ n = 2 => r.size = 4
        /\ n = 3 => r.size = 8
        /\ n = 4 => r.size = 16
        /\ n = 5 => r.size = 32
        /\ n = 6 => r.size = 64
    BY <2>1, <2>3, Zenon
  <2> QED
    BY <2>2, <2>4
<1>4. read_beats(r) = beats_expected(r)
  BY <1>2, <1>3 DEF read_beats, beats_expected, DAT_BEAT_BYTES, BEAT_BYTES
<1> QED
  BY <1>1, <1>2, <1>3, <1>4 DEF Supported

(***************************************************************************)
(* Where a transaction is not, by OnePlace.                                *)
(***************************************************************************)
Absent(t) ==
    /\ \A i \in DOMAIN pending_reqs : pending_reqs[i] # t
    /\ \A i \in DOMAIN retrying : retrying[i] # t
    /\ \A i \in DOMAIN txn_queue : txn_queue[i].ch = "req" => txn_queue[i].txn # t

LEMMA NoCopies ==
    ASSUME TypeInv, NEW t \in Txns,
           NPending(t) = 0, NRetrying(t) = 0, NQueued(t) = 0
    PROVE  Absent(t)
<1>1. pending_reqs \in Seq(Txns) /\ retrying \in Seq(Txns) /\ txn_queue \in Seq(Flits)
  BY DEF TypeInv, TypeOK, AgentTypeOK
<1>2. /\ IsFiniteSet(Hits(pending_reqs, {t})) /\ IsFiniteSet(Hits(retrying, {t}))
      /\ IsFiniteSet(Hits(txn_queue, ReqsOf(t)))
  BY <1>1, HitsFinite
<1>3. /\ Hits(pending_reqs, {t}) = {} /\ Hits(retrying, {t}) = {}
      /\ Hits(txn_queue, ReqsOf(t)) = {}
  BY <1>2, FS_EmptySet DEF NPending, NRetrying, NQueued
<1>4. \A i \in DOMAIN txn_queue : txn_queue[i] \in Flits
  BY <1>1, ElementOfSeq, LenProperties
<1> QED
  BY <1>3, <1>4 DEF Hits, ReqsOf, Absent

LEMMA UnsentIsNowhere ==
    ASSUME PlaceInv, NEW t \in Txns, hnf[t].phase = "unsent"
    PROVE  Absent(t) /\ \A w \in WireIds : Live(dut[w]) => dut[w].txn # t
<1>1. TypeInv /\ Counted /\ Copies(t) = 0
  BY OnePlaceIs, CopiesCounted DEF PlaceInv, SlotInvOn, PlaceOk, Open
<1>2. NPending(t) = 0 /\ NRetrying(t) = 0 /\ NQueued(t) = 0 /\ NInDut(t) = 0
  BY <1>1 DEF Counted
<1>3. InDut(t) = {}
  BY <1>1, <1>2, FS_EmptySet DEF NInDut, Counted
<1> QED
  BY <1>1, <1>2, <1>3, NoCopies DEF InDut, Live

LEMMA LiveIsAlone ==
    ASSUME PlaceInv, NEW w \in WireIds, Live(dut[w]), NEW t, t = dut[w].txn
    PROVE  /\ t \in Txns /\ Absent(t) /\ hnf[t].completed = 0
           /\ \A v \in WireIds : Live(dut[v]) /\ dut[v].txn = t => v = w
<1>1. TypeInv /\ Counted /\ t \in Txns /\ hnf[t].completed \in Nat /\ PlaceOk(t)
  BY OnePlaceIs, CopiesCounted
     DEF PlaceInv, SlotInvOn, TypeInv, TypeOK, DutTypeOK, DutEntries, Live, HnfTypeOK, HnfEntries
<1>2. w \in InDut(t)
  BY DEF InDut, Live
<1>3. IsFiniteSet(InDut(t)) /\ NInDut(t) # 0
  BY <1>1, <1>2, FS_EmptySet DEF Counted, NInDut
<1>4. /\ NPending(t) = 0 /\ NRetrying(t) = 0 /\ NQueued(t) = 0 /\ NInDut(t) = 1
      /\ Open(t)
  <2>1. /\ Copies(t) = NPending(t) + NRetrying(t) + NQueued(t) + NInDut(t)
        /\ NPending(t) \in Nat /\ NRetrying(t) \in Nat /\ NQueued(t) \in Nat /\ NInDut(t) \in Nat
    BY <1>1 DEF Counted
  <2>2. Copies(t) = 1 /\ Open(t)
    BY <1>1, <1>3, <2>1 DEF PlaceOk
  <2> QED
    BY <1>3, <2>1, <2>2
<1>5. PICK x : InDut(t) = {x}
  BY <1>3, <1>4, FS_Singleton DEF NInDut
<1>6. \A v \in WireIds : Live(dut[v]) /\ dut[v].txn = t => v = w
  BY <1>2, <1>5 DEF InDut, Live
<1> QED
  BY <1>1, <1>4, <1>6, NoCopies DEF Open

(***************************************************************************)
(* Steps that leave gem5 and the link alone, and in the DUT touch entries  *)
(* that are not granted and live no more.                                  *)
(***************************************************************************)
LEMMA PortFrame ==
    ASSUME PortParts, UNCHANGED <<req, hnf, failed, txn_queue>>, AskedInv',
           txn_queue \in Seq(Flits),
           \A w \in WireIds : Live(dut'[w]) => dut'[w] = dut[w] /\ records'[w] = records[w],
           \A w \in WireIds : dut[w] # None /\ dut[w].st = "granted" => dut'[w] = dut[w],
           \A i \in DOMAIN txn_queue : txn_queue[i].ch = "req" =>
               records'[txn_queue[i].wire] = records[txn_queue[i].wire]
    PROVE  PortParts'
<1>1. QueueInv'
  <2> SUFFICES ASSUME NEW i \in DOMAIN txn_queue PROVE ReqFlitOk(i)' /\ DatFlitOk(i)'
    BY DEF QueueInv
  <2>1. ReqFlitOk(i) /\ DatFlitOk(i)
    BY DEF PortParts, QueueInv
  <2>2. ReqFlitOk(i)'
    BY <2>1 DEF ReqFlitOk, Asked
  <2>3. DatFlitOk(i)'
    <3>1. \A w : w \in PoolIds => w \in WireIds
      BY DEF WireIds
    <3> QED
      BY <2>1, <3>1 DEF DatFlitOk
  <2> QED
    BY <2>2, <2>3
<1>2. EntryInv'
  <2> SUFFICES ASSUME NEW w \in WireIds, Live(dut'[w]) PROVE EntryOk(w)' /\ DataOk(w)'
    BY DEF EntryInv
  <2>1. EntryOk(w) /\ DataOk(w) /\ dut'[w] = dut[w] /\ records'[w] = records[w]
    BY DEF PortParts, EntryInv
  <2>2. EntryOk(w)'
    BY <2>1 DEF EntryOk, Asked
  <2>3. DataOk(w)'
    BY <2>1 DEF DataOk
  <2> QED
    BY <2>2, <2>3
<1>3. GrantedInv'
  BY DEF PortParts, GrantedInv
<1>4. CountsInv' /\ ~failed'
  BY DEF PortParts, CountsInv
<1> QED
  BY <1>1, <1>2, <1>3, <1>4 DEF PortParts

\* The clock: what it takes away, the invariant says nothing about.
LEMMA PortCycle ==
    ASSUME PortInv, SlotInvOn(WireIds)', Cycle
    PROVE  PortParts'
<1>1. /\ UNCHANGED <<req, hnf, failed, txn_queue, pending_reqs, retrying>>
      /\ \A w \in WireIds : dut'[w] = Ticked(dut[w])
      /\ \A w \in WireIds : records'[w] = None \/ records'[w] = records[w]
  BY DEF Cycle, on_cycle, mapper_on_cycle, hnfVars
<1>2. dut \in [WireIds -> DutEntries \cup {None}] /\ txn_queue \in Seq(Flits)
  BY DEF PortInv, PlaceInv, SlotInvOn, TypeInv, TypeOK, DutTypeOK, AgentTypeOK
<1>3. \A w \in WireIds : Live(dut'[w]) => dut'[w] = dut[w] /\ records'[w] = records[w]
  <2> SUFFICES ASSUME NEW w \in WireIds, Live(dut'[w])
               PROVE  dut'[w] = dut[w] /\ records'[w] = records[w]
    OBVIOUS
  <2>1. dut'[w] = dut[w]
    <3>1. CASE dut[w] = None \/ dut[w].st # "drain"
      BY <1>1, <3>1 DEF Ticked
    <3>2. CASE dut[w] # None /\ dut[w].st = "drain"
      <4>1. dut'[w] = HandBack(dut[w], dut[w].drain - 1) /\ dut[w] \in DutEntries
        BY <1>1, <1>2, <3>2 DEF Ticked
      <4> QED
        BY <4>1, HandBackNotLive
    <3> QED
      BY <3>1, <3>2
  <2>2. records'[w] # None
    BY DEF SlotInvOn, SlotParts, HeldByDut, Holds, Live
  <2> QED
    BY <1>1, <2>1, <2>2
<1>4. \A w \in WireIds : dut[w] # None /\ dut[w].st = "granted" => dut'[w] = dut[w]
  BY <1>1 DEF Ticked
<1>5. \A i \in DOMAIN txn_queue : txn_queue[i].ch = "req" =>
         records'[txn_queue[i].wire] = records[txn_queue[i].wire]
  <2> SUFFICES ASSUME NEW i \in DOMAIN txn_queue, txn_queue[i].ch = "req"
               PROVE  records'[txn_queue[i].wire] = records[txn_queue[i].wire]
    OBVIOUS
  <2>1. txn_queue[i].wire \in WireIds
    <3>1. txn_queue[i] \in Flits
      BY <1>2, ElementOfSeq, LenProperties
    <3> QED
      BY <3>1 DEF Flits, ReqFlits, DatFlits
  <2>2. ReqFor(txn_queue'[i], txn_queue[i].wire)
    BY <1>1 DEF ReqFor
  <2>3. records'[txn_queue[i].wire] # None
    BY <1>1, <2>1, <2>2 DEF SlotInvOn, SlotParts, HeldByLink, Holds, ReqFor
  <2> QED
    BY <1>1, <2>1, <2>3
<1>6. AskedInv'
  BY <1>1 DEF PortInv, PortParts, AskedInv, Asked
<1> QED
  BY <1>1, <1>2, <1>3, <1>4, <1>5, <1>6, PortFrame DEF PortInv

\* RetryAck, PCrdGrant and a request that is dropped move a request that has
\* seen no answer.
LEMMA PortRequeue ==
    ASSUME PortInv, UNCHANGED <<req, hnf, failed, txn_queue, records>>,
           \/ UNCHANGED dut
           \/ \E w \in WireIds : /\ dut[w] # None /\ dut[w].st = "rejected"
                                 /\ dut' = [dut EXCEPT ![w] = None],
           AskedInv'
    PROVE  PortParts'
<1>1. txn_queue \in Seq(Flits) /\ dut \in [WireIds -> DutEntries \cup {None}]
  BY DEF PortInv, PlaceInv, SlotInvOn, TypeInv, TypeOK, DutTypeOK, AgentTypeOK
<1>2. \A w \in WireIds : Live(dut'[w]) => dut'[w] = dut[w] /\ records'[w] = records[w]
  BY <1>1 DEF Live
<1>3. \A w \in WireIds : dut[w] # None /\ dut[w].st = "granted" => dut'[w] = dut[w]
  BY <1>1
<1> QED
  BY <1>1, <1>2, <1>3, PortFrame DEF PortInv

\* What Append and Tail do to a property of the elements.
LEMMA AllAppend ==
    ASSUME NEW A, NEW s \in Seq(A), NEW x \in A, NEW S,
           \A i \in DOMAIN s : s[i] \in S, x \in S
    PROVE  \A i \in DOMAIN Append(s, x) : Append(s, x)[i] \in S
<1> DEFINE n == Len(s)
           q == Append(s, x)
<1>1. /\ n \in Nat /\ DOMAIN s = 1 .. n /\ DOMAIN q = 1 .. (n + 1)
      /\ \A i \in 1 .. n : q[i] = s[i]
      /\ q[n + 1] = x
  BY AppendProperties, LenProperties
<1> HIDE DEF n, q
<1>2. \A i \in DOMAIN q : q[i] \in S
  BY <1>1
<1> QED
  BY <1>2 DEF q

LEMMA AllTail ==
    ASSUME NEW A, NEW s \in Seq(A), s # << >>, NEW S, \A i \in DOMAIN s : s[i] \in S
    PROVE  /\ \A i \in DOMAIN Tail(s) : Tail(s)[i] \in S
           /\ Head(s) \in S
<1> DEFINE n == Len(s)
           q == Tail(s)
<1>1. /\ n \in Nat \ {0} /\ DOMAIN s = 1 .. n /\ DOMAIN q = 1 .. (n - 1)
      /\ \A i \in 1 .. (n - 1) : q[i] = s[i + 1]
      /\ Head(s) = s[1]
  BY HeadTailProperties, LenProperties, EmptySeq
<1> HIDE DEF n, q
<1>2. \A i \in DOMAIN q : q[i] \in S
  BY <1>1
<1> QED
  BY <1>1, <1>2 DEF q

LEMMA PortPending ==
    ASSUME PortInv,
           \/ RetryPending /\ drop_req
           \/ DutPCrdGrant
           \/ \E w \in WireIds : DutRetryAck(w)
    PROVE  PortParts'
<1> DEFINE S == {t \in Txns : Asked(t)}
<1>1. /\ pending_reqs \in Seq(Txns) /\ retrying \in Seq(Txns) /\ dut \in [WireIds -> DutEntries \cup {None}]
      /\ AskedInv
  BY DEF PortInv, PortParts, PlaceInv, SlotInvOn, TypeInv, TypeOK, DutTypeOK, AgentTypeOK
<1>2. /\ \A i \in DOMAIN pending_reqs : pending_reqs[i] \in S
      /\ \A i \in DOMAIN retrying : retrying[i] \in S
  <2>1. /\ \A i \in DOMAIN pending_reqs : pending_reqs[i] \in Txns
        /\ \A i \in DOMAIN retrying : retrying[i] \in Txns
    BY <1>1, ElementOfSeq, LenProperties
  <2> QED
    BY <1>1, <2>1 DEF AskedInv
<1> HIDE DEF S
<1>3. ASSUME \A i \in DOMAIN pending_reqs' : pending_reqs'[i] \in S,
             \A i \in DOMAIN retrying' : retrying'[i] \in S, UNCHANGED <<req, hnf>>
      PROVE  AskedInv'
  BY <1>3 DEF AskedInv, Asked, S
<1>4. CASE RetryPending /\ drop_req
  <2>1. /\ UNCHANGED <<req, hnf, failed, txn_queue, records, retrying, dut>>
        /\ pending_reqs # << >> /\ pending_reqs' = Tail(pending_reqs)
    BY <1>4 DEF RetryPending, drop_req, consume_head, hnfVars, mapperVars, dutVars
  <2>2. \A i \in DOMAIN pending_reqs' : pending_reqs'[i] \in S
    BY <1>1, <1>2, <2>1, AllTail
  <2> QED
    BY <1>2, <1>3, <2>1, <2>2, PortRequeue
<1>5. CASE DutPCrdGrant
  <2>1. UNCHANGED <<req, hnf, failed, txn_queue, records, dut>>
    BY <1>5 DEF DutPCrdGrant, on_pcrdgrant, hnfVars, mapperVars
  <2>2. CASE retrying = << >>
    BY <1>2, <1>3, <1>5, <2>1, <2>2, PortRequeue DEF DutPCrdGrant, on_pcrdgrant
  <2>3. CASE retrying # << >>
    <3>1. retrying' = Tail(retrying) /\ pending_reqs' = Append(pending_reqs, Head(retrying))
      BY <1>5, <2>3 DEF DutPCrdGrant, on_pcrdgrant, reissue
    <3>2. Head(retrying) \in Txns /\ Head(retrying) \in S
          /\ \A i \in DOMAIN retrying' : retrying'[i] \in S
      BY <1>1, <1>2, <2>3, <3>1, AllTail, HeadTailProperties
    <3>3. \A i \in DOMAIN pending_reqs' : pending_reqs'[i] \in S
      BY <1>1, <1>2, <3>1, <3>2, AllAppend
    <3> QED
      BY <1>3, <2>1, <3>2, <3>3, PortRequeue
  <2> QED
    BY <2>2, <2>3
<1>6. ASSUME NEW w \in WireIds, DutRetryAck(w) PROVE PortParts'
  <2>1. /\ dut[w] # None /\ dut[w].st = "rejected" /\ dut' = [dut EXCEPT ![w] = None]
        /\ UNCHANGED <<req, hnf, failed, pending_reqs, txn_queue, records>> /\ on_retryack(w)
    BY <1>6 DEF DutRetryAck, on_retryack, hnfVars
  <2>2. retrying' = Append(retrying, dut[w].txn)
    <3>1. Holds(w, dut[w].txn)
      BY <2>1 DEF PortInv, PlaceInv, SlotInvOn, SlotParts, HeldByDut
    <3> QED
      BY <2>1, <3>1 DEF on_retryack, Holds
  <2>3. dut[w].txn \in Txns /\ dut[w].txn \in S
    <3>1. EntryOk(w) /\ dut[w].txn \in Txns
      BY <1>1, <2>1 DEF PortInv, PortParts, EntryInv, Live, DutEntries
    <3> QED
      BY <2>1, <3>1 DEF EntryOk, S
  <2>4. \A i \in DOMAIN retrying' : retrying'[i] \in S
    BY <1>1, <1>2, <2>2, <2>3, AllAppend
  <2> QED
    BY <1>2, <1>3, <2>1, <2>4, PortRequeue
<1> QED
  BY <1>4, <1>5, <1>6

(***************************************************************************)
(* A flit or an entry that a step leaves alone, with what gem5 and the     *)
(* mapper know of it.                                                      *)
(***************************************************************************)
LEMMA FlitFrame ==
    ASSUME req' = req, NEW i, NEW j, ReqFlitOk(i), DatFlitOk(i), NEW f,
           f = txn_queue[i], f = txn_queue'[j], hnf'[f.txn] = hnf[f.txn],
           f.ch = "req" => records'[f.wire] = records[f.wire],
           f.ch = "dat" => /\ dut'[f.wire] = dut[f.wire]
                           /\ \A k \in DOMAIN txn_queue' : txn_queue'[k] = f => k = j
    PROVE  ReqFlitOk(j)' /\ DatFlitOk(j)'
<1>1. ReqFlitOk(j)'
  BY DEF ReqFlitOk, Asked
<1>2. DatFlitOk(j)'
  BY DEF DatFlitOk
<1> QED
  BY <1>1, <1>2

LEMMA EntryFrame ==
    ASSUME req' = req, NEW w \in WireIds, EntryOk(w), DataOk(w),
           dut'[w] = dut[w], records'[w] = records[w],
           hnf'[dut[w].txn] = hnf[dut[w].txn],
           \A i \in DOMAIN txn_queue :
               txn_queue[i].ch = "dat" /\ txn_queue[i].wire = w =>
                   \E j \in DOMAIN txn_queue' : txn_queue'[j] = txn_queue[i]
    PROVE  EntryOk(w)' /\ DataOk(w)'
<1>1. EntryOk(w)'
  BY DEF EntryOk, Asked
<1>2. \A t, id : DataBeat(w, t, id).ch = "dat" /\ DataBeat(w, t, id).wire = w
  BY DEF DataBeat
<1>3. DataOk(w)'
  BY <1>2 DEF DataOk
<1> QED
  BY <1>1, <1>3

\* gem5 sends a request: its txnid was nowhere on the path.
LEMMA PortReq ==
    ASSUME PortInv, NEW u \in Txns, Gem5Req(u)
    PROVE  PortParts'
<1>1. /\ UNCHANGED <<req, failed, txn_queue, retrying, records, dut>>
      /\ pending_reqs' = Append(pending_reqs, u)
      /\ hnf[u].phase = "unsent"
  BY DEF Gem5Req, handle_gem5_req, expect, dutVars, mapperVars
<1>2. /\ pending_reqs \in Seq(Txns) /\ retrying \in Seq(Txns) /\ txn_queue \in Seq(Flits)
      /\ dut \in [WireIds -> DutEntries \cup {None}]
      /\ hnf \in [Txns -> HnfEntries] /\ req \in [Txns -> Requests]
      /\ AskedInv /\ QueueInv /\ EntryInv /\ GrantedInv /\ CountsInv /\ ~failed
      /\ PlaceInv /\ UnsentFresh
  BY DEF PortInv, PortParts, PlaceInv, SlotInvOn, TypeInv, TypeOK, DutTypeOK, AgentTypeOK, HnfTypeOK
<1>3. Absent(u) /\ \A w \in WireIds : Live(dut[w]) => dut[w].txn # u
  BY <1>1, <1>2, UnsentIsNowhere
<1>4. /\ \A t \in Txns : t # u => hnf'[t] = hnf[t]
      /\ hnf'[u].phase \notin {"unsent", "wait_data", "wait_comp"}
      /\ req[u].op = "read" => hnf'[u].phase = "read"
      /\ req[u].op = "write" => hnf'[u].phase = "wait_dbid"
      /\ hnf'[u].completed = hnf[u].completed /\ hnf'[u].beats = hnf[u].beats
  <2>1. req[u].op \in {"read", "write", "other"}
    BY <1>2, RequestsAssumption
  <2>2. PICK p \in {"read", "wait_dbid", "other"} :
          /\ hnf' = [hnf EXCEPT ![u].phase = p]
          /\ req[u].op = "read" => p = "read"
          /\ req[u].op = "write" => p = "wait_dbid"
    BY <2>1 DEF Gem5Req, handle_gem5_req, expect
  <2> DEFINE h == [hnf[u] EXCEPT !.phase = p]
  <2>3. /\ hnf' = [hnf EXCEPT ![u] = h] /\ h.phase = p
        /\ h.completed = hnf[u].completed /\ h.beats = hnf[u].beats
    BY <1>2, <2>2 DEF HnfEntries
  <2> HIDE DEF h
  <2> QED
    BY <1>2, <2>2, <2>3
<1>5. Asked(u)'
  BY <1>1, <1>2, <1>4 DEF Asked, CountsInv
<1>6. AskedInv'
  <2> DEFINE S == {t \in Txns : Asked(t)'}
  <2>1. /\ \A i \in DOMAIN pending_reqs : pending_reqs[i] \in Txns
        /\ \A i \in DOMAIN retrying : retrying[i] \in Txns
    BY <1>2, LenProperties, ElementOfSeq
  <2>2. \A t \in Txns : t # u /\ Asked(t) => t \in S
    BY <1>1, <1>4 DEF Asked
  <2>3. u \in S
    BY <1>5
  <2> HIDE DEF S
  <2>4. /\ \A i \in DOMAIN pending_reqs : pending_reqs[i] \in S
        /\ \A i \in DOMAIN retrying : retrying[i] \in S
    BY <1>2, <1>3, <2>1, <2>2 DEF AskedInv, Absent
  <2>5. /\ \A i \in DOMAIN pending_reqs' : pending_reqs'[i] \in S
        /\ \A i \in DOMAIN retrying' : retrying'[i] \in S
    BY <1>1, <1>2, <2>3, <2>4, AllAppend
  <2> QED
    BY <2>5 DEF AskedInv, Asked, S
<1>7. QueueInv'
  <2> SUFFICES ASSUME NEW i \in DOMAIN txn_queue PROVE ReqFlitOk(i)' /\ DatFlitOk(i)'
    BY <1>1 DEF QueueInv
  <2>1. ReqFlitOk(i) /\ DatFlitOk(i)
    BY <1>2 DEF QueueInv
  <2>2. txn_queue[i] \in Flits
    BY <1>2, LenProperties, ElementOfSeq
  <2>3. txn_queue[i].txn \in Txns /\ txn_queue[i].txn # u
    BY <1>1, <1>3, <2>1, <2>2 DEF Flits, ReqFlits, DatFlits, Absent, DatFlitOk
  <2>4. txn_queue[i].ch = "dat" => \A k \in DOMAIN txn_queue : txn_queue[k] = txn_queue[i] => k = i
    BY <2>1 DEF DatFlitOk
  <2> QED
    BY <1>1, <1>4, <2>1, <2>3, <2>4, FlitFrame
<1>8. EntryInv'
  <2> SUFFICES ASSUME NEW w \in WireIds, Live(dut'[w]) PROVE EntryOk(w)' /\ DataOk(w)'
    BY DEF EntryInv
  <2>1. EntryOk(w) /\ DataOk(w) /\ dut[w].txn \in Txns /\ dut[w].txn # u
    BY <1>1, <1>2, <1>3 DEF EntryInv, Live, DutEntries
  <2> QED
    BY <1>1, <1>4, <2>1, EntryFrame
<1>9. GrantedInv'
  BY <1>1, <1>2, <1>4 DEF GrantedInv
<1>10. CountsInv'
  BY <1>1, <1>2, <1>4 DEF CountsInv, UnsentFresh
<1> QED
  BY <1>1, <1>2, <1>6, <1>7, <1>8, <1>9, <1>10 DEF PortParts

(***************************************************************************)
(* split_write_data makes each beat the write needs, once.                 *)
(***************************************************************************)
SplitOk(d, w, t) ==
    /\ d \in Seq(Flits)
    /\ \A i \in DOMAIN d : \E id \in required_data_ids(req[t]) : d[i] = DataBeat(w, t, id)
    /\ \A id \in required_data_ids(req[t]) : \E i \in DOMAIN d : d[i] = DataBeat(w, t, id)
    /\ \A i, j \in DOMAIN d : d[i] = d[j] => i = j

LEMMA SplitCovers ==
    ASSUME TypeInv, NEW w \in WireIds, NEW t \in Txns, Supported(req[t])
    PROVE  SplitOk(split_write_data(w, t), w, t)
<1> DEFINE low == DataBeat(w, t, DATA_ID_LOW)
           high == DataBeat(w, t, DATA_ID_HIGH)
           short == DataBeat(w, t, short_data_id(req[t]))
           d == split_write_data(w, t)
           ids == required_data_ids(req[t])
<1>1. req[t] \in Requests
  BY DEF TypeInv, TypeOK, HnfTypeOK
<1>2. \/ size_bytes(req[t]) = 64
      \/ size_bytes(req[t]) <= 32 /\ size_bytes(req[t]) \in Nat
  BY <1>1, SizeCases
<1>b. data_len(req[t]) = size_bytes(req[t])
  BY <1>1, SizesAssumption DEF data_len, size_bytes
<1>3. d \in Seq(Flits)
  BY SplitType DEF TypeInv, TypeOK, AgentTypeOK
<1>4. CASE size_bytes(req[t]) = 64
  <2>1. d = <<low, high>> /\ ids = {DATA_ID_LOW, DATA_ID_HIGH}
    BY <1>4, <1>b DEF split_write_data, required_data_ids, DAT_BEAT_BYTES, LINE_BYTES
  <2>2. low # high
    BY DEF DataBeat, DATA_ID_LOW, DATA_ID_HIGH
  <2> HIDE DEF d, ids
  <2>3. /\ \A i \in DOMAIN d : \E id \in ids : d[i] = DataBeat(w, t, id)
        /\ \A id \in ids : \E i \in DOMAIN d : d[i] = DataBeat(w, t, id)
    <3> HIDE DEF low, high
    <3>1. DOMAIN d = {1, 2} /\ d[1] = low /\ d[2] = high
      BY <2>1
    <3> QED
      BY <2>1, <3>1 DEF low, high
  <2>4. \A i, j \in DOMAIN d : d[i] = d[j] => i = j
    <3> HIDE DEF low, high
    <3> QED
      BY <2>1, <2>2
  <2> QED
    BY <1>3, <2>3, <2>4 DEF SplitOk, d, ids
<1>5. CASE size_bytes(req[t]) <= 32 /\ size_bytes(req[t]) \in Nat
  <2>1. d = <<short>> /\ ids = {short_data_id(req[t])}
    BY <1>5, <1>b DEF split_write_data, required_data_ids, short_data_id, DAT_BEAT_BYTES, LINE_BYTES
  <2> HIDE DEF d, ids, short
  <2>2. DOMAIN d = {1} /\ d[1] = short
    BY <2>1
  <2> QED
    BY <1>3, <2>1, <2>2 DEF SplitOk, d, ids, short
<1> QED
  BY <1>2, <1>4, <1>5

\* The state variables' shapes and the parts of the invariant.
PortFacts ==
    /\ TypeInv /\ SlotInvOn(WireIds) /\ PlaceInv
    /\ pending_reqs \in Seq(Txns) /\ retrying \in Seq(Txns) /\ txn_queue \in Seq(Flits)
    /\ dut \in [WireIds -> DutEntries \cup {None}]
    /\ hnf \in [Txns -> HnfEntries] /\ req \in [Txns -> Requests]
    /\ records \in [WireIds -> TxnRecords \cup {None}]
    /\ AskedInv /\ QueueInv /\ EntryInv /\ GrantedInv /\ CountsInv /\ ~failed
    /\ \A i \in DOMAIN pending_reqs : pending_reqs[i] \in Txns
    /\ \A i \in DOMAIN retrying : retrying[i] \in Txns
    /\ \A i \in DOMAIN txn_queue :
          /\ txn_queue[i] \in Flits /\ txn_queue[i].wire \in WireIds
          /\ txn_queue[i].txn \in Txns /\ txn_queue[i].ch \in {"req", "dat"}

LEMMA PortInvFacts == PortInv => PortFacts
<1> SUFFICES ASSUME PortInv PROVE PortFacts
  OBVIOUS
<1>1. /\ TypeInv /\ SlotInvOn(WireIds) /\ PlaceInv
      /\ pending_reqs \in Seq(Txns) /\ retrying \in Seq(Txns) /\ txn_queue \in Seq(Flits)
      /\ dut \in [WireIds -> DutEntries \cup {None}]
      /\ hnf \in [Txns -> HnfEntries] /\ req \in [Txns -> Requests]
      /\ records \in [WireIds -> TxnRecords \cup {None}]
      /\ AskedInv /\ QueueInv /\ EntryInv /\ GrantedInv /\ CountsInv /\ ~failed
  BY DEF PortInv, PortParts, PlaceInv, SlotInvOn, TypeInv, TypeOK, DutTypeOK, AgentTypeOK,
         MapperTypeOK, HnfTypeOK
<1>2. /\ \A i \in DOMAIN pending_reqs : pending_reqs[i] \in Txns
      /\ \A i \in DOMAIN retrying : retrying[i] \in Txns
      /\ \A i \in DOMAIN txn_queue : txn_queue[i] \in Flits
  BY <1>1, LenProperties, ElementOfSeq
<1>3. \A f \in Flits : f.wire \in WireIds /\ f.txn \in Txns /\ f.ch \in {"req", "dat"}
  BY DEF Flits, ReqFlits, DatFlits
<1> QED
  BY <1>1, <1>2, <1>3 DEF PortFacts

(***************************************************************************)
(* gem5 sends the data of a granted write.  find_write's record is that of *)
(* the entry that granted it, so the beats go to the slot that waits for   *)
(* them.                                                                   *)
(***************************************************************************)
LEMMA PortDat ==
    ASSUME PortInv, OneRecord, NEW u \in Txns, Gem5Dat(u)
    PROVE  PortParts'
<1>1. PortFacts
  BY PortInvFacts
<1>2. /\ UNCHANGED <<req, failed, pending_reqs, retrying, records, dut>>
      /\ hnf[u].phase = "wait_data"
      /\ hnf' = [hnf EXCEPT ![u].phase = "wait_comp"]
  BY DEF Gem5Dat, handle_gem5_dat, send_write_data, dutVars, mapperVars
<1>3. /\ \A t \in Txns : t # u => hnf'[t] = hnf[t]
      /\ hnf'[u].phase = "wait_comp"
      /\ hnf'[u].completed = hnf[u].completed /\ hnf'[u].beats = hnf[u].beats
      /\ hnf'[u].dbid = hnf[u].dbid /\ hnf[u].completed = 0
  <2> DEFINE h == [hnf[u] EXCEPT !.phase = "wait_comp"]
  <2>1. /\ hnf' = [hnf EXCEPT ![u] = h] /\ h.phase = "wait_comp"
        /\ h.completed = hnf[u].completed /\ h.beats = hnf[u].beats /\ h.dbid = hnf[u].dbid
    BY <1>1, <1>2 DEF PortFacts, HnfEntries
  <2>2. hnf[u].completed = 0
    BY <1>1, <1>2 DEF PortFacts, CountsInv
  <2> HIDE DEF h
  <2> QED
    BY <1>1, <2>1, <2>2 DEF PortFacts
<1>4. PICK w \in WireIds : dut[w] # None /\ dut[w].st = "granted" /\ dut[w].txn = u
  BY <1>1, <1>2, <1>3 DEF PortFacts, GrantedInv
<1>5. /\ Live(dut[w]) /\ EntryOk(w) /\ DataOk(w)
      /\ Supported(req[u]) /\ req[u].op = "write" /\ w \in PoolIds /\ dut[w].data = {}
  <2>1. Live(dut[w]) /\ EntryOk(w) /\ DataOk(w)
    BY <1>1, <1>4 DEF PortFacts, EntryInv, Live
  <2> QED
    BY <1>2, <1>4, <2>1 DEF EntryOk, DataOk
<1>6. /\ Absent(u)
      /\ \A v \in WireIds : Live(dut[v]) /\ dut[v].txn = u => v = w
  BY <1>1, <1>4, <1>5, LiveIsAlone DEF PortFacts
<1>7. \A i \in DOMAIN txn_queue : txn_queue[i].txn # u
  BY <1>1, <1>2, <1>6 DEF PortFacts, QueueInv, DatFlitOk, Absent
<1>8. txn_queue' = txn_queue \o split_write_data(w, u)
  <2>1. w \in WritesOf(u)
    BY <1>1, <1>4, <1>5 DEF PortFacts, SlotInvOn, SlotParts, HeldByDut, Holds, WritesOf
  <2>2. PICK v \in WireIds : find_write(u, v) /\ txn_queue' = txn_queue \o split_write_data(v, u)
    BY <2>1 DEF Gem5Dat, handle_gem5_dat
  <2>3. v = w
    BY <1>2, <2>1, <2>2 DEF OneRecord, find_write
  <2> QED
    BY <2>2, <2>3
<1> DEFINE d == split_write_data(w, u)
           n == Len(txn_queue)
<1>9. SplitOk(d, w, u)
  BY <1>1, <1>5, SplitCovers DEF PortFacts
<1> HIDE DEF d
<1>10. /\ n \in Nat /\ Len(d) \in Nat /\ DOMAIN d = 1 .. Len(d)
       /\ DOMAIN txn_queue = 1 .. n
       /\ DOMAIN txn_queue' = 1 .. (n + Len(d))
       /\ \A i \in 1 .. n : txn_queue'[i] = txn_queue[i]
       /\ \A i \in 1 .. (n + Len(d)) : i \notin 1 .. n => txn_queue'[i] = d[i - n]
  BY <1>1, <1>8, <1>9, ConcatProperties, LenProperties DEF PortFacts, SplitOk, d
<1> HIDE DEF n
<1>11. /\ \A i \in DOMAIN txn_queue' : i \notin DOMAIN txn_queue => i - n \in DOMAIN d
       /\ \A k \in DOMAIN d : n + k \in DOMAIN txn_queue' /\ n + k \notin DOMAIN txn_queue
                              /\ txn_queue'[n + k] = d[k]
  <2>1. \A i \in DOMAIN txn_queue' : i \notin DOMAIN txn_queue => i - n \in DOMAIN d
    BY <1>10
  <2>2. ASSUME NEW k \in DOMAIN d
        PROVE  n + k \in DOMAIN txn_queue' /\ n + k \notin DOMAIN txn_queue /\ txn_queue'[n + k] = d[k]
    <3>1. n + k \in 1 .. (n + Len(d)) /\ n + k \notin 1 .. n /\ (n + k) - n = k
      BY <1>10, <2>2
    <3>2. txn_queue'[n + k] = d[(n + k) - n]
      BY <1>10, <3>1, Zenon
    <3> QED
      BY <1>10, <3>1, <3>2
  <2> QED
    BY <2>1, <2>2
<1>12. ASSUME NEW i \in DOMAIN txn_queue', i \notin DOMAIN txn_queue
       PROVE  /\ i - n \in DOMAIN d /\ txn_queue'[i] = d[i - n]
              /\ \E id \in required_data_ids(req[u]) : txn_queue'[i] = DataBeat(w, u, id)
  <2>1. i - n \in DOMAIN d /\ txn_queue'[i] = d[i - n]
    BY <1>10, <1>11, <1>12
  <2> QED
    BY <1>9, <2>1 DEF SplitOk
<1>13. QueueInv'
  <2> SUFFICES ASSUME NEW i \in DOMAIN txn_queue' PROVE ReqFlitOk(i)' /\ DatFlitOk(i)'
    BY DEF QueueInv
  <2>1. CASE i \in DOMAIN txn_queue
    <3>1. ReqFlitOk(i) /\ DatFlitOk(i) /\ txn_queue[i].txn # u /\ txn_queue[i].txn \in Txns
          /\ txn_queue'[i] = txn_queue[i]
      BY <1>1, <1>7, <1>10, <2>1 DEF PortFacts, QueueInv
    <3>2. txn_queue[i].ch = "dat" =>
            \A k \in DOMAIN txn_queue' : txn_queue'[k] = txn_queue[i] => k = i
      <4> SUFFICES ASSUME txn_queue[i].ch = "dat", NEW k \in DOMAIN txn_queue',
                          txn_queue'[k] = txn_queue[i]
                   PROVE  k = i
        OBVIOUS
      <4>1. CASE k \in DOMAIN txn_queue
        BY <1>10, <3>1, <4>1 DEF DatFlitOk
      <4>2. CASE k \notin DOMAIN txn_queue
        <5>1. txn_queue'[k].txn = u
          BY <1>12, <4>2 DEF DataBeat
        <5> QED
          BY <3>1, <5>1
      <4> QED
        BY <4>1, <4>2
    <3> QED
      BY <1>2, <1>3, <3>1, <3>2, FlitFrame
  <2>2. CASE i \notin DOMAIN txn_queue
    <3>1. PICK id \in required_data_ids(req[u]) : txn_queue'[i] = DataBeat(w, u, id)
      BY <1>12, <2>2
    <3>2. /\ txn_queue'[i].ch = "dat" /\ txn_queue'[i].wire = w
          /\ txn_queue'[i].txn = u /\ txn_queue'[i].data_id = id
      BY <3>1 DEF DataBeat
    <3>3. \A k \in DOMAIN txn_queue' : txn_queue'[k] = txn_queue'[i] => k = i
      <4> SUFFICES ASSUME NEW k \in DOMAIN txn_queue', txn_queue'[k] = txn_queue'[i]
                   PROVE  k = i
        OBVIOUS
      <4>1. k \notin DOMAIN txn_queue
        BY <1>7, <1>10, <3>2
      <4>2. d[k - n] = d[i - n] /\ k - n \in DOMAIN d /\ i - n \in DOMAIN d
        BY <1>12, <2>2, <4>1
      <4>3. k - n = i - n
        BY <1>9, <4>2 DEF SplitOk
      <4>4. k \in Int /\ i \in Int /\ n \in Int
        BY <1>10
      <4> QED
        BY <4>3, <4>4
    <3>4. ReqFlitOk(i)'
      BY <3>2 DEF ReqFlitOk
    <3>5. DatFlitOk(i)'
      BY <1>2, <1>3, <1>4, <1>5, <3>2, <3>3 DEF DatFlitOk
    <3> QED
      BY <3>4, <3>5
  <2> QED
    BY <2>1, <2>2
<1>14. EntryInv'
  <2> SUFFICES ASSUME NEW v \in WireIds, Live(dut'[v]) PROVE EntryOk(v)' /\ DataOk(v)'
    BY DEF EntryInv
  <2>1. CASE v = w
    <3>1. EntryOk(w)'
      BY <1>2, <1>3, <1>4, <1>5 DEF EntryOk, Asked
    <3>2. \A id \in required_data_ids(req[u]) :
             \E i \in DOMAIN txn_queue' : txn_queue'[i] = DataBeat(w, u, id)
      BY <1>9, <1>11 DEF SplitOk
    <3>3. DataOk(w)'
      BY <1>2, <1>3, <1>4, <1>5, <3>2 DEF DataOk
    <3> QED
      BY <2>1, <3>1, <3>3
  <2>2. CASE v # w
    <3>1. EntryOk(v) /\ DataOk(v) /\ dut[v].txn \in Txns /\ dut[v].txn # u
      BY <1>1, <1>2, <1>6, <2>2 DEF PortFacts, EntryInv, Live, DutEntries
    <3>2. \A i \in DOMAIN txn_queue : \E j \in DOMAIN txn_queue' : txn_queue'[j] = txn_queue[i]
      BY <1>10
    <3> QED
      BY <1>2, <1>3, <3>1, <3>2, EntryFrame
  <2> QED
    BY <2>1, <2>2
<1>15. GrantedInv'
  BY <1>1, <1>2, <1>3, <1>4 DEF PortFacts, GrantedInv
<1>16. AskedInv'
  BY <1>1, <1>2, <1>3, <1>6 DEF PortFacts, AskedInv, Asked, Absent
<1>17. CountsInv'
  BY <1>1, <1>3 DEF PortFacts, CountsInv
<1> QED
  BY <1>1, <1>2, <1>13, <1>14, <1>15, <1>16, <1>17 DEF PortFacts, PortParts

\* AskedInv speaks of the elements of two queues.
LEMMA AskedFrame ==
    ASSUME UNCHANGED <<req, hnf>>,
           \A i \in DOMAIN pending_reqs' : \E t : t = pending_reqs'[i] /\ Asked(t),
           \A i \in DOMAIN retrying' : \E t : t = retrying'[i] /\ Asked(t)
    PROVE  AskedInv'
BY DEF AskedInv, Asked

\* _issue_req: the wire id is used by nothing, so its new record is the
\* request's alone.
LEMMA PortIssue ==
    ASSUME PortInv, ReadIdFree, RetryPending, issue_req
    PROVE  PortParts'
<1>1. PortFacts
  BY PortInvFacts
<1>2. /\ UNCHANGED <<req, hnf, failed, retrying, dut>>
      /\ pending_reqs # << >> /\ pending_reqs' = Tail(pending_reqs)
  BY DEF RetryPending, issue_req, consume_head, hnfVars, dutVars
<1>3. PICK t \in Txns : t = Head(pending_reqs)
  BY <1>1, <1>2, HeadTailProperties DEF PortFacts
<1>4. PICK w \in WireIds :
        /\ alloc(t, w, retried[t], read_beats(req[t]))
        /\ txn_queue' = Append(txn_queue,
             [ch |-> "req", wire |-> w, txn |-> t, ewa |-> FALSE, allow_retry |-> TRUE])
  BY <1>3 DEF issue_req
<1> DEFINE f == [ch |-> "req", wire |-> w, txn |-> t, ewa |-> FALSE, allow_retry |-> TRUE]
           n == Len(txn_queue)
<1>5. f \in Flits /\ f.ch = "req" /\ f.wire = w /\ f.txn = t
  BY DEF Flits, ReqFlits
<1>6. txn_queue' = Append(txn_queue, f)
  BY <1>4
<1> HIDE DEF f
<1>7. /\ n \in Nat /\ DOMAIN txn_queue = 1 .. n /\ DOMAIN txn_queue' = 1 .. (n + 1)
      /\ \A i \in 1 .. n : txn_queue'[i] = txn_queue[i]
      /\ txn_queue'[n + 1] = f
  BY <1>1, <1>5, <1>6, AppendProperties, LenProperties DEF PortFacts
<1> HIDE DEF n
<1>8. records[w] = None
  <2>1. \/ w = next_read_id /\ Bypasses(Head(pending_reqs))
        \/ w \in FreeSlots
    BY <1>3, <1>4 DEF alloc
  <2> QED
    BY <2>1 DEF ReadIdFree, FreeSlots, Occupied, issue_req
<1>9. /\ dut[w] = None
      /\ \A i \in DOMAIN txn_queue : txn_queue[i].ch = "req" => txn_queue[i].wire # w
  BY <1>1, <1>8 DEF PortFacts, SlotInvOn, SlotParts, HeldByDut, HeldByLink, Holds, ReqFor
<1>10. /\ records'[w].next_dataid = 0
       /\ \A v \in WireIds : v # w => records'[v] = records[v]
  <2> DEFINE r == [txn |-> t, attempt |-> retried[t], fwd_dbid |-> 0,
                   beats_left |-> read_beats(req[t]), next_dataid |-> 0]
  <2>1. records' = [records EXCEPT ![w] = r] /\ r.next_dataid = 0
    BY <1>4 DEF alloc
  <2> HIDE DEF r
  <2> QED
    BY <1>1, <2>1 DEF PortFacts
<1>11. Asked(t) /\ Supported(req[t])
  <2>1. 1 \in DOMAIN pending_reqs /\ t = pending_reqs[1]
    BY <1>1, <1>2, <1>3, HeadTailProperties, LenProperties, EmptySeq DEF PortFacts
  <2> QED
    BY <1>1, <1>3, <2>1 DEF PortFacts, AskedInv, issue_req
<1>12. QueueInv'
  <2> SUFFICES ASSUME NEW i \in DOMAIN txn_queue' PROVE ReqFlitOk(i)' /\ DatFlitOk(i)'
    BY DEF QueueInv
  <2>1. CASE i \in 1 .. n
    <3>1. /\ ReqFlitOk(i) /\ DatFlitOk(i) /\ txn_queue'[i] = txn_queue[i]
          /\ txn_queue[i].wire \in WireIds /\ i \in DOMAIN txn_queue
      BY <1>1, <1>7, <2>1 DEF PortFacts, QueueInv
    <3>2. txn_queue[i].ch = "req" => records'[txn_queue[i].wire] = records[txn_queue[i].wire]
      BY <1>9, <1>10, <3>1
    <3>3. txn_queue[i].ch = "dat" =>
            \A k \in DOMAIN txn_queue' : txn_queue'[k] = txn_queue[i] => k = i
      <4> SUFFICES ASSUME txn_queue[i].ch = "dat", NEW k \in DOMAIN txn_queue',
                          txn_queue'[k] = txn_queue[i]
                   PROVE  k = i
        OBVIOUS
      <4>1. k \in 1 .. n
        <5>1. k \in 1 .. n \/ k = n + 1
          BY <1>7
        <5> QED
          BY <1>5, <1>7, <5>1
      <4> QED
        BY <1>7, <3>1, <4>1 DEF DatFlitOk
    <3> QED
      BY <1>2, <3>1, <3>2, <3>3, FlitFrame
  <2>2. CASE i \notin 1 .. n
    <3>1. txn_queue'[i] = f
      BY <1>7, <2>2
    <3>2. DatFlitOk(i)'
      BY <1>5, <3>1 DEF DatFlitOk
    <3>3. ReqFlitOk(i)'
      BY <1>2, <1>5, <1>10, <1>11, <3>1 DEF ReqFlitOk, Asked
    <3> QED
      BY <3>2, <3>3
  <2> QED
    BY <2>1, <2>2
<1>13. EntryInv'
  <2> SUFFICES ASSUME NEW v \in WireIds, Live(dut'[v]) PROVE EntryOk(v)' /\ DataOk(v)'
    BY DEF EntryInv
  <2>1. EntryOk(v) /\ DataOk(v) /\ v # w
    BY <1>1, <1>2, <1>9 DEF PortFacts, EntryInv, Live
  <2>2. \A i \in DOMAIN txn_queue : \E j \in DOMAIN txn_queue' : txn_queue'[j] = txn_queue[i]
    BY <1>7
  <2> QED
    BY <1>2, <1>10, <2>1, <2>2, EntryFrame
<1>14. GrantedInv' /\ CountsInv' /\ ~failed'
  BY <1>1, <1>2 DEF PortFacts, GrantedInv, CountsInv
<1>15. AskedInv'
  <2>1. /\ \A i \in DOMAIN pending_reqs : pending_reqs[i] \in {x \in Txns : Asked(x)}
        /\ \A i \in DOMAIN retrying : retrying[i] \in {x \in Txns : Asked(x)}
    BY <1>1 DEF PortFacts, AskedInv
  <2>2. \A i \in DOMAIN pending_reqs' : pending_reqs'[i] \in {x \in Txns : Asked(x)}
    <3> DEFINE S == {x \in Txns : Asked(x)}
    <3> HIDE DEF S
    <3>1. \A i \in DOMAIN Tail(pending_reqs) : Tail(pending_reqs)[i] \in S
      BY <1>1, <1>2, <2>1, AllTail DEF PortFacts, S
    <3> QED
      BY <1>2, <3>1 DEF S
  <2> QED
    BY <1>2, <2>1, <2>2, AskedFrame
<1> QED
  BY <1>12, <1>13, <1>14, <1>15 DEF PortParts

(***************************************************************************)
(* The link delivers the flit at the head of the queue.                    *)
(***************************************************************************)
LEMMA Delivered1 ==
    ASSUME PortInv, Deliver
    PROVE  /\ UNCHANGED <<req, hnf, failed, pending_reqs, retrying, records>>
           /\ AskedInv' /\ CountsInv' /\ ~failed'
           /\ 1 \in DOMAIN txn_queue /\ Head(txn_queue) = txn_queue[1]
           /\ \A j \in DOMAIN txn_queue' :
                 /\ j \in Int /\ j + 1 \in DOMAIN txn_queue /\ j + 1 # 1
                 /\ txn_queue'[j] = txn_queue[j + 1]
           /\ \A i \in DOMAIN txn_queue : i # 1 =>
                 \E j \in DOMAIN txn_queue' : txn_queue'[j] = txn_queue[i]
<1> DEFINE n == Len(txn_queue)
<1>1. PortFacts
  BY PortInvFacts
<1>2. /\ UNCHANGED <<req, hnf, failed, pending_reqs, retrying, records>>
      /\ txn_queue # << >> /\ txn_queue' = Tail(txn_queue)
  BY DEF Deliver, hnfVars, mapperVars
<1>3. /\ n \in Nat \ {0} /\ DOMAIN txn_queue = 1 .. n /\ DOMAIN txn_queue' = 1 .. (n - 1)
      /\ \A i \in 1 .. (n - 1) : txn_queue'[i] = txn_queue[i + 1]
      /\ Head(txn_queue) = txn_queue[1]
  BY <1>1, <1>2, HeadTailProperties, LenProperties, EmptySeq DEF PortFacts
<1> HIDE DEF n
<1>4. AskedInv' /\ CountsInv' /\ ~failed'
  BY <1>1, <1>2 DEF PortFacts, AskedInv, Asked, CountsInv
<1>5. ASSUME NEW i \in DOMAIN txn_queue, i # 1
      PROVE  \E j \in DOMAIN txn_queue' : txn_queue'[j] = txn_queue[i]
  <2>1. i - 1 \in 1 .. (n - 1) /\ (i - 1) + 1 = i
    BY <1>3, <1>5
  <2>2. txn_queue'[i - 1] = txn_queue[(i - 1) + 1]
    BY <1>3, <2>1
  <2> QED
    BY <1>3, <2>1, <2>2
<1>6. \A j \in DOMAIN txn_queue' : /\ j \in Int /\ j + 1 \in DOMAIN txn_queue /\ j + 1 # 1
                                   /\ txn_queue'[j] = txn_queue[j + 1]
  BY <1>3
<1> QED
  BY <1>2, <1>3, <1>4, <1>5, <1>6

\* Where slots agree, a request is admitted into the slot of its wire id or
\* bypasses the pool, and a write never bypasses.
LEMMA SlotOfWire ==
    ASSUME SlotsAgree', NEW w \in WireIds, NEW t \in Txns, NEW s \in SlotsFor(t, w),
           dut'[w] # None, dut'[w].slot = s
    PROVE  s \in {None, w} /\ (req[t].op = "write" => s = w /\ w \in PoolIds)
<1>1. s # None => s = w
  BY DEF SlotsAgree, Pooled
<1>2. s = None \/ s \in PoolIds
  BY DEF SlotsFor
<1>3. req[t].op = "write" => s \in PoolIds
  BY DEF SlotsFor, NeedsSlot
<1> QED
  BY <1>1, <1>2, <1>3, NoneIsNoEntry

LEMMA PortTakesReq ==
    ASSUME PortInv, SlotsAgree', Deliver,
           NEW f, f = Head(txn_queue), Admit(f) \/ Reject(f)
    PROVE  PortParts'
<1>1. PortFacts
  BY PortInvFacts
<1>2. /\ UNCHANGED <<req, hnf, failed, pending_reqs, retrying, records>>
      /\ AskedInv' /\ CountsInv' /\ ~failed'
      /\ 1 \in DOMAIN txn_queue /\ f = txn_queue[1]
      /\ \A j \in DOMAIN txn_queue' :
            /\ j \in Int /\ j + 1 \in DOMAIN txn_queue /\ j + 1 # 1
            /\ txn_queue'[j] = txn_queue[j + 1]
      /\ \A i \in DOMAIN txn_queue : i # 1 =>
            \E j \in DOMAIN txn_queue' : txn_queue'[j] = txn_queue[i]
  BY Delivered1
<1>3. PICK w \in WireIds, t \in Txns : w = f.wire /\ t = f.txn
  BY <1>1, <1>2 DEF PortFacts
<1>4. f.ch = "req"
  BY DEF Admit, Reject
<1>5. Asked(t) /\ Supported(req[t]) /\ records[w].next_dataid = 0 /\ dut[w] = None
  <2>1. ReqFlitOk(1)
    BY <1>1, <1>2 DEF PortFacts, QueueInv
  <2>2. ReqFor(txn_queue[1], w)
    BY <1>2, <1>3, <1>4 DEF ReqFor
  <2>3. dut[w] = None
    BY <1>1, <1>2, <2>2 DEF PortFacts, SlotInvOn, SlotParts, HeldByLink
  <2> QED
    BY <1>2, <1>3, <1>4, <2>1, <2>3 DEF ReqFlitOk
<1>6. PICK st, s : /\ dut' = [dut EXCEPT ![w] = Entry(f, st, s)]
                   /\ \/ st = "admitted" /\ s \in SlotsFor(t, w)
                      \/ st = "rejected" /\ s = None
  BY <1>3 DEF Admit, Reject
<1>7. /\ dut'[w].st = st /\ dut'[w].txn = t /\ dut'[w].slot = s
      /\ dut'[w].left = read_beats(req[t]) /\ dut'[w].data = {}
      /\ \A v \in WireIds : v # w => dut'[v] = dut[v]
  BY <1>1, <1>3, <1>6 DEF PortFacts, Entry
<1>8. QueueInv'
  <2> SUFFICES ASSUME NEW j \in DOMAIN txn_queue' PROVE ReqFlitOk(j)' /\ DatFlitOk(j)'
    BY DEF QueueInv
  <2>1. /\ j \in Int /\ j + 1 \in DOMAIN txn_queue /\ txn_queue'[j] = txn_queue[j + 1]
        /\ ReqFlitOk(j + 1) /\ DatFlitOk(j + 1)
    BY <1>1, <1>2 DEF PortFacts, QueueInv
  <2> DEFINE g == txn_queue[j + 1]
  <2>2. ASSUME g.ch = "dat"
        PROVE  /\ dut'[g.wire] = dut[g.wire]
               /\ \A k \in DOMAIN txn_queue' : txn_queue'[k] = g => k = j
    <3>1. dut[g.wire] # None /\ g.wire \in WireIds
      BY <1>1, <2>1, <2>2 DEF PortFacts, DatFlitOk
    <3>2. dut'[g.wire] = dut[g.wire]
      BY <1>5, <1>7, <3>1
    <3>3. ASSUME NEW k \in DOMAIN txn_queue', txn_queue'[k] = g PROVE k = j
      <4>1. k \in Int /\ k + 1 \in DOMAIN txn_queue /\ txn_queue[k + 1] = g
        BY <1>2, <3>3
      <4>2. k + 1 = j + 1
        BY <2>1, <2>2, <4>1 DEF DatFlitOk
      <4> QED
        BY <2>1, <4>1, <4>2
    <3> QED
      BY <3>2, <3>3
  <2> HIDE DEF g
  <2> QED
    BY <1>2, <2>1, <2>2, FlitFrame DEF g
<1>9. EntryInv'
  <2> SUFFICES ASSUME NEW v \in WireIds, Live(dut'[v]) PROVE EntryOk(v)' /\ DataOk(v)'
    BY DEF EntryInv
  <2>1. CASE v # w
    <3>1. EntryOk(v) /\ DataOk(v) /\ dut'[v] = dut[v]
      BY <1>1, <1>7, <2>1 DEF PortFacts, EntryInv
    <3>2. \A i \in DOMAIN txn_queue : txn_queue[i].ch = "dat" =>
             \E j \in DOMAIN txn_queue' : txn_queue'[j] = txn_queue[i]
      BY <1>2, <1>4
    <3> QED
      BY <1>2, <3>1, <3>2, EntryFrame
  <2>2. CASE v = w
    <3>1. s \in {None, w} /\ (st = "admitted" /\ req[t].op = "write" => s = w /\ w \in PoolIds)
      <4>1. dut'[w] # None /\ dut'[w].slot = s
        BY <1>7, <2>2 DEF Live
      <4> QED
        BY <1>6, <4>1, SlotOfWire
    <3>2. read_beats(req[t]) = beats_expected(req[t]) /\ read_beats(req[t]) \in Nat
      BY <1>1, <1>5, SizeCases, ReadBeatsNat DEF PortFacts
    <3>3. EntryOk(w)'
      BY <1>2, <1>5, <1>6, <1>7, <3>1, <3>2 DEF EntryOk, Asked
    <3>4. DataOk(w)'
      BY <1>6, <1>7 DEF DataOk
    <3> QED
      BY <2>2, <3>3, <3>4
  <2> QED
    BY <2>1, <2>2
<1>10. GrantedInv'
  <2> SUFFICES ASSUME NEW x \in Txns, hnf[x].phase \in {"wait_data", "wait_comp"}, hnf[x].completed = 0
               PROVE  \E v \in WireIds : dut'[v] # None /\ dut'[v].st = "granted" /\ dut'[v].txn = x
    BY <1>2 DEF GrantedInv
  <2>1. PICK v \in WireIds : dut[v] # None /\ dut[v].st = "granted" /\ dut[v].txn = x
    BY <1>1 DEF PortFacts, GrantedInv
  <2> QED
    BY <1>5, <1>7, <2>1
<1> QED
  BY <1>2, <1>8, <1>9, <1>10 DEF PortParts

\* An entry that has received a beat is still an entry.
LEMMA EntryReceives ==
    ASSUME NEW e \in DutEntries, NEW u \in Txns, NEW r, NEW id \in required_data_ids(r)
    PROVE  [e EXCEPT !.data = @ \cup {<<u, id>>}] \in DutEntries
<1>1. id \in {DATA_ID_LOW, DATA_ID_HIGH}
  BY DEF required_data_ids
<1>2. <<u, id>> \in Txns \X {DATA_ID_LOW, DATA_ID_HIGH}
  BY <1>1
<1> DEFINE d == <<u, id>>
<1> HIDE DEF d
<1>3. [e EXCEPT !.data = @ \cup {d}] \in DutEntries
  BY <1>2 DEF DutEntries, d
<1> QED
  BY <1>3 DEF d

\* Write data: the entry that granted the write is the one that receives it.
LEMMA PortTakesDat ==
    ASSUME PortInv, Deliver, NEW f, f = Head(txn_queue), Receive(f)
    PROVE  PortParts'
<1>1. PortFacts
  BY PortInvFacts
<1>2. /\ UNCHANGED <<req, hnf, failed, pending_reqs, retrying, records>>
      /\ AskedInv' /\ CountsInv' /\ ~failed'
      /\ 1 \in DOMAIN txn_queue /\ f = txn_queue[1]
      /\ \A j \in DOMAIN txn_queue' :
            /\ j \in Int /\ j + 1 \in DOMAIN txn_queue /\ j + 1 # 1
            /\ txn_queue'[j] = txn_queue[j + 1]
      /\ \A i \in DOMAIN txn_queue : i # 1 =>
            \E j \in DOMAIN txn_queue' : txn_queue'[j] = txn_queue[i]
  BY Delivered1
<1>3. PICK w \in WireIds, u \in Txns : w = f.wire /\ u = f.txn
  BY <1>1, <1>2 DEF PortFacts
<1>4. /\ w \in PoolIds /\ dut[w] # None /\ dut[w].st = "granted" /\ dut[w].txn = u
      /\ f.data_id \in required_data_ids(req[u]) /\ f.ch = "dat" /\ DatFlitOk(1)
  <2>1. DatFlitOk(1) /\ f.ch = "dat"
    BY <1>1, <1>2 DEF PortFacts, QueueInv, Receive
  <2> QED
    BY <1>2, <1>3, <2>1 DEF DatFlitOk
<1>5. EntryOk(w) /\ DataOk(w) /\ req[u].op = "write" /\ dut[w].slot = w /\ hnf[u].phase = "wait_comp"
  <2>1. EntryOk(w) /\ DataOk(w)
    BY <1>1, <1>4 DEF PortFacts, EntryInv, Live
  <2> QED
    BY <1>2, <1>3, <1>4, <2>1 DEF EntryOk, DatFlitOk
<1>6. \A v \in WireIds : Receiver(f, v) <=> v = w
  <2>1. Receiver(f, w)
    BY <1>3, <1>4, <1>5, NoneIsNoEntry DEF Receiver, Pooled
  <2>2. ASSUME NEW v \in WireIds, Receiver(f, v) PROVE v = w
    <3>1. Live(dut[v]) /\ dut[v].slot = w
      BY <1>3, <2>2 DEF Receiver, Pooled, Live
    <3>2. dut[v].slot \in {None, v}
      BY <1>1, <3>1 DEF PortFacts, EntryInv, EntryOk
    <3> QED
      BY <1>4, <3>1, <3>2, NoneIsNoEntry
  <2> QED
    BY <2>1, <2>2
<1> DEFINE beat == <<u, f.data_id>>
           e == [dut[w] EXCEPT !.data = @ \cup {beat}]
<1>7. dut' = [dut EXCEPT ![w] = e]
  BY <1>3, <1>6 DEF Receive
<1>8. /\ e.st = dut[w].st /\ e.txn = dut[w].txn /\ e.slot = dut[w].slot
      /\ e.left = dut[w].left /\ e.data = dut[w].data \cup {beat}
  BY <1>1, <1>4 DEF PortFacts, DutEntries
<1>a. e # None
  <2>1. e \in DutEntries
    BY <1>1, <1>4, EntryReceives DEF PortFacts
  <2> HIDE DEF e
  <2> QED
    BY <2>1, NoneIsNoEntry
<1> HIDE DEF e
<1>9. dut'[w] = e /\ \A v \in WireIds : v # w => dut'[v] = dut[v]
  BY <1>1, <1>7 DEF PortFacts
<1>10. QueueInv'
  <2> SUFFICES ASSUME NEW j \in DOMAIN txn_queue' PROVE ReqFlitOk(j)' /\ DatFlitOk(j)'
    BY DEF QueueInv
  <2> DEFINE g == txn_queue[j + 1]
  <2>1. /\ j \in Int /\ j + 1 \in DOMAIN txn_queue /\ txn_queue'[j] = g /\ j + 1 # 1
        /\ ReqFlitOk(j + 1) /\ DatFlitOk(j + 1) /\ g.wire \in WireIds
        /\ g.ch \in {"req", "dat"} /\ g \in Flits
    BY <1>1, <1>2 DEF PortFacts, QueueInv
  <2>2. ASSUME g.ch = "dat", NEW k \in DOMAIN txn_queue', txn_queue'[k] = g PROVE k = j
    <3>1. k \in Int /\ k + 1 \in DOMAIN txn_queue /\ txn_queue[k + 1] = g
      BY <1>2, <2>2
    <3>2. k + 1 = j + 1
      BY <2>1, <2>2, <3>1 DEF DatFlitOk
    <3> QED
      BY <2>1, <3>1, <3>2
  <2>3. CASE g.ch = "dat" => g.wire # w
    <3>1. g.ch = "dat" => dut'[g.wire] = dut[g.wire]
      BY <1>9, <2>1, <2>3
    <3> HIDE DEF g
    <3> QED
      BY <1>2, <2>1, <2>2, <3>1, FlitFrame DEF g
  <2>4. CASE g.ch = "dat" /\ g.wire = w
    <3>1. /\ g.txn = u /\ hnf[u].phase = "wait_comp"
          /\ g.data_id \in required_data_ids(req[u]) /\ <<u, g.data_id>> \notin dut[w].data
      BY <1>4, <1>5, <2>1, <2>4 DEF DatFlitOk
    <3>2. g.data_id # f.data_id
      <4> SUFFICES ASSUME g.data_id = f.data_id PROVE FALSE
        OBVIOUS
      <4>1. g \in DatFlits /\ f \in DatFlits
        BY <1>1, <1>2, <1>4, <2>1, <2>4 DEF PortFacts, Flits, ReqFlits
      <4>2. g = f
        BY <1>3, <1>4, <2>4, <3>1, <4>1 DEF DatFlits
      <4> QED
        BY <1>2, <1>4, <2>1, <4>2 DEF DatFlitOk
    <3>3. <<u, g.data_id>> \notin e.data
      BY <1>8, <3>1, <3>2
    <3>4. ReqFlitOk(j)'
      BY <2>1, <2>4 DEF ReqFlitOk
    <3>5. DatFlitOk(j)'
      <4>1. \A k \in DOMAIN txn_queue' : txn_queue'[k] = txn_queue'[j] => k = j
        BY <2>1, <2>2, <2>4
      <4> HIDE DEF g, beat
      <4> QED
        BY <1>2, <1>4, <1>8, <1>9, <1>a, <2>1, <2>4, <3>1, <3>3, <4>1 DEF DatFlitOk
    <3> QED
      BY <3>4, <3>5
  <2> QED
    BY <2>3, <2>4
<1>11. EntryInv'
  <2> SUFFICES ASSUME NEW v \in WireIds, Live(dut'[v]) PROVE EntryOk(v)' /\ DataOk(v)'
    BY DEF EntryInv
  <2>1. CASE v # w
    <3>1. EntryOk(v) /\ DataOk(v) /\ dut'[v] = dut[v]
      BY <1>1, <1>9, <2>1 DEF PortFacts, EntryInv
    <3>2. \A i \in DOMAIN txn_queue : txn_queue[i].wire = v =>
             \E j \in DOMAIN txn_queue' : txn_queue'[j] = txn_queue[i]
      BY <1>2, <1>3, <2>1
    <3> QED
      BY <1>2, <3>1, <3>2, EntryFrame
  <2>2. CASE v = w
    <3>1. EntryOk(w)'
      BY <1>2, <1>4, <1>5, <1>8, <1>9 DEF EntryOk, Asked
    <3>2. ASSUME NEW id \in required_data_ids(req[u])
          PROVE  \/ <<u, id>> \in e.data
                 \/ \E j \in DOMAIN txn_queue' : txn_queue'[j] = DataBeat(w, u, id)
      <4>1. CASE <<u, id>> \in dut[w].data
        BY <1>8, <4>1
      <4>2. ASSUME NEW i \in DOMAIN txn_queue, txn_queue[i] = DataBeat(w, u, id)
            PROVE  \/ <<u, id>> \in e.data
                   \/ \E j \in DOMAIN txn_queue' : txn_queue'[j] = DataBeat(w, u, id)
        <5>1. CASE i = 1
          <6>1. f.data_id = id
            BY <1>2, <4>2, <5>1 DEF DataBeat
          <6> QED
            BY <1>8, <6>1
        <5>2. CASE i # 1
          BY <1>2, <4>2, <5>2
        <5> QED
          BY <5>1, <5>2
      <4> QED
        BY <1>4, <1>5, <4>1, <4>2 DEF DataOk
    <3>3. \A d \in e.data : d[1] = u
      BY <1>4, <1>5, <1>8 DEF DataOk
    <3>4. DataOk(w)'
      <4> HIDE DEF beat
      <4> QED
        BY <1>2, <1>4, <1>5, <1>8, <1>9, <3>2, <3>3 DEF DataOk
    <3> QED
      BY <2>2, <3>1, <3>4
  <2> QED
    BY <2>1, <2>2
<1>12. GrantedInv'
  <2> SUFFICES ASSUME NEW x \in Txns, hnf[x].phase \in {"wait_data", "wait_comp"}, hnf[x].completed = 0
               PROVE  \E v \in WireIds : dut'[v] # None /\ dut'[v].st = "granted" /\ dut'[v].txn = x
    BY <1>2 DEF GrantedInv
  <2>1. PICK v \in WireIds : dut[v] # None /\ dut[v].st = "granted" /\ dut[v].txn = x
    BY <1>1 DEF PortFacts, GrantedInv
  <2> QED
    BY <1>8, <1>9, <1>a, <2>1
<1> QED
  BY <1>2, <1>10, <1>11, <1>12 DEF PortParts

(***************************************************************************)
(* An answer of the DUT for the transaction u in w: nothing else on the    *)
(* path refers to u, and no data beat is on its way to w.                  *)
(***************************************************************************)
LEMMA PortAnswer ==
    ASSUME PortInv, NEW w \in WireIds, Live(dut[w]), NEW u \in Txns, u = dut[w].txn, NEW e,
           dut' = [dut EXCEPT ![w] = e], UNCHANGED <<req, pending_reqs, retrying, txn_queue>>,
           \A t \in Txns : t # u => hnf'[t] = hnf[t],
           \A v \in WireIds : v # w => records'[v] = records[v],
           \A i \in DOMAIN txn_queue : txn_queue[i].ch = "dat" => txn_queue[i].wire # w,
           Live(e) => (EntryOk(w) /\ DataOk(w))',
           hnf'[u].completed \in {0, 1}, hnf'[u].phase # "unsent",
           hnf'[u].completed = 1 => hnf'[u].phase \in {"read", "wait_comp"},
           hnf'[u].phase \in {"wait_data", "wait_comp"} /\ hnf'[u].completed = 0 =>
               e # None /\ e.st = "granted" /\ e.txn = u,
           ~failed'
    PROVE  PortParts'
<1>1. PortFacts
  BY PortInvFacts
<1>2. dut'[w] = e /\ \A v \in WireIds : v # w => dut'[v] = dut[v]
  BY <1>1 DEF PortFacts
<1>3. /\ Absent(u)
      /\ \A v \in WireIds : Live(dut[v]) /\ dut[v].txn = u => v = w
  BY <1>1, LiveIsAlone DEF PortFacts
<1>4. QueueInv'
  <2> SUFFICES ASSUME NEW i \in DOMAIN txn_queue PROVE ReqFlitOk(i)' /\ DatFlitOk(i)'
    BY DEF QueueInv
  <2> DEFINE f == txn_queue[i]
  <2>1. /\ ReqFlitOk(i) /\ DatFlitOk(i) /\ f.wire \in WireIds /\ f.txn \in Txns
        /\ f.ch \in {"req", "dat"} /\ f = txn_queue'[i]
    BY <1>1 DEF PortFacts, QueueInv
  <2>2. CASE f.ch = "req"
    <3>1. f.txn # u
      BY <1>3, <2>2 DEF Absent
    <3>2. f.wire # w
      <4>1. ReqFor(txn_queue[i], f.wire)
        BY <2>2 DEF ReqFor
      <4>2. dut[f.wire] = None
        BY <1>1, <2>1, <4>1 DEF PortFacts, SlotInvOn, SlotParts, HeldByLink
      <4> QED
        BY <4>2 DEF Live
    <3> HIDE DEF f
    <3> QED
      BY <2>1, <2>2, <3>1, <3>2, FlitFrame DEF f
  <2>3. CASE f.ch = "dat"
    <3>1. /\ f.wire # w /\ dut[f.wire] # None /\ dut[f.wire].st = "granted"
          /\ dut[f.wire].txn = f.txn
          /\ \A k \in DOMAIN txn_queue : txn_queue[k] = f => k = i
      BY <2>1, <2>3 DEF DatFlitOk
    <3>2. f.txn # u
      <4>1. Live(dut[f.wire])
        BY <3>1 DEF Live
      <4> QED
        BY <1>3, <2>1, <3>1, <4>1
    <3>3. dut'[f.wire] = dut[f.wire]
      BY <1>2, <2>1, <3>1
    <3> HIDE DEF f
    <3> QED
      BY <2>1, <2>3, <3>1, <3>2, <3>3, FlitFrame DEF f
  <2> QED
    BY <2>1, <2>2, <2>3
<1>5. EntryInv'
  <2> SUFFICES ASSUME NEW v \in WireIds, Live(dut'[v]) PROVE EntryOk(v)' /\ DataOk(v)'
    BY DEF EntryInv
  <2>1. CASE v = w
    <3>1. Live(e)
      BY <1>2, <2>1
    <3>2. EntryOk(w)' /\ DataOk(w)'
      BY <3>1
    <3> QED
      BY <2>1, <3>2
  <2>2. CASE v # w
    <3>1. EntryOk(v) /\ DataOk(v) /\ dut[v].txn \in Txns /\ dut[v].txn # u /\ dut'[v] = dut[v]
      BY <1>1, <1>2, <1>3, <2>2 DEF PortFacts, EntryInv, Live, DutEntries
    <3> QED
      BY <2>2, <3>1, EntryFrame
  <2> QED
    BY <2>1, <2>2
<1>6. GrantedInv'
  <2> SUFFICES ASSUME NEW x \in Txns, hnf'[x].phase \in {"wait_data", "wait_comp"},
                      hnf'[x].completed = 0
               PROVE  \E v \in WireIds : dut'[v] # None /\ dut'[v].st = "granted" /\ dut'[v].txn = x
    BY DEF GrantedInv
  <2>1. CASE x = u
    BY <1>2, <2>1
  <2>2. CASE x # u
    <3>1. PICK v \in WireIds : dut[v] # None /\ dut[v].st = "granted" /\ dut[v].txn = x
      BY <1>1, <2>2 DEF PortFacts, GrantedInv
    <3> QED
      BY <1>2, <2>2, <3>1
  <2> QED
    BY <2>1, <2>2
<1>7. AskedInv'
  BY <1>1, <1>3 DEF PortFacts, AskedInv, Asked, Absent
<1>8. CountsInv'
  BY <1>1 DEF PortFacts, CountsInv
<1> QED
  BY <1>4, <1>5, <1>6, <1>7, <1>8 DEF PortParts

\* What is known of a live entry before its answer.
LEMMA BeforeAnswer ==
    ASSUME PortInv, NEW w \in WireIds, Live(dut[w]), NEW u, u = dut[w].txn
    PROVE  /\ PortFacts /\ u \in Txns /\ dut[w] \in DutEntries /\ dut[w] # None
           /\ EntryOk(w) /\ DataOk(w) /\ Holds(w, u) /\ records[w] \in TxnRecords
           /\ req[u] \in Requests /\ hnf[u] \in HnfEntries /\ hnf[u].completed = 0
<1>1. PortFacts
  BY PortInvFacts
<1>2. dut[w] # None /\ dut[w] \in DutEntries
  BY <1>1 DEF Live, PortFacts
<1>3. u \in Txns /\ hnf[u].completed = 0
  BY <1>1, LiveIsAlone DEF PortFacts
<1>4. EntryOk(w) /\ DataOk(w) /\ Holds(w, u)
  BY <1>1, <1>2 DEF PortFacts, EntryInv, SlotInvOn, SlotParts, HeldByDut
<1> QED
  BY <1>1, <1>2, <1>3, <1>4 DEF PortFacts, Holds

LEMMA PortDBIDResp ==
    ASSUME PortInv, NEW w \in WireIds, DutDBIDResp(w)
    PROVE  PortParts'
<1>1. dut[w] # None /\ dut[w].st = "admitted" /\ Live(dut[w])
  BY DEF DutDBIDResp, Live
<1>2. PICK u \in Txns : u = dut[w].txn
  BY <1>1, BeforeAnswer
<1>3. /\ PortFacts /\ dut[w] \in DutEntries /\ EntryOk(w) /\ DataOk(w)
      /\ records[w] \in TxnRecords /\ hnf[u] \in HnfEntries /\ hnf[u].completed = 0
  BY <1>1, <1>2, BeforeAnswer
<1>4. /\ on_rsp(u, "DBIDResp", w + 1) /\ UNCHANGED agentVars
      /\ records' = [records EXCEPT ![w].fwd_dbid = w + 1]
  <2>1. on_txrsp(w, "DBIDResp")
    BY <1>1, <1>3 DEF DutDBIDResp, PortFacts, SlotInvOn, SlotParts, NoEwa
  <2>2. forwarded_dbid(w, "DBIDResp") = w + 1
    BY DEF forwarded_dbid
  <2> QED
    BY <1>1, <1>2, <1>3, <2>1, <2>2, RspGoesTo DEF PortFacts
<1>5. /\ req[u].op = "write" /\ w \in PoolIds /\ dut[w].slot = w /\ hnf[u].phase = "wait_dbid"
      /\ Supported(req[u]) /\ dut[w].data = {}
  BY <1>1, <1>2, <1>3 DEF EntryOk, DataOk, DutDBIDResp
<1>6. w + 1 \in Nat /\ w + 1 # 0
  BY <1>5, MapperAssumption DEF PoolIds
<1>7. ~failed'
  <2>1. RspAccepted(hnf[u], "DBIDResp", w + 1)
    BY <1>5, <1>6 DEF RspAccepted
  <2> QED
    BY <1>3, <1>4, <2>1 DEF on_rsp, PortFacts
<1>8. /\ \A t \in Txns : t # u => hnf'[t] = hnf[t]
      /\ hnf'[u].phase = "wait_data" /\ hnf'[u].dbid = w + 1 /\ hnf'[u].completed = 0
  <2>1. HnfTypeOK
    BY <1>3 DEF PortFacts, TypeInv, TypeOK
  <2> QED
    BY <1>3, <1>4, <1>6, <1>7, <2>1, AcceptedRsp
<1> DEFINE e == [dut[w] EXCEPT !.st = "granted"]
           r == [records[w] EXCEPT !.fwd_dbid = w + 1]
<1>9. /\ dut' = [dut EXCEPT ![w] = e] /\ e.st = "granted" /\ e.txn = u
      /\ e.slot = w /\ e.data = {}
  BY <1>2, <1>3, <1>5 DEF DutDBIDResp, DutEntries
<1>10. records' = [records EXCEPT ![w] = r] /\ r.fwd_dbid = w + 1
  BY <1>3, <1>4 DEF TxnRecords
<1>a. e # None
  <2>1. e \in DutEntries
    BY <1>3 DEF DutEntries
  <2> HIDE DEF e
  <2> QED
    BY <2>1, NoneIsNoEntry
<1> HIDE DEF e, r
<1>11. /\ dut'[w] = e /\ records'[w].fwd_dbid = w + 1
       /\ \A v \in WireIds : v # w => records'[v] = records[v]
  BY <1>3, <1>9, <1>10 DEF PortFacts
<1>12. UNCHANGED <<req, pending_reqs, retrying, txn_queue>>
  BY <1>4 DEF on_rsp, agentVars
<1>13. \A i \in DOMAIN txn_queue : txn_queue[i].ch = "dat" => txn_queue[i].wire # w
  BY <1>1, <1>3 DEF PortFacts, QueueInv, DatFlitOk
<1>14. (EntryOk(w) /\ DataOk(w))'
  <2>1. EntryOk(w)'
    BY <1>5, <1>8, <1>9, <1>11, <1>12 DEF EntryOk, Asked
  <2>2. DataOk(w)'
    BY <1>8, <1>9, <1>11 DEF DataOk
  <2> QED
    BY <2>1, <2>2
<1>15. /\ hnf'[u].completed \in {0, 1} /\ hnf'[u].phase # "unsent"
       /\ hnf'[u].completed = 1 => hnf'[u].phase \in {"read", "wait_comp"}
       /\ hnf'[u].phase \in {"wait_data", "wait_comp"} /\ hnf'[u].completed = 0 =>
              e # None /\ e.st = "granted" /\ e.txn = u
  BY <1>8, <1>9, <1>a
<1>16. \A t \in Txns : t # u => hnf'[t] = hnf[t]
  BY <1>8
<1>17. dut' = [dut EXCEPT ![w] = e] /\ Live(dut[w])
  BY <1>1, <1>9
<1>18. \A v \in WireIds : v # w => records'[v] = records[v]
  BY <1>11
<1> QED
  BY <1>2, <1>7, <1>12, <1>13, <1>14, <1>15, <1>16, <1>17, <1>18, PortAnswer, Zenon

\* Comp: the DUT has all the data, so gem5 has sent it and waits for this
\* answer, under the DBID it was given.
LEMMA PortComp ==
    ASSUME PortInv, NEW w \in WireIds, DutComp(w)
    PROVE  PortParts'
<1>1. dut[w] # None /\ dut[w].st = "granted" /\ Live(dut[w]) /\ on_txrsp(w, "Comp")
  BY DEF DutComp, Live
<1>2. PICK u \in Txns : u = dut[w].txn
  BY <1>1, BeforeAnswer
<1>3. /\ PortFacts /\ dut[w] \in DutEntries /\ EntryOk(w) /\ DataOk(w)
      /\ records[w] \in TxnRecords /\ hnf[u] \in HnfEntries /\ hnf[u].completed = 0
  BY <1>1, <1>2, BeforeAnswer
<1>4. PICK x \in 0 .. MaxDrain : dut' = [dut EXCEPT ![w] = HandBack(dut[w], x)]
  BY DEF DutComp
<1> DEFINE e == HandBack(dut[w], x)
<1>5. dut' = [dut EXCEPT ![w] = e] /\ ~Live(e)
  BY <1>3, <1>4, HandBackNotLive
<1> HIDE DEF e
<1>6. /\ records[w].fwd_dbid = hnf[u].dbid /\ records[w].fwd_dbid \in Nat
      /\ \A id \in required_data_ids(req[u]) : <<u, id>> \in dut[w].data
      /\ hnf[u].phase = "wait_comp"
  <2>1. records[w].fwd_dbid = hnf[u].dbid /\ records[w].fwd_dbid \in Nat
    BY <1>1, <1>2, <1>3 DEF EntryOk, TxnRecords
  <2>2. ASSUME NEW id \in required_data_ids(req[u]) PROVE <<u, id>> \in dut[w].data
    <3>1. PICK d \in dut[w].data : d[2] = id
      BY <1>2, <2>2 DEF DutComp, AllDataIn
    <3>2. d[1] = u /\ d = <<d[1], d[2]>>
      BY <1>2, <1>3, <3>1 DEF DataOk, DutEntries
    <3> QED
      BY <3>1, <3>2
  <2>3. \E id : id \in required_data_ids(req[u])
    BY DEF required_data_ids
  <2> QED
    BY <1>2, <1>3, <2>1, <2>2, <2>3 DEF DataOk
<1>7. /\ on_rsp(u, "Comp", records[w].fwd_dbid) /\ UNCHANGED agentVars
      /\ records' = [records EXCEPT ![w].fwd_dbid = records[w].fwd_dbid]
  <2>1. forwarded_dbid(w, "Comp") = records[w].fwd_dbid
    BY DEF forwarded_dbid
  <2> QED
    BY <1>1, <1>2, <1>3, <2>1, RspGoesTo DEF PortFacts
<1>8. ~failed'
  <2>1. RspAccepted(hnf[u], "Comp", records[w].fwd_dbid)
    BY <1>6 DEF RspAccepted
  <2> QED
    BY <1>3, <1>7, <2>1 DEF on_rsp, PortFacts
<1>9. /\ \A t \in Txns : t # u => hnf'[t] = hnf[t]
      /\ hnf'[u].phase = "wait_comp" /\ hnf'[u].completed = 1
  <2>1. HnfTypeOK
    BY <1>3 DEF PortFacts, TypeInv, TypeOK
  <2> QED
    BY <1>3, <1>6, <1>7, <1>8, <2>1, AcceptedRsp
<1>10. \A v \in WireIds : v # w => records'[v] = records[v]
  BY <1>3, <1>7 DEF PortFacts
<1>11. UNCHANGED <<req, pending_reqs, retrying, txn_queue>>
  BY <1>7 DEF on_rsp, agentVars
<1>12. \A i \in DOMAIN txn_queue : txn_queue[i].ch = "dat" => txn_queue[i].wire # w
  <2> SUFFICES ASSUME NEW i \in DOMAIN txn_queue, txn_queue[i].ch = "dat", txn_queue[i].wire = w
               PROVE  FALSE
    OBVIOUS
  <2>1. DatFlitOk(i)
    BY <1>3 DEF PortFacts, QueueInv
  <2>2. /\ txn_queue[i].txn = u /\ txn_queue[i].data_id \in required_data_ids(req[u])
        /\ <<u, txn_queue[i].data_id>> \notin dut[w].data
    BY <1>2, <2>1 DEF DatFlitOk
  <2> QED
    BY <1>6, <2>2
<1>13. Live(e) => (EntryOk(w) /\ DataOk(w))'
  BY <1>5
<1>14. /\ hnf'[u].completed \in {0, 1} /\ hnf'[u].phase # "unsent"
       /\ hnf'[u].completed = 1 => hnf'[u].phase \in {"read", "wait_comp"}
       /\ hnf'[u].phase \in {"wait_data", "wait_comp"} /\ hnf'[u].completed = 0 =>
              e # None /\ e.st = "granted" /\ e.txn = u
  BY <1>9
<1>15. dut' = [dut EXCEPT ![w] = e] /\ Live(dut[w])
  BY <1>1, <1>5
<1>16. \A t \in Txns : t # u => hnf'[t] = hnf[t]
  BY <1>9
<1> QED
  BY <1>2, <1>8, <1>10, <1>11, <1>12, <1>13, <1>14, <1>15, <1>16, PortAnswer, Zenon

\* CompData: agent, DUT and checker have counted the same beats.
LEMMA PortCompData ==
    ASSUME PortInv, NEW w \in WireIds, DutCompData(w)
    PROVE  PortParts'
<1>1. /\ dut[w] # None /\ dut[w].st = "admitted" /\ Live(dut[w])
      /\ req[dut[w].txn].op = "read" /\ on_txdat(w)
  BY DEF DutCompData, Live
<1>2. PICK u \in Txns : u = dut[w].txn
  BY <1>1, BeforeAnswer
<1>3. /\ PortFacts /\ dut[w] \in DutEntries /\ EntryOk(w) /\ DataOk(w)
      /\ records[w] \in TxnRecords /\ hnf[u] \in HnfEntries /\ hnf[u].completed = 0
      /\ req[u] \in Requests
  BY <1>1, <1>2, BeforeAnswer
<1> DEFINE last == dut[w].left <= 1
<1>4. /\ on_dat(u, records[w].next_dataid, last, {0}) /\ UNCHANGED agentVars
      /\ records' = [records EXCEPT ![w].beats_left = @ - 1, ![w].next_dataid = @ + 1]
  BY <1>1, <1>2, <1>3, DatGoesTo DEF PortFacts
<1>5. /\ hnf[u].phase = "read" /\ hnf[u].beats + dut[w].left = beats_expected(req[u])
      /\ records[w].next_dataid = hnf[u].beats /\ Supported(req[u])
      /\ dut[w].slot \in {None, w} /\ dut[w].data = {} /\ req[u].op = "read"
  BY <1>1, <1>2, <1>3 DEF EntryOk, DataOk
<1>6. /\ hnf[u].beats \in Nat /\ dut[w].left \in Nat /\ dut[w].left >= 1
      /\ records[w].next_dataid \in Nat
  BY <1>3 DEF HnfEntries, DutEntries, TxnRecords, DutCompData
<1>7. last = (hnf[u].beats + 1 = beats_expected(req[u])) /\ last \in BOOLEAN
  BY <1>5, <1>6
<1> HIDE DEF last
<1>8. ~failed'
  <2>1. DatAccepted(hnf[u], req[u], records[w].next_dataid, last, {0})
    BY <1>3, <1>5, <1>7 DEF DatAccepted
  <2> QED
    BY <1>3, <1>4, <2>1 DEF on_dat, PortFacts
<1>9. /\ \A t \in Txns : t # u => hnf'[t] = hnf[t]
      /\ hnf'[u].phase = "read" /\ hnf'[u].beats = hnf[u].beats + 1
      /\ hnf'[u].completed \in {0, 1}
  <2>1. HnfTypeOK
    BY <1>3 DEF PortFacts, TypeInv, TypeOK
  <2>2. /\ \A t \in Txns : t # u => hnf'[t] = hnf[t]
        /\ hnf'[u].phase = "read" /\ hnf'[u].beats = hnf[u].beats + 1
        /\ hnf'[u].completed = hnf[u].completed + (IF last THEN 1 ELSE 0)
    BY <1>4, <1>7, <1>8, <2>1, AcceptedDat
  <2> QED
    BY <1>3, <2>2
<1>10. /\ records'[w].next_dataid = records[w].next_dataid + 1
       /\ \A v \in WireIds : v # w => records'[v] = records[v]
  <2> DEFINE r == [records[w] EXCEPT !.beats_left = @ - 1, !.next_dataid = @ + 1]
  <2>1. records' = [records EXCEPT ![w] = r] /\ r.next_dataid = records[w].next_dataid + 1
    BY <1>3, <1>4 DEF TxnRecords
  <2> HIDE DEF r
  <2> QED
    BY <1>3, <2>1 DEF PortFacts
<1>11. UNCHANGED <<req, pending_reqs, retrying, txn_queue>>
  BY <1>4 DEF on_dat, agentVars
<1>12. \A i \in DOMAIN txn_queue : txn_queue[i].ch = "dat" => txn_queue[i].wire # w
  BY <1>1, <1>3 DEF PortFacts, QueueInv, DatFlitOk
<1>13. PICK e : dut' = [dut EXCEPT ![w] = e] /\ (Live(e) => (EntryOk(w) /\ DataOk(w))')
  <2>1. CASE dut[w].left > 1 /\ dut' = [dut EXCEPT ![w].left = @ - 1]
    <3> DEFINE e == [dut[w] EXCEPT !.left = @ - 1]
    <3>1. /\ dut' = [dut EXCEPT ![w] = e] /\ e.st = "admitted" /\ e.txn = u
          /\ e.slot = dut[w].slot /\ e.data = {} /\ e.left = dut[w].left - 1
      BY <1>1, <1>2, <1>3, <1>5, <2>1 DEF DutEntries
    <3> HIDE DEF e
    <3>2. dut'[w] = e
      BY <1>3, <3>1 DEF PortFacts
    <3>3. hnf'[u].beats + e.left = beats_expected(req[u])
      BY <1>5, <1>6, <1>9, <3>1
    <3>4. EntryOk(w)'
      BY <1>5, <1>9, <1>10, <1>11, <3>1, <3>2, <3>3 DEF EntryOk, Asked
    <3>5. DataOk(w)'
      BY <3>1, <3>2 DEF DataOk
    <3> QED
      BY <3>1, <3>4, <3>5
  <2>2. ASSUME NEW x \in 0 .. MaxDrain, dut' = [dut EXCEPT ![w] = HandBack(dut[w], x)]
        PROVE  \E e : dut' = [dut EXCEPT ![w] = e] /\ (Live(e) => (EntryOk(w) /\ DataOk(w))')
    BY <1>3, <2>2, HandBackNotLive
  <2> QED
    BY <2>1, <2>2 DEF DutCompData
<1>14. /\ hnf'[u].completed \in {0, 1} /\ hnf'[u].phase # "unsent"
       /\ hnf'[u].completed = 1 => hnf'[u].phase \in {"read", "wait_comp"}
       /\ hnf'[u].phase \in {"wait_data", "wait_comp"} /\ hnf'[u].completed = 0 =>
              e # None /\ e.st = "granted" /\ e.txn = u
  BY <1>9
<1>15. dut' = [dut EXCEPT ![w] = e] /\ Live(dut[w]) /\ (Live(e) => (EntryOk(w) /\ DataOk(w))')
  BY <1>1, <1>13
<1>16. \A t \in Txns : t # u => hnf'[t] = hnf[t]
  BY <1>9
<1>17. \A v \in WireIds : v # w => records'[v] = records[v]
  BY <1>10
<1> QED
  BY <1>2, <1>8, <1>11, <1>12, <1>14, <1>15, <1>16, <1>17, PortAnswer, Zenon

-------------------------------------------------------------------------------
(***************************************************************************)
(* The invariant is kept, and no flit the agent sends raises ContractError.*)
(***************************************************************************)
LEMMA PortStep ==
    ASSUME PortInv, ReadIdFree, OneRecord, SlotsAgree', [Next]_vars
    PROVE  PortInv'
<1>1. PortFacts
  BY PortInvFacts
<1>2. SlotInvOn(WireIds)'
  BY <1>1, SlotStepAll DEF PortFacts
<1>3. PortParts'
  <2>1. ASSUME NEW t \in Txns, Gem5Req(t) \/ Gem5Dat(t) PROVE PortParts'
    BY <2>1, PortReq, PortDat
  <2>2. CASE RetryPending
    BY <2>2, PortPending, PortIssue DEF RetryPending
  <2>3. CASE Deliver
    <3>1. PICK f : f = Head(txn_queue)
      OBVIOUS
    <3> QED
      BY <2>3, <3>1, PortTakesReq, PortTakesDat DEF Deliver
  <2>4. CASE Cycle
    BY <1>2, <2>4, PortCycle
  <2>5. CASE DutPCrdGrant
    BY <2>5, PortPending
  <2>6. ASSUME NEW w \in WireIds, DutAnswer(w) PROVE PortParts'
    BY <2>6, PortPending, PortDBIDResp, PortComp, PortCompData DEF DutAnswer
  <2>7. CASE UNCHANGED vars
    <3>1. UNCHANGED <<req, hnf, failed, txn_queue, pending_reqs, retrying, records, dut>>
      BY <2>7 DEF vars, hnfVars, mapperVars, agentVars, dutVars
    <3>2. AskedInv'
      BY <1>1, <3>1 DEF PortFacts, AskedInv, Asked
    <3> QED
      BY <3>1, <3>2, PortRequeue
  <2> QED
    BY <2>1, <2>2, <2>3, <2>4, <2>5, <2>6, <2>7 DEF Next
<1>4. OnePlace' /\ UnsentFresh'
  <2>1. TypeInv' /\ ~failed'
    BY <1>2, <1>3 DEF SlotInvOn, PortParts
  <2> QED
    BY <1>1, <2>1, PlaceStep DEF PortFacts
<1> QED
  BY <1>2, <1>3, <1>4 DEF PortInv, PlaceInv

LEMMA PortInit == Init => PortInv
<1> SUFFICES ASSUME Init PROVE PortInv
  OBVIOUS
<1>1. /\ pending_reqs = << >> /\ retrying = << >> /\ txn_queue = << >>
      /\ \A w \in WireIds : dut[w] = None
      /\ \A t \in Txns : hnf[t].phase = "unsent" /\ hnf[t].completed = 0 /\ hnf[t].beats = 0
      /\ ~failed
  BY DEF Init, HnfInit, AgentInit, DutInit
<1>2. AskedInv /\ QueueInv /\ EntryInv /\ GrantedInv /\ CountsInv
  BY <1>1 DEF AskedInv, QueueInv, EntryInv, Live, GrantedInv, CountsInv
<1> QED
  BY <1>1, <1>2, PlaceInit DEF PortInv, PortParts

\* The invariant says where the data of a write is.
LEMMA PortInvKeepsData == PortInv => WriteDataConserved
<1> SUFFICES ASSUME PortInv, NEW t \in Txns, hnf[t].phase = "wait_comp", hnf[t].completed = 0
             PROVE  \E w \in WireIds :
                        /\ dut[w] # None /\ dut[w].txn = t
                        /\ \A id \in required_data_ids(req[t]) : Delivered(t, w, id)
  BY DEF WriteDataConserved
<1>1. PortFacts
  BY PortInvFacts
<1>2. PICK w \in WireIds : dut[w] # None /\ dut[w].st = "granted" /\ dut[w].txn = t
  BY <1>1 DEF PortFacts, GrantedInv
<1>3. EntryOk(w) /\ DataOk(w)
  BY <1>1, <1>2 DEF PortFacts, EntryInv, Live
<1>4. dut[w].slot = w
  BY <1>2, <1>3 DEF EntryOk
<1> QED
  BY <1>2, <1>3, <1>4 DEF DataOk, Delivered

(***************************************************************************)
(* As long as nothing the agent takes for granted has failed, no request   *)
(* is lost or doubled, no beat of write data is lost between gem5 and the  *)
(* slot that waits for it, and gem5 raises no ContractError: whatever the  *)
(* DUT's allocator (SlotIndexed or not), its rejections and the margins.   *)
(* Run snf_stale_retry shows data lost once one has failed.                *)
(***************************************************************************)
SoundInv == sound => PortInv /\ Sound

LEMMA SoundInit == FInit => SoundInv
BY PortInit DEF FInit, SoundInv

LEMMA SoundStep == SoundInv /\ [FNext]_<<vars, sound>> => SoundInv'
<1> SUFFICES ASSUME SoundInv, [FNext]_<<vars, sound>>, sound' PROVE (PortInv /\ Sound)'
  BY DEF SoundInv
<1>1. CASE FNext
  <2>1. sound /\ Sound' /\ Next
    BY <1>1 DEF FNext
  <2>2. PortInv /\ ReadIdFree /\ OneRecord /\ SlotsAgree'
    BY <2>1 DEF SoundInv, Sound
  <2> QED
    BY <2>1, <2>2, PortStep
<1>2. CASE UNCHANGED <<vars, sound>>
  <2>1. sound /\ PortInv /\ Sound /\ UNCHANGED vars
    BY <1>2 DEF SoundInv
  <2>2. Sound'
    BY <2>1 DEF Sound, SlotsAgree, ReadIdFree, OneRecord, Pooled, Bypasses, WritesOf,
                dependent, pool_hazard_addrs, Occupied, vars, hnfVars, mapperVars, agentVars, dutVars
  <2> QED
    BY <2>1, <2>2, PortStep DEF Sound
<1> QED
  BY <1>1, <1>2

THEOREM NothingLost == FSpec => []NothingLostWhileSound
<1>1. SoundInv => NothingLostWhileSound
  BY PortInvKeepsData DEF SoundInv, NothingLostWhileSound, PortInv, PortParts, PlaceInv
<1> QED
  BY SoundInit, SoundStep, <1>1, PTL DEF FSpec

-------------------------------------------------------------------------------
(***************************************************************************)
(* SnfSystem implements SnfPort, step by step.                             *)
(***************************************************************************)
\* The stage of a transaction, while no ContractError was raised.
LEMMA StageIs ==
    ASSUME PortInv, NEW t \in Txns
    PROVE  /\ hnf[t].completed = 1 => StageOf(t) = "done"
           /\ hnf[t].completed = 0 =>
                 /\ hnf[t].phase = "unsent" => StageOf(t) = "idle"
                 /\ hnf[t].phase = "wait_data" => StageOf(t) = "granted"
                 /\ hnf[t].phase = "wait_comp" => StageOf(t) = "sent"
                 /\ hnf[t].phase \notin {"unsent", "wait_data", "wait_comp"} => StageOf(t) = "asked"
BY DEF PortInv, PortParts, StageOf

\* Steps gem5 does not see.
LEMMA PortStutter ==
    ASSUME UNCHANGED <<req, hnf, failed>>
    PROVE  UNCHANGED Port!portVars
<1>1. \A t \in Txns : StageOf(t)' = StageOf(t)
  BY DEF StageOf
<1>2. \A t \in Txns : beats_expected(req[t])' = beats_expected(req[t])
  OBVIOUS
<1> QED
  BY <1>1, <1>2 DEF Port!portVars

\* Steps that change gem5's entry of u only.
LEMMA PortMove ==
    ASSUME req' = req, NEW u \in Txns, \A t \in Txns : t # u => hnf'[t] = hnf[t],
           ~failed, ~failed', NEW from, NEW to, StageOf(u) = from, StageOf(u)' = to
    PROVE  Port!Move(u, from, to)
<1>1. \A t \in Txns : t # u => StageOf(t)' = StageOf(t)
  BY DEF StageOf
<1>2. \A t \in Txns : beats_expected(req[t])' = beats_expected(req[t])
  OBVIOUS
<1> QED
  BY <1>1, <1>2 DEF Port!Move

LEMMA PortSeesInit == Init => Port!Init
<1> SUFFICES ASSUME Init PROVE Port!Init
  OBVIOUS
<1>1. /\ req \in [Txns -> Requests] /\ ~failed
      /\ \A t \in Txns : hnf[t].phase = "unsent" /\ hnf[t].completed = 0 /\ hnf[t].beats = 0
  BY DEF Init, HnfInit
<1>2. ASSUME NEW t \in Txns
      PROVE  req[t].op \in {"read", "write", "other"} /\ beats_expected(req[t]) \in Nat
  <2>1. PICK r \in Requests : r = req[t]
    BY <1>1
  <2>2. r.op \in {"read", "write", "other"} /\ r.size \in Nat
    BY RequestsAssumption
  <2>3. (r.size + 32 - 1) \div 32 \in Nat
    BY <2>2
  <2> QED
    BY <2>1, <2>2, <2>3 DEF beats_expected, BEAT_BYTES
<1>4. ASSUME NEW t \in Txns PROVE StageOf(t) = "idle"
  <2>1. ~failed /\ hnf[t].phase = "unsent" /\ hnf[t].completed = 0
    BY <1>1
  <2> QED
    BY <2>1 DEF StageOf
<1> QED
  BY <1>1, <1>2, <1>4 DEF Port!Init

LEMMA PortSeesStep ==
    ASSUME PortInv, PortInv', [Next]_vars
    PROVE  [Port!Next]_(Port!portVars)
<1>1. /\ PortFacts /\ ~failed /\ ~failed'
      /\ \A t \in Txns : hnf'[t].completed \in {0, 1}
  BY PortInvFacts DEF PortInv, PortParts, CountsInv
<1>2. \A t \in Txns : /\ hnf'[t].completed = 1 => StageOf(t)' = "done"
                      /\ hnf'[t].completed = 0 =>
                            /\ hnf'[t].phase = "wait_data" => StageOf(t)' = "granted"
                            /\ hnf'[t].phase = "wait_comp" => StageOf(t)' = "sent"
                            /\ hnf'[t].phase \notin {"unsent", "wait_data", "wait_comp"} =>
                                  StageOf(t)' = "asked"
  BY <1>1 DEF StageOf
<1>3. CASE UNCHANGED <<req, hnf, failed>>
  BY <1>3, PortStutter
<1>4. ASSUME NEW u \in Txns, Gem5Req(u) PROVE Port!Ask(u)
  <2>1. UNCHANGED req /\ hnf[u].phase = "unsent"
    BY <1>4 DEF Gem5Req, handle_gem5_req, expect
  <2>2. PICK p \in {"read", "wait_dbid", "other"} : hnf' = [hnf EXCEPT ![u].phase = p]
    <3>1. req[u].op \in {"read", "write", "other"}
      BY <1>1, RequestsAssumption DEF PortFacts
    <3> QED
      BY <1>4, <3>1 DEF Gem5Req, handle_gem5_req, expect
  <2> DEFINE h == [hnf[u] EXCEPT !.phase = p]
  <2>3. /\ hnf' = [hnf EXCEPT ![u] = h] /\ h.phase = p
        /\ h.completed = hnf[u].completed /\ h.beats = hnf[u].beats
    BY <1>1, <2>2 DEF PortFacts, HnfEntries
  <2> HIDE DEF h
  <2>4. /\ \A t \in Txns : t # u => hnf'[t] = hnf[t]
        /\ hnf'[u].phase = p /\ hnf'[u].completed = hnf[u].completed /\ hnf'[u].beats = hnf[u].beats
    BY <1>1, <2>3 DEF PortFacts
  <2>5. StageOf(u) = "idle" /\ StageOf(u)' = "asked"
    <3>1. hnf[u].completed = 0
      BY <1>1, <2>1 DEF PortFacts, UnsentFresh, PlaceInv
    <3> QED
      BY <1>2, <2>1, <2>4, <3>1, StageIs
  <2>6. Port!Move(u, "idle", "asked")
    BY <1>1, <2>1, <2>4, <2>5, PortMove
  <2>7. \A t \in Txns : hnf'[t].beats = hnf[t].beats
    BY <2>4
  <2> QED
    BY <2>6, <2>7 DEF Port!Ask
<1>5. ASSUME NEW u \in Txns, Gem5Dat(u) PROVE Port!WriteData(u)
  <2>1. UNCHANGED req /\ hnf[u].phase = "wait_data" /\ hnf' = [hnf EXCEPT ![u].phase = "wait_comp"]
    BY <1>5 DEF Gem5Dat, handle_gem5_dat, send_write_data
  <2> DEFINE h == [hnf[u] EXCEPT !.phase = "wait_comp"]
  <2>2. /\ hnf' = [hnf EXCEPT ![u] = h] /\ h.phase = "wait_comp"
        /\ h.completed = hnf[u].completed /\ h.beats = hnf[u].beats
    BY <1>1, <2>1 DEF PortFacts, HnfEntries
  <2> HIDE DEF h
  <2>3. /\ \A t \in Txns : t # u => hnf'[t] = hnf[t]
        /\ hnf'[u].phase = "wait_comp" /\ hnf'[u].completed = hnf[u].completed
        /\ hnf'[u].beats = hnf[u].beats
    BY <1>1, <2>2 DEF PortFacts
  <2>4. StageOf(u) = "granted" /\ StageOf(u)' = "sent"
    <3>1. hnf[u].completed = 0
      BY <1>1, <2>1 DEF PortFacts, CountsInv
    <3> QED
      BY <1>2, <2>1, <2>3, <3>1, StageIs
  <2>5. Port!Move(u, "granted", "sent")
    BY <1>1, <2>1, <2>3, <2>4, PortMove
  <2>6. \A t \in Txns : hnf'[t].beats = hnf[t].beats
    BY <2>3
  <2> QED
    BY <2>5, <2>6 DEF Port!WriteData
\* A response moves its transaction: the flit's opcode decides where to.
<1>6. ASSUME NEW w \in WireIds, NEW u \in Txns, u = dut[w].txn, Live(dut[w]),
             NEW opcode \in {"DBIDResp", "Comp"}, on_txrsp(w, opcode)
      PROVE  /\ UNCHANGED req /\ \A t \in Txns : t # u => hnf'[t] = hnf[t]
             /\ \A t \in Txns : hnf'[t].beats = hnf[t].beats
             /\ opcode = "DBIDResp" => StageOf(u) = "asked" /\ StageOf(u)' = "granted"
             /\ opcode = "Comp" => StageOf(u) = "sent" /\ StageOf(u)' = "done"
  <2>1. /\ hnf[u].completed = 0 /\ records[w] \in TxnRecords /\ HnfTypeOK
        /\ dut[w] # None
    BY <1>6, BeforeAnswer DEF PortFacts, TypeInv, TypeOK
  <2>2. on_rsp(u, opcode, forwarded_dbid(w, opcode))
    BY <1>1, <1>6, <2>1, RspGoesTo DEF PortFacts
  <2>3. forwarded_dbid(w, opcode) \in Nat
    BY <2>1, MapperAssumption
       DEF forwarded_dbid, WireIds, PoolIds, ReadIds, READ_ID_BASE, TxnRecords
  <2>4. /\ \A t \in Txns : t # u => hnf'[t] = hnf[t]
        /\ hnf'[u].completed = hnf[u].completed + (IF opcode = "Comp" THEN 1 ELSE 0)
        /\ RspAccepted(hnf[u], opcode, forwarded_dbid(w, opcode))
        /\ hnf'[u].beats = hnf[u].beats
        /\ opcode = "DBIDResp" => hnf'[u].phase = "wait_data"
        /\ opcode = "Comp" => hnf'[u].phase = "wait_comp"
    BY <1>1, <2>1, <2>2, <2>3, AcceptedRsp
  <2>5. /\ opcode = "DBIDResp" => hnf[u].phase = "wait_dbid"
        /\ opcode = "Comp" => hnf[u].phase = "wait_comp"
    BY <2>4 DEF RspAccepted
  <2>6. opcode = "DBIDResp" => StageOf(u) = "asked" /\ StageOf(u)' = "granted"
    BY <1>2, <2>1, <2>4, <2>5, StageIs
  <2>7. opcode = "Comp" => StageOf(u) = "sent" /\ StageOf(u)' = "done"
    BY <1>2, <2>1, <2>4, <2>5, StageIs
  <2> QED
    BY <2>2, <2>4, <2>6, <2>7 DEF on_rsp
<1>7. ASSUME NEW w \in WireIds, DutDBIDResp(w) PROVE \E u \in Txns : Port!DBIDResp(u)
  <2>1. dut[w] # None /\ Live(dut[w]) /\ req[dut[w].txn].op = "write" /\ on_txrsp(w, "DBIDResp")
    BY <1>1, <1>7 DEF DutDBIDResp, Live, PortFacts, SlotInvOn, SlotParts, NoEwa
  <2>2. PICK u \in Txns : u = dut[w].txn
    BY <2>1, BeforeAnswer
  <2>3. /\ UNCHANGED req /\ \A t \in Txns : t # u => hnf'[t] = hnf[t]
        /\ \A t \in Txns : hnf'[t].beats = hnf[t].beats
        /\ StageOf(u) = "asked" /\ StageOf(u)' = "granted"
    BY <1>6, <2>1, <2>2
  <2>4. Port!Move(u, "asked", "granted")
    BY <1>1, <2>3, PortMove
  <2> QED
    BY <2>1, <2>2, <2>3, <2>4 DEF Port!DBIDResp
<1>8. ASSUME NEW w \in WireIds, DutComp(w) PROVE \E u \in Txns : Port!Comp(u)
  <2>1. dut[w] # None /\ Live(dut[w]) /\ on_txrsp(w, "Comp")
    BY <1>8 DEF DutComp, Live
  <2>2. PICK u \in Txns : u = dut[w].txn
    BY <2>1, BeforeAnswer
  <2>3. /\ UNCHANGED req /\ \A t \in Txns : t # u => hnf'[t] = hnf[t]
        /\ \A t \in Txns : hnf'[t].beats = hnf[t].beats
        /\ StageOf(u) = "sent" /\ StageOf(u)' = "done"
    BY <1>6, <2>1, <2>2
  <2>4. Port!Move(u, "sent", "done")
    BY <1>1, <2>3, PortMove
  <2> QED
    BY <2>3, <2>4 DEF Port!Comp
<1>9. ASSUME NEW w \in WireIds, DutCompData(w) PROVE \E u \in Txns : Port!CompData(u)
  <2>1. /\ dut[w] # None /\ Live(dut[w]) /\ dut[w].st = "admitted"
        /\ req[dut[w].txn].op = "read" /\ on_txdat(w)
    BY <1>9 DEF DutCompData, Live
  <2>2. PICK u \in Txns : u = dut[w].txn
    BY <2>1, BeforeAnswer
  <2>3. hnf[u].completed = 0 /\ HnfTypeOK /\ hnf[u].beats \in Nat
    BY <2>1, <2>2, BeforeAnswer DEF PortFacts, TypeInv, TypeOK, HnfEntries
  <2> DEFINE last == dut[w].left <= 1
  <2>4. on_dat(u, records[w].next_dataid, last, {0})
    BY <1>1, <2>1, <2>2, DatGoesTo DEF PortFacts
  <2>5. last \in BOOLEAN
    OBVIOUS
  <2> HIDE DEF last
  <2>6. /\ \A t \in Txns : t # u => hnf'[t] = hnf[t]
        /\ hnf[u].phase = "read" /\ hnf'[u].phase = "read"
        /\ hnf'[u].completed = hnf[u].completed + (IF last THEN 1 ELSE 0)
        /\ hnf'[u].beats = hnf[u].beats + 1
        /\ DatAccepted(hnf[u], req[u], records[w].next_dataid, last, {0})
    BY <1>1, <2>3, <2>4, <2>5, AcceptedDat
  <2>7. last = (hnf[u].beats + 1 = beats_expected(req[u])) /\ req' = req
    BY <2>4, <2>6 DEF DatAccepted, on_dat
  <2>8. /\ StageOf(u) = "asked"
        /\ StageOf(u)' = IF hnf[u].beats + 1 = beats_expected(req[u]) THEN "done" ELSE "asked"
    <3>1. StageOf(u) = "asked"
      BY <2>3, <2>6, StageIs
    <3>2. CASE last
      <4>1. hnf'[u].completed = hnf[u].completed + 1
        BY <2>6, <3>2
      <4>2. hnf'[u].completed = 1
        BY <2>3, <4>1
      <4>3. hnf[u].beats + 1 = beats_expected(req[u])
        BY <2>7, <3>2, Zenon
      <4> QED
        BY <1>2, <3>1, <4>2, <4>3
    <3>3. CASE ~last
      <4>1. hnf'[u].completed = hnf[u].completed + 0 /\ hnf'[u].phase = "read"
        BY <2>6, <3>3
      <4>2. hnf'[u].completed = 0
        BY <2>3, <4>1
      <4>3. hnf[u].beats + 1 # beats_expected(req[u])
        BY <2>7, <3>3, Zenon
      <4> QED
        BY <1>2, <3>1, <4>1, <4>2, <4>3
    <3> QED
      BY <3>2, <3>3
  <2> DEFINE to == IF hnf[u].beats + 1 = beats_expected(req[u]) THEN "done" ELSE "asked"
  <2>9. PICK x : x = to
    OBVIOUS
  <2>10. Port!Move(u, "asked", x)
    BY <1>1, <2>6, <2>7, <2>8, <2>9, PortMove
  <2>11. [t \in Txns |-> hnf'[t].beats] = [[t \in Txns |-> hnf[t].beats] EXCEPT ![u] = @ + 1]
    BY <2>6
  <2>12. req[u].op = "read"
    BY <2>1, <2>2
  <2> HIDE DEF to
  <2>13. Port!Move(u, "asked", to)
    BY <2>9, <2>10
  <2> QED
    BY <2>11, <2>12, <2>13 DEF Port!CompData, to
<1>10. ASSUME NEW w \in WireIds, DutRetryAck(w) PROVE UNCHANGED <<req, hnf, failed>>
  BY <1>10 DEF DutRetryAck, on_retryack, hnfVars
<1>11. CASE RetryPending \/ Deliver \/ Cycle \/ DutPCrdGrant
  BY <1>3, <1>11 DEF RetryPending, drop_req, issue_req, Deliver, Cycle, on_cycle,
                     DutPCrdGrant, on_pcrdgrant, hnfVars
<1>12. CASE UNCHANGED vars
  BY <1>3, <1>12 DEF vars, hnfVars
<1> QED
  BY <1>3, <1>4, <1>5, <1>7, <1>8, <1>9, <1>10, <1>11, <1>12 DEF Next, DutAnswer, Port!Next

(***************************************************************************)
(* Until then the agent, its mapper, the link and the DUT together are a   *)
(* correct SN-F: gem5 sees each request answered once, by the flits its    *)
(* kind calls for, in their order.                                         *)
(***************************************************************************)
THEOREM PortImplemented == FSpec => PortWhileSound
<1>1. FInit => Port!Init
  BY PortSeesInit DEF FInit
<1>2. SoundInv /\ SoundInv' /\ [FNext]_<<vars, sound>>
        => [Port!Next \/ ~sound']_(Port!portVars)
  <2> SUFFICES ASSUME SoundInv, SoundInv', [FNext]_<<vars, sound>>, sound'
               PROVE  [Port!Next]_(Port!portVars)
    OBVIOUS
  <2>1. sound /\ [Next]_vars
    BY DEF FNext
  <2>2. PortInv /\ PortInv'
    BY <2>1 DEF SoundInv
  <2> QED
    BY <2>1, <2>2, PortSeesStep
<1> QED
  BY SoundInit, SoundStep, <1>1, <1>2, PTL DEF FSpec, PortWhileSound

-------------------------------------------------------------------------------
(***************************************************************************)
(* A transaction the DUT has not rejected is issued once and has one       *)
(* record at most, in every behaviour.                                     *)
(***************************************************************************)
Sent(t) == hnf[t].phase # "unsent"

Waits(t) == \E i \in DOMAIN pending_reqs : pending_reqs[i] = t

QueuedOnce ==
    \A i \in DOMAIN pending_reqs :
        /\ Sent(pending_reqs[i])
        /\ retried[pending_reqs[i]] = 0 =>
              \A j \in DOMAIN pending_reqs : pending_reqs[j] = pending_reqs[i] => j = i

RetryingWereRetried ==
    \A i \in DOMAIN retrying : Sent(retrying[i]) /\ retried[retrying[i]] # 0

\* A recorded transaction is sent, and is not waiting for its first issue.
RecordsIssued ==
    \A w \in WireIds : records[w] # None =>
        /\ Sent(records[w].txn)
        /\ retried[records[w].txn] = 0 => ~Waits(records[w].txn)

IssuedOnce ==
    QueuedOnce /\ RetryingWereRetried /\ RecordsIssued /\ RecordedOnceUnlessRetried

\* What SlotInv says of the variables IssuedOnce is about.
IssueTypes ==
    /\ TypeInv /\ pending_reqs \in Seq(Txns) /\ retrying \in Seq(Txns)
    /\ retried \in [Txns -> Nat] /\ HnfTypeOK
    /\ records \in [WireIds -> TxnRecords \cup {None}]
    /\ \A i \in DOMAIN pending_reqs : pending_reqs[i] \in Txns
    /\ \A i \in DOMAIN retrying : retrying[i] \in Txns
    /\ \A w \in WireIds : records[w] # None => records[w].txn \in Txns

LEMMA SlotInvTypes == SlotInv => IssueTypes
<1> SUFFICES ASSUME SlotInv PROVE IssueTypes
  OBVIOUS
<1>1. /\ TypeInv /\ pending_reqs \in Seq(Txns) /\ retrying \in Seq(Txns)
      /\ retried \in [Txns -> Nat] /\ HnfTypeOK
      /\ records \in [WireIds -> TxnRecords \cup {None}]
  BY DEF SlotInv, SlotInvOn, TypeInv, TypeOK, AgentTypeOK, MapperTypeOK
<1>2. /\ \A i \in DOMAIN pending_reqs : pending_reqs[i] \in Txns
      /\ \A i \in DOMAIN retrying : retrying[i] \in Txns
  BY <1>1, ElementOfSeq, LenProperties
<1>3. \A w \in WireIds : records[w] # None => records[w].txn \in Txns
  BY <1>1 DEF TxnRecords
<1> QED
  BY <1>1, <1>2, <1>3 DEF IssueTypes

LEMMA IssuedOnceInit == Init => IssuedOnce
BY DEF Init, AgentInit, MapperInit, IssuedOnce, QueuedOnce, RetryingWereRetried,
       RecordsIssued, RecordedOnceUnlessRetried, Holds

\* An answer does not make a request unsent, nor an unsent one sent.
LEMMA AnswerKeepsUnsent ==
    ASSUME SlotInv, NEW w \in WireIds, dut[w] # None,
           \/ \E opcode \in {"DBIDResp", "Comp"} : on_txrsp(w, opcode)
           \/ on_txdat(w)
    PROVE  /\ \A t \in Txns : hnf'[t].phase = "unsent" <=> hnf[t].phase = "unsent"
           /\ UNCHANGED <<agentVars, next_read_id>>
           /\ \A v \in WireIds : records'[v] # None =>
                  records[v] # None /\ records'[v].txn = records[v].txn
<1>1. /\ HnfTypeOK /\ records \in [WireIds -> TxnRecords \cup {None}]
  BY DEF SlotInv, SlotInvOn, TypeInv, TypeOK, AgentTypeOK, MapperTypeOK
<1>2. UNCHANGED <<agentVars, next_read_id>>
  BY DEF on_txrsp, on_txdat, mapperVars
<1>3. CASE records[w] = None
  <2>1. UNCHANGED <<hnf, records>>
    BY <1>3 DEF on_txrsp, on_txdat, mapperVars, hnfVars
  <2> QED
    BY <1>2, <2>1
<1>4. ASSUME records[w] # None, NEW opcode \in {"DBIDResp", "Comp"}, on_txrsp(w, opcode)
      PROVE  /\ \A t \in Txns : hnf'[t].phase = "unsent" <=> hnf[t].phase = "unsent"
             /\ \A v \in WireIds : records'[v] # None =>
                    records[v] # None /\ records'[v].txn = records[v].txn
  <2>1. records[w] \in TxnRecords /\ records[w].txn \in Txns
    BY <1>1, <1>4 DEF TxnRecords
  <2>2. PICK u \in Txns : u = records[w].txn
    BY <2>1
  <2>3. forwarded_dbid(w, opcode) \in Nat
    BY <2>1, MapperAssumption
       DEF forwarded_dbid, WireIds, PoolIds, ReadIds, READ_ID_BASE, TxnRecords
  <2>4. PICK n \in Nat : n = forwarded_dbid(w, opcode)
    BY <2>3
  <2>5. on_rsp(u, opcode, n) /\ records' = [records EXCEPT ![w].fwd_dbid = n]
    BY <1>4, <2>2, <2>4 DEF on_txrsp
  <2> DEFINE r == [records[w] EXCEPT !.fwd_dbid = n]
  <2>6. records' = [records EXCEPT ![w] = r] /\ r.txn = records[w].txn
    BY <1>1, <2>1, <2>5 DEF TxnRecords
  <2> HIDE DEF r
  <2>7. \A v \in WireIds : records'[v] # None =>
            records[v] # None /\ records'[v].txn = records[v].txn
    BY <1>1, <1>4, <2>6
  <2>8. CASE ~failed'
    <3>1. /\ \A t \in Txns : t # u => hnf'[t] = hnf[t]
          /\ hnf[u].phase # "unsent" /\ hnf'[u].phase # "unsent"
      BY <1>1, <2>5, <2>8, AcceptedRsp
    <3> QED
      BY <2>7, <3>1
  <2>9. CASE failed'
    <3>1. hnf' = hnf
      BY <2>5, <2>9, Zenon DEF on_rsp
    <3> QED
      BY <2>7, <3>1
  <2> QED
    BY <2>8, <2>9
<1>5. ASSUME records[w] # None, on_txdat(w)
      PROVE  /\ \A t \in Txns : hnf'[t].phase = "unsent" <=> hnf[t].phase = "unsent"
             /\ \A v \in WireIds : records'[v] # None =>
                    records[v] # None /\ records'[v].txn = records[v].txn
  <2>1. CASE req[records[w].txn].op # "read"
    BY <1>5, <2>1 DEF on_txdat, mapperVars, hnfVars
  <2>2. CASE req[records[w].txn].op = "read"
    <3>1. records[w] \in TxnRecords /\ records[w].txn \in Txns
      BY <1>1, <1>5 DEF TxnRecords
    <3>2. PICK u \in Txns : u = records[w].txn
      BY <3>1
    <3> DEFINE last == last_beat(records[w])
               r == [records[w] EXCEPT !.beats_left = @ - 1, !.next_dataid = @ + 1]
    <3>3. last \in BOOLEAN
      BY DEF last_beat
    <3>4. on_dat(u, records[w].next_dataid, last, {0}) /\ records' = [records EXCEPT ![w] = r]
      BY <1>1, <1>5, <2>2, <3>2 DEF on_txdat
    <3>5. r.txn = records[w].txn
      BY <3>1 DEF TxnRecords
    <3> HIDE DEF r, last
    <3>6. \A v \in WireIds : records'[v] # None =>
              records[v] # None /\ records'[v].txn = records[v].txn
      BY <1>1, <1>5, <3>4, <3>5
    <3>7. CASE ~failed'
      <4>1. /\ \A t \in Txns : t # u => hnf'[t] = hnf[t]
            /\ hnf[u].phase # "unsent" /\ hnf'[u].phase # "unsent"
        BY <1>1, <3>3, <3>4, <3>7, AcceptedDat
      <4> QED
        BY <3>6, <4>1
    <3>8. CASE failed'
      <4>1. hnf' = hnf
        BY <3>4, <3>8, Zenon DEF on_dat
      <4> QED
        BY <3>6, <4>1
    <3> QED
      BY <3>7, <3>8
  <2> QED
    BY <2>1, <2>2
<1> QED
  BY <1>2, <1>3, <1>4, <1>5

\* Steps that issue nothing and retry nothing: records only go, or change
\* behind their owner.
LEMMA IssuedOnceQuiet ==
    ASSUME SlotInv, IssuedOnce, UNCHANGED <<pending_reqs, retrying, retried>>,
           \A t \in Txns : hnf'[t].phase = "unsent" <=> hnf[t].phase = "unsent",
           \A w \in WireIds : records'[w] # None =>
               records[w] # None /\ records'[w].txn = records[w].txn
    PROVE  IssuedOnce'
<1>1. IssueTypes
  BY SlotInvTypes
<1>2. QueuedOnce' /\ RetryingWereRetried'
  BY <1>1 DEF IssueTypes, IssuedOnce, QueuedOnce, RetryingWereRetried, Sent
<1>3. RecordsIssued'
  BY <1>1 DEF IssueTypes, IssuedOnce, RecordsIssued, Sent, Waits
<1>4. RecordedOnceUnlessRetried'
  BY DEF IssuedOnce, RecordedOnceUnlessRetried, Holds
<1> QED
  BY <1>2, <1>3, <1>4 DEF IssuedOnce

\* Putting a sent transaction at the end of the queue.
LEMMA AppendIssued ==
    ASSUME SlotInv, IssuedOnce, NEW u \in Txns, pending_reqs' = Append(pending_reqs, u),
           UNCHANGED <<records, retried>>,
           \A t \in Txns : Sent(t) \/ t = u => hnf'[t].phase # "unsent",
           retried[u] = 0 => ~Waits(u) /\ \A w \in WireIds : ~Holds(w, u)
    PROVE  QueuedOnce' /\ RecordsIssued' /\ RecordedOnceUnlessRetried'
<1>1. IssueTypes
  BY SlotInvTypes
<1> DEFINE n == Len(pending_reqs)
<1>2. /\ n \in Nat /\ DOMAIN pending_reqs = 1 .. n /\ DOMAIN pending_reqs' = 1 .. (n + 1)
      /\ \A i \in 1 .. n : pending_reqs'[i] = pending_reqs[i] /\ pending_reqs[i] \in Txns
      /\ pending_reqs'[n + 1] = u
  BY <1>1, AppendProperties, LenProperties DEF IssueTypes
<1> HIDE DEF n
<1>3. \A i \in 1 .. (n + 1) : i \in 1 .. n \/ i = n + 1
  BY <1>2
<1>4. \A i \in 1 .. (n + 1) : hnf'[pending_reqs'[i]].phase # "unsent"
  BY <1>2, <1>3 DEF IssuedOnce, QueuedOnce, Sent
<1>5. ASSUME NEW i \in 1 .. (n + 1), retried[pending_reqs'[i]] = 0,
             NEW j \in 1 .. (n + 1), pending_reqs'[j] = pending_reqs'[i]
      PROVE  j = i
  <2>1. CASE i \in 1 .. n /\ j \in 1 .. n
    BY <1>2, <1>5, <2>1 DEF IssuedOnce, QueuedOnce
  <2>2. CASE i = n + 1 /\ j \in 1 .. n
    BY <1>2, <1>5, <2>2 DEF Waits
  <2>3. CASE i \in 1 .. n /\ j = n + 1
    BY <1>2, <1>5, <2>3 DEF Waits
  <2> QED
    BY <1>3, <2>1, <2>2, <2>3
<1>6. QueuedOnce'
  BY <1>2, <1>4, <1>5 DEF QueuedOnce, Sent
<1>7. \A t \in Txns : Waits(t)' => Waits(t) \/ t = u
  BY <1>2, <1>3 DEF Waits
<1>8. RecordsIssued'
  BY <1>1, <1>7 DEF IssueTypes, IssuedOnce, RecordsIssued, Holds, Sent
<1>9. RecordedOnceUnlessRetried'
  BY DEF IssuedOnce, RecordedOnceUnlessRetried, Holds
<1> QED
  BY <1>6, <1>8, <1>9

\* A request gem5 sends is new: it waits nowhere and has no record.
LEMMA IssuedOnceReq ==
    ASSUME SlotInv, IssuedOnce, NEW u \in Txns, Gem5Req(u)
    PROVE  IssuedOnce'
<1>1. IssueTypes
  BY SlotInvTypes
<1>2. /\ UNCHANGED <<req, retrying, retried, records>>
      /\ pending_reqs' = Append(pending_reqs, u) /\ hnf[u].phase = "unsent"
  BY DEF Gem5Req, handle_gem5_req, expect, mapperVars
<1>3. /\ req \in [Txns -> Requests] /\ hnf \in [Txns -> HnfEntries]
  BY <1>1 DEF IssueTypes, HnfTypeOK
<1>4. (\A t \in Txns : t # u => hnf'[t] = hnf[t]) /\ hnf'[u].phase # "unsent"
  <2>1. req[u].op \in {"read", "write", "other"}
    BY <1>3, RequestsAssumption
  <2>2. PICK p \in {"read", "wait_dbid", "other"} : hnf' = [hnf EXCEPT ![u].phase = p]
    BY <2>1 DEF Gem5Req, handle_gem5_req, expect
  <2> DEFINE h == [hnf[u] EXCEPT !.phase = p]
  <2>3. hnf' = [hnf EXCEPT ![u] = h] /\ h.phase = p
    BY <1>3, <2>2 DEF HnfEntries
  <2> HIDE DEF h
  <2> QED
    BY <1>3, <2>3
<1>5. ~Waits(u) /\ \A w \in WireIds : ~Holds(w, u)
  BY <1>2 DEF IssuedOnce, QueuedOnce, RecordsIssued, Waits, Holds, Sent
<1>6. QueuedOnce' /\ RecordsIssued' /\ RecordedOnceUnlessRetried'
  BY <1>2, <1>4, <1>5, AppendIssued DEF Sent
<1>7. RetryingWereRetried'
  BY <1>1, <1>2, <1>4 DEF IssueTypes, IssuedOnce, RetryingWereRetried, Sent
<1> QED
  BY <1>6, <1>7 DEF IssuedOnce

\* The request at the head of the queue is dropped, or gets its record.
LEMMA IssuedOnceIssue ==
    ASSUME SlotInv, IssuedOnce, RetryPending
    PROVE  IssuedOnce'
<1>1. IssueTypes
  BY SlotInvTypes
<1>2. /\ UNCHANGED <<req, hnf, retrying, retried>>
      /\ pending_reqs # << >> /\ pending_reqs' = Tail(pending_reqs)
  BY DEF RetryPending, drop_req, issue_req, consume_head, hnfVars
<1>3. PICK u \in Txns : u = Head(pending_reqs)
  BY <1>1, <1>2, HeadTailProperties DEF IssueTypes
<1> DEFINE n == Len(pending_reqs)
<1>4. /\ n \in Nat \ {0} /\ DOMAIN pending_reqs = 1 .. n /\ DOMAIN pending_reqs' = 1 .. (n - 1)
      /\ \A i \in 1 .. (n - 1) : pending_reqs'[i] = pending_reqs[i + 1]
      /\ u = pending_reqs[1]
  BY <1>1, <1>2, <1>3, HeadTailProperties, LenProperties, EmptySeq DEF IssueTypes
<1> HIDE DEF n
<1>5. \A i \in 1 .. (n - 1) : i + 1 \in 1 .. n /\ i + 1 # 1
  BY <1>4
<1>6. QueuedOnce'
  <2>1. ASSUME NEW i \in 1 .. (n - 1), retried[pending_reqs[i + 1]] = 0,
               NEW j \in 1 .. (n - 1), pending_reqs[j + 1] = pending_reqs[i + 1]
        PROVE  j = i
    <3>1. j + 1 = i + 1
      BY <1>4, <1>5, <2>1 DEF IssuedOnce, QueuedOnce
    <3> QED
      BY <1>4, <3>1
  <2>2. \A i \in 1 .. (n - 1) : Sent(pending_reqs[i + 1])
    BY <1>4, <1>5 DEF IssuedOnce, QueuedOnce
  <2> QED
    BY <1>2, <1>4, <2>1, <2>2 DEF QueuedOnce, Sent
<1>7. Sent(u) /\ (retried[u] = 0 => ~Waits(u)')
  <2>1. 1 \in 1 .. n
    BY <1>4
  <2>2. Sent(u)
    BY <1>4, <2>1 DEF IssuedOnce, QueuedOnce
  <2>3. ASSUME retried[u] = 0, NEW i \in 1 .. (n - 1), pending_reqs'[i] = u PROVE FALSE
    BY <1>4, <1>5, <2>1, <2>3 DEF IssuedOnce, QueuedOnce
  <2> QED
    BY <1>4, <2>2, <2>3 DEF Waits
<1>8. \A t \in Txns : Waits(t)' => Waits(t)
  BY <1>4, <1>5 DEF Waits
<1>9. RetryingWereRetried'
  BY <1>2 DEF IssuedOnce, RetryingWereRetried, Sent
<1>10. CASE UNCHANGED records
  <2>1. RecordsIssued'
    BY <1>1, <1>2, <1>8, <1>10 DEF IssueTypes, IssuedOnce, RecordsIssued, Sent
  <2>2. RecordedOnceUnlessRetried'
    BY <1>2, <1>10 DEF IssuedOnce, RecordedOnceUnlessRetried, Holds
  <2> QED
    BY <1>6, <1>9, <2>1, <2>2 DEF IssuedOnce
\* u waited until now, so if it was never retried it has no record yet.
<1>11. CASE issue_req
  <2>1. PICK w \in WireIds : alloc(u, w, retried[u], read_beats(req[u]))
    BY <1>3, <1>11 DEF issue_req
  <2> DEFINE r == [txn |-> u, attempt |-> retried[u], fwd_dbid |-> 0,
                   beats_left |-> read_beats(req[u]), next_dataid |-> 0]
  <2>2. records' = [records EXCEPT ![w] = r] /\ r.txn = u
    BY <2>1 DEF alloc
  <2> HIDE DEF r
  <2>3. records'[w].txn = u /\ \A v \in WireIds : v # w => records'[v] = records[v]
    BY <1>1, <2>2 DEF IssueTypes
  <2>4. RecordsIssued'
    <3> SUFFICES ASSUME NEW v \in WireIds, records'[v] # None,
                        NEW t, t = records'[v].txn
                 PROVE  Sent(t) /\ (retried[t] = 0 => ~Waits(t)')
      BY <1>2 DEF RecordsIssued, Sent, Waits
    <3>1. CASE v = w
      BY <1>7, <2>3, <3>1
    <3>2. CASE v # w
      BY <1>1, <1>8, <2>3, <3>2 DEF IssueTypes, IssuedOnce, RecordsIssued
    <3> QED
      BY <3>1, <3>2
  <2>5. retried[u] = 0 => \A v \in WireIds : ~Holds(v, u)
    <3>1. Waits(u)
      BY <1>4 DEF Waits
    <3> QED
      BY <3>1 DEF IssuedOnce, RecordsIssued, Holds
  <2>6. RecordedOnceUnlessRetried'
    BY <1>2, <2>3, <2>5 DEF IssuedOnce, RecordedOnceUnlessRetried, Holds
  <2> QED
    BY <1>6, <1>9, <2>4, <2>6 DEF IssuedOnce
<1> QED
  BY <1>10, <1>11 DEF RetryPending, drop_req, mapperVars

\* RetryAck and PCrdGrant move a transaction that counts as retried.
LEMMA IssuedOnceRetry ==
    ASSUME SlotInv, IssuedOnce, NEW w \in WireIds, DutRetryAck(w)
    PROVE  IssuedOnce'
<1>1. IssueTypes
  BY SlotInvTypes
<1>2. UNCHANGED <<hnf, pending_reqs, records>>
  BY DEF DutRetryAck, on_retryack, hnfVars
<1>3. CASE records[w] = None
  <2>1. UNCHANGED <<retrying, retried>>
    BY <1>3 DEF DutRetryAck, on_retryack
  <2> QED
    BY <1>2, <2>1, IssuedOnceQuiet
<1>4. CASE records[w] # None
  <2>1. PICK u \in Txns : u = records[w].txn
    BY <1>1, <1>4 DEF IssueTypes
  <2>2. retrying' = Append(retrying, u) /\ retried' = [retried EXCEPT ![u] = @ + 1]
    BY <1>4, <2>1 DEF DutRetryAck, on_retryack
  <2>3. /\ retried'[u] # 0
        /\ \A t \in Txns : retried'[t] = 0 => retried[t] = 0
        /\ \A t \in Txns : retried[t] # 0 => retried'[t] # 0
    BY <1>1, <2>2 DEF IssueTypes
  <2>4. Sent(u)
    BY <1>4, <2>1 DEF IssuedOnce, RecordsIssued
  <2>5. QueuedOnce'
    BY <1>1, <1>2, <2>3 DEF IssueTypes, IssuedOnce, QueuedOnce, Sent
  <2>6. RecordsIssued'
    BY <1>1, <1>2, <2>3 DEF IssueTypes, IssuedOnce, RecordsIssued, Sent, Waits
  <2>7. RecordedOnceUnlessRetried'
    BY <1>2, <2>3 DEF IssuedOnce, RecordedOnceUnlessRetried, Holds
  <2>8. RetryingWereRetried'
    <3> DEFINE m == Len(retrying)
    <3>1. /\ m \in Nat /\ DOMAIN retrying = 1 .. m /\ DOMAIN retrying' = 1 .. (m + 1)
          /\ \A i \in 1 .. m : retrying'[i] = retrying[i] /\ retrying[i] \in Txns
          /\ retrying'[m + 1] = u
      BY <1>1, <2>2, AppendProperties, LenProperties DEF IssueTypes
    <3> HIDE DEF m
    <3>2. \A i \in 1 .. (m + 1) : i \in 1 .. m \/ i = m + 1
      BY <3>1
    <3> QED
      BY <1>2, <2>3, <2>4, <3>1, <3>2 DEF IssuedOnce, RetryingWereRetried, Sent
  <2> QED
    BY <2>5, <2>6, <2>7, <2>8 DEF IssuedOnce
<1> QED
  BY <1>3, <1>4

LEMMA IssuedOnceGrant ==
    ASSUME SlotInv, IssuedOnce, DutPCrdGrant
    PROVE  IssuedOnce'
<1>1. IssueTypes
  BY SlotInvTypes
<1>2. UNCHANGED <<hnf, records, retried>>
  BY DEF DutPCrdGrant, on_pcrdgrant, hnfVars, mapperVars
<1>3. CASE retrying = << >>
  <2>1. UNCHANGED <<retrying, pending_reqs>>
    BY <1>3 DEF DutPCrdGrant, on_pcrdgrant
  <2> QED
    BY <1>2, <2>1, IssuedOnceQuiet
<1>4. CASE retrying # << >>
  <2>1. PICK u \in Txns : u = Head(retrying)
    BY <1>1, <1>4, HeadTailProperties DEF IssueTypes
  <2>2. retrying' = Tail(retrying) /\ pending_reqs' = Append(pending_reqs, u)
    BY <1>4, <2>1 DEF DutPCrdGrant, on_pcrdgrant, reissue
  <2> DEFINE m == Len(retrying)
  <2>3. /\ m \in Nat \ {0} /\ DOMAIN retrying = 1 .. m /\ DOMAIN retrying' = 1 .. (m - 1)
        /\ \A i \in 1 .. (m - 1) : retrying'[i] = retrying[i + 1]
        /\ u = retrying[1]
    BY <1>1, <1>4, <2>1, <2>2, HeadTailProperties, LenProperties, EmptySeq DEF IssueTypes
  <2> HIDE DEF m
  <2>4. Sent(u) /\ retried[u] # 0
    BY <2>3 DEF IssuedOnce, RetryingWereRetried
  <2>5. QueuedOnce' /\ RecordsIssued' /\ RecordedOnceUnlessRetried'
    BY <1>2, <2>2, <2>4, AppendIssued DEF Sent
  <2>6. \A i \in 1 .. (m - 1) : i + 1 \in 1 .. m
    BY <2>3
  <2>7. RetryingWereRetried'
    BY <1>2, <2>3, <2>6 DEF IssuedOnce, RetryingWereRetried, Sent
  <2> QED
    BY <2>5, <2>7 DEF IssuedOnce
<1> QED
  BY <1>3, <1>4

LEMMA IssuedOnceStep ==
    ASSUME SlotInv, IssuedOnce, [Next]_vars
    PROVE  IssuedOnce'
<1>1. IssueTypes /\ NoEwa
  BY SlotInvTypes DEF SlotInv, SlotInvOn, SlotParts
<1>2. ASSUME NEW u \in Txns, Gem5Dat(u) PROVE IssuedOnce'
  <2>1. /\ UNCHANGED <<records, pending_reqs, retrying, retried>>
        /\ hnf[u].phase = "wait_data" /\ hnf' = [hnf EXCEPT ![u].phase = "wait_comp"]
    BY <1>2 DEF Gem5Dat, handle_gem5_dat, send_write_data, mapperVars
  <2> DEFINE h == [hnf[u] EXCEPT !.phase = "wait_comp"]
  <2>2. hnf' = [hnf EXCEPT ![u] = h] /\ h.phase = "wait_comp"
    BY <1>1, <2>1 DEF IssueTypes, HnfTypeOK, HnfEntries
  <2> HIDE DEF h
  <2>3. \A t \in Txns : hnf'[t].phase = "unsent" <=> hnf[t].phase = "unsent"
    BY <1>1, <2>1, <2>2 DEF IssueTypes, HnfTypeOK
  <2> QED
    BY <2>1, <2>3, IssuedOnceQuiet
<1>3. CASE Deliver
  BY <1>3, IssuedOnceQuiet DEF Deliver, hnfVars, mapperVars
<1>4. CASE Cycle
  <2>1. /\ UNCHANGED <<hnf, pending_reqs, retrying, retried>>
        /\ \A w \in WireIds : records'[w] # None => records'[w] = records[w]
    BY <1>4 DEF Cycle, on_cycle, hnfVars, mapper_on_cycle
  <2> QED
    BY <2>1, IssuedOnceQuiet
<1>5. ASSUME NEW w \in WireIds, DutDBIDResp(w) \/ DutComp(w) \/ DutCompData(w)
      PROVE  IssuedOnce'
  <2>1. dut[w] # None
    BY <1>5 DEF DutDBIDResp, DutComp, DutCompData
  <2>2. \/ \E opcode \in {"DBIDResp", "Comp"} : on_txrsp(w, opcode)
        \/ on_txdat(w)
    BY <1>1, <1>5 DEF DutDBIDResp, DutComp, DutCompData, NoEwa
  <2> QED
    BY <2>1, <2>2, AnswerKeepsUnsent, IssuedOnceQuiet DEF agentVars
<1>6. CASE UNCHANGED vars
  BY <1>6, IssuedOnceQuiet DEF vars, hnfVars, mapperVars, agentVars
<1> QED
  BY <1>2, <1>3, <1>4, <1>5, <1>6, IssuedOnceReq, IssuedOnceIssue, IssuedOnceRetry,
     IssuedOnceGrant DEF Next, DutAnswer

(***************************************************************************)
(* In every behaviour, with any allocator, margins and number of read ids: *)
(* a transaction the DUT has not rejected has one record at most.  So      *)
(* find_write, which takes the first record of a write that it finds, can  *)
(* find a wrong one only for a write that was retried: the stale record of *)
(* on_retryack is the only way to lose OneRecord.                          *)
(***************************************************************************)
THEOREM RecordsUnlessRetried == Spec => []RecordedOnceUnlessRetried
<1>1. Init => SlotInv /\ IssuedOnce
  BY SlotInit, IssuedOnceInit
<1>2. SlotInv /\ IssuedOnce /\ [Next]_vars => (SlotInv /\ IssuedOnce)'
  BY SlotStep, IssuedOnceStep
<1>3. IssuedOnce => RecordedOnceUnlessRetried
  BY DEF IssuedOnce
<1> QED
  BY <1>1, <1>2, <1>3, PTL DEF Spec
===============================================================================
