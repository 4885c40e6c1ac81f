---------------------------- MODULE TbPeerSimProofs ---------------------------
(***************************************************************************)
(* Theorems about TbPeerSim, for every set of transactions, bypass packets *)
(* and requests, every number of dbids and every sync budget: the types,   *)
(* the refinement of SnfPort (the software peer is a correct SN-F) and the *)
(* refinement of AxiMemory (accesses through it see one memory).           *)
(*                                                                         *)
(* The inductive invariant follows an access n around: its request in      *)
(* to_peer, the callback in pending_mem, the access with gem5's memory,    *)
(* its reply in to_peer and the answer in to_gem5.  What the two ends know *)
(* of n tells in which of these places it is (PeerMsgOK, Gem5MsgOK,        *)
(* MemOK), and it is there once (PeerApart, Gem5Apart, MemApart); only the *)
(* beats of a read are several, one for each number from the next one gem5 *)
(* expects (BeatsInOrder).                                                 *)
(***************************************************************************)
EXTENDS TbPeerSim, SequenceTheorems, TLAPS

Elems(s) == {s[i] : i \in DOMAIN s}

Busy(n) == \E k \in DOMAIN pending_mem : pending_mem[k].n = n

\* The memory has not been asked for n.
Untouched(n) == ~Busy(n) /\ n \notin performed

\* The memory has served n and the callback has run.
Served1(n) == ~Busy(n) /\ n \in performed

\* Messages to the peer about an access, and the access they are about.
PeerKinds == {"req", "dat", "bypass", "mem_done"}
Subject(m) == IF m.t = "mem_done" THEN pending_mem[m.id].n ELSE m.n

PeerMsgOK(m) ==
    /\ m.t \in PeerKinds \cup {"hello", "sync", "bye", "peer_closed"}
    /\ m.t = "req" =>
          /\ m.n \in Txns /\ hnf[m.n].phase \in {"read", "wait_dbid", "other"}
          /\ Untouched(m.n) /\ m.n \notin DOMAIN writes
    /\ m.t = "dat" =>
          /\ m.n \in Txns /\ hnf[m.n].phase = "wait_comp" /\ Untouched(m.n)
    /\ m.t = "bypass" =>
          /\ m.n \in Pkts /\ byp[m.n] = "sent" /\ Untouched(m.n)
    /\ m.t = "mem_done" =>
          /\ m.id \in DOMAIN pending_mem
          /\ pending_mem[m.id].n \in performed
          /\ m.data = found[pending_mem[m.id].n]

PeerApart ==
    \A m, o \in Elems(to_peer) : \A i, j \in DOMAIN to_peer :
        /\ i # j /\ m = to_peer[i] /\ o = to_peer[j]
        /\ m.t \in PeerKinds /\ o.t \in PeerKinds
        => Subject(m) # Subject(o)

PeerInv ==
    /\ \A m \in Elems(to_peer) : PeerMsgOK(m)
    /\ PeerApart

\* An access on its way to the memory or there.
MemOK(m) ==
    /\ m.id \in DOMAIN pending_mem
    /\ pending_mem[m.id].n = m.n
    /\ m.n \notin performed

Gem5Kinds == {"mem", "rsp", "dat", "bypass_resp"}

DatOK(m) ==
    /\ m.n \in Txns /\ hnf[m.n].phase = "read" /\ hnf[m.n].completed = 0
    /\ Served1(m.n)
    /\ m.dataid \in Nat /\ hnf[m.n].beats <= m.dataid
    /\ m.dataid < beats_expected(req[m.n])
    /\ m.data = found[m.n][m.dataid + 1]
    /\ m.last = (m.dataid + 1 = beats_expected(req[m.n]))

Gem5MsgOK(m) ==
    /\ m.t \in Gem5Kinds \cup {"hello_ack", "ack", "bye"}
    /\ m.t = "mem" => MemOK(m)
    /\ m.t = "rsp" =>
          /\ m.n \in Txns /\ m.opcode \in {"DBIDResp", "Comp"}
          /\ m.opcode = "DBIDResp" =>
                /\ hnf[m.n].phase = "wait_dbid" /\ Untouched(m.n)
                /\ m.n \in DOMAIN writes /\ m.dbid = writes[m.n]
          /\ m.opcode = "Comp" =>
                /\ hnf[m.n].phase = "wait_comp" /\ hnf[m.n].completed = 0
                /\ Served1(m.n) /\ m.dbid = hnf[m.n].dbid
    /\ m.t = "dat" => DatOK(m)
    /\ m.t = "bypass_resp" =>
          /\ m.n \in Pkts /\ byp[m.n] = "sent" /\ Served1(m.n)
          /\ m.data = found[m.n]

Gem5Apart ==
    \A i, j \in DOMAIN to_gem5 :
        /\ i # j
        /\ to_gem5[i].t \in Gem5Kinds /\ to_gem5[j].t \in Gem5Kinds
        /\ to_gem5[i].n = to_gem5[j].n
        => /\ to_gem5[i].t = "dat" /\ to_gem5[j].t = "dat"
           /\ to_gem5[i].dataid # to_gem5[j].dataid

\* A beat is the next one gem5 expects, or the one before it is ahead of it.
BeatsInOrder ==
    \A i \in DOMAIN to_gem5 :
        to_gem5[i].t = "dat" =>
            \/ to_gem5[i].dataid = hnf[to_gem5[i].n].beats
            \/ \E j \in DOMAIN to_gem5 :
                  /\ j < i /\ to_gem5[j].t = "dat" /\ to_gem5[j].n = to_gem5[i].n
                  /\ to_gem5[j].dataid + 1 = to_gem5[i].dataid

Gem5Inv ==
    /\ \A m \in Elems(to_gem5) : Gem5MsgOK(m)
    /\ Gem5Apart
    /\ BeatsInOrder

MemInv ==
    /\ \A m \in accesses : MemOK(m)
    /\ \A m \in accesses :
          /\ \A o \in accesses : m.n = o.n => m = o
          /\ \A o \in Elems(to_gem5) : o.t = "mem" => o.n # m.n

\* The callback of n, of which there is one at most.
CallbackInv(n) ==
    \A k \in DOMAIN pending_mem :
        pending_mem[k].n = n =>
            /\ \A j \in DOMAIN pending_mem : pending_mem[j].n = n => j = k
            /\ pending_mem[k].t = "CompData" =>
                  /\ n \in Txns
                  /\ hnf[n].phase = "read" /\ hnf[n].completed = 0 /\ hnf[n].beats = 0
            /\ pending_mem[k].t = "Comp" =>
                  /\ n \in Txns
                  /\ hnf[n].phase = "wait_comp" /\ hnf[n].completed = 0
                  /\ pending_mem[k].dbid = hnf[n].dbid
            /\ pending_mem[k].t = "bypass_resp" => n \in Pkts /\ byp[n] = "sent"

\* What the memory found of n, as far as it has come.
FoundInv(n) ==
    /\ n \notin performed \/ Burst(n).kind # "read" => found[n] = << >>
    /\ n \in performed /\ Burst(n).kind = "read" =>
          found[n] = [i \in DOMAIN Burst(n).strb |-> found[n][i]]

EntryInv(t) ==
    /\ hnf[t].completed \in {0, 1}
    /\ hnf[t].phase \in {"unsent", "other", "wait_dbid", "wait_data"} => Untouched(t)
    /\ hnf[t].phase = "unsent" => t \notin DOMAIN writes
    /\ CASE req[t].op = "read"  -> hnf[t].phase \in {"unsent", "read"}
         [] req[t].op = "write" ->
                hnf[t].phase \in {"unsent", "wait_dbid", "wait_data", "wait_comp"}
         [] req[t].op = "other" -> hnf[t].phase \in {"unsent", "other"}
    /\ hnf[t].phase \in {"wait_data", "wait_comp"} /\ t \in DOMAIN writes =>
          writes[t] = hnf[t].dbid
    /\ hnf[t].completed = 1 => Served1(t) /\ got[t] = found[t]
    /\ t \notin performed => hnf[t].beats = 0
    /\ hnf[t].beats # 0 => req[t].op = "read"
    /\ hnf[t].beats <= beats_expected(req[t])
    /\ got[t] = [i \in 1 .. hnf[t].beats |-> found[t][i]]

PktInv(p) ==
    /\ byp[p] = "unsent" => Untouched(p)
    /\ byp[p] = "done" => Served1(p) /\ got[p] = found[p]

AccessInv(n) ==
    /\ CallbackInv(n) /\ FoundInv(n)
    /\ n \in Txns => EntryInv(n)
    /\ n \in Pkts => PktInv(n)

FrameOK ==
    /\ TypeOK /\ ~failed
    /\ PeerUp => syncs < MaxSyncs
    /\ performed \subseteq Accesses
    /\ DOMAIN found = Accesses /\ DOMAIN got = Accesses
    /\ to_peer \in Seq(Elems(to_peer)) /\ to_gem5 \in Seq(Elems(to_gem5))

PeerSimInv ==
    /\ FrameOK
    /\ PeerInv /\ Gem5Inv /\ MemInv
    /\ \A n \in Accesses : AccessInv(n)

-------------------------------------------------------------------------------
(***************************************************************************)
(* Sequences of messages of any kind.                                      *)
(***************************************************************************)
LEMMA ElemsOfSeq ==
    ASSUME NEW S, NEW s \in Seq(S)
    PROVE  /\ s \in Seq(Elems(s)) /\ Len(s) \in Nat /\ DOMAIN s = 1 .. Len(s)
           /\ \A i \in DOMAIN s : s[i] \in S
<1>1. Len(s) \in Nat /\ s \in [1 .. Len(s) -> S] /\ DOMAIN s = 1 .. Len(s)
  BY LenProperties
<1>2. s \in [1 .. Len(s) -> Elems(s)]
  BY <1>1 DEF Elems
<1>3. s \in UNION {[1 .. n -> Elems(s)] : n \in Nat}
  BY <1>1, <1>2
<1> QED
  BY <1>1, <1>3, SeqDef

LEMMA FunctionIsList ==
    ASSUME NEW k \in Nat, NEW f, f = [i \in 1 .. k |-> f[i]]
    PROVE  f \in Seq(Elems(f)) /\ DOMAIN f = 1 .. k /\ Len(f) = k
<1>1. DOMAIN f = 1 .. k /\ f \in [1 .. k -> Elems(f)]
  BY DEF Elems
<1>2. f \in UNION {[1 .. n -> Elems(f)] : n \in Nat}
  BY <1>1
<1>3. f \in Seq(Elems(f))
  BY <1>2, SeqDef
<1>4. Len(f) \in Nat /\ DOMAIN f = 1 .. Len(f)
  BY <1>3, LenProperties
<1>5. Len(f) = k
  <2>1. \A i \in Nat : i \in 1 .. k <=> i \in 1 .. Len(f)
    BY <1>1, <1>4
  <2>2. k <= Len(f)
    BY <1>4, <2>1
  <2>3. Len(f) <= k
    BY <1>4, <2>1
  <2> QED
    BY <1>4, <2>2, <2>3
<1> QED
  BY <1>1, <1>3, <1>5

LEMMA ListConcat ==
    ASSUME NEW s, s \in Seq(Elems(s)), NEW t, t \in Seq(Elems(t)), NEW r, r = s \o t
    PROVE  /\ r \in Seq(Elems(r))
           /\ Len(s) \in Nat /\ DOMAIN s = 1 .. Len(s)
           /\ Len(t) \in Nat /\ DOMAIN t = 1 .. Len(t)
           /\ Len(r) = Len(s) + Len(t) /\ DOMAIN r = 1 .. Len(s) + Len(t)
           /\ \A i \in DOMAIN s : r[i] = s[i]
           /\ \A i \in DOMAIN t : r[Len(s) + i] = t[i]
           /\ \A i \in DOMAIN r : i \in DOMAIN s \/ i - Len(s) \in DOMAIN t
<1> DEFINE S == Elems(s) \cup Elems(t)
<1>1. s \in Seq(S) /\ t \in Seq(S)
  BY SeqMonotonic
<1>2. /\ s \o t \in Seq(S)
      /\ Len(s \o t) = Len(s) + Len(t)
      /\ \A i \in 1 .. Len(s) + Len(t) : (s \o t)[i] =
                     IF i <= Len(s) THEN s[i] ELSE t[i - Len(s)]
  BY <1>1, ConcatProperties
<1>3. /\ Len(s) \in Nat /\ DOMAIN s = 1 .. Len(s)
      /\ Len(t) \in Nat /\ DOMAIN t = 1 .. Len(t)
  BY <1>1, LenProperties
<1>4. r \in Seq(Elems(r)) /\ DOMAIN r = 1 .. Len(r)
  BY <1>2, ElemsOfSeq
<1> HIDE DEF S
<1>5. \A i \in DOMAIN s : r[i] = s[i]
  BY <1>2, <1>3
<1>6. ASSUME NEW i \in DOMAIN t PROVE r[Len(s) + i] = t[i]
  <2>1. Len(s) + i \in 1 .. Len(s) + Len(t) /\ ~(Len(s) + i <= Len(s))
        /\ (Len(s) + i) - Len(s) = i
    BY <1>3
  <2> QED
    BY <1>2, <2>1
<1>7. \A i \in DOMAIN r : i \in DOMAIN s \/ i - Len(s) \in DOMAIN t
  BY <1>2, <1>3, <1>4
<1> QED
  BY <1>2, <1>3, <1>4, <1>5, <1>6, <1>7

LEMMA ConcatElems ==
    ASSUME NEW s, s \in Seq(Elems(s)), NEW t, t \in Seq(Elems(t)), NEW r, r = s \o t
    PROVE  Elems(r) = Elems(s) \cup Elems(t)
<1>1. /\ Len(s) \in Nat /\ DOMAIN s = 1 .. Len(s)
      /\ Len(t) \in Nat /\ DOMAIN t = 1 .. Len(t)
      /\ DOMAIN r = 1 .. Len(s) + Len(t)
      /\ \A i \in DOMAIN s : r[i] = s[i]
      /\ \A i \in DOMAIN t : r[Len(s) + i] = t[i]
      /\ \A i \in DOMAIN r : i \in DOMAIN s \/ i - Len(s) \in DOMAIN t
  BY ListConcat
<1>2. ASSUME NEW i \in DOMAIN r PROVE r[i] \in Elems(s) \cup Elems(t)
  <2>1. CASE i \in DOMAIN s
    BY <1>1, <2>1 DEF Elems
  <2>2. CASE i - Len(s) \in DOMAIN t
    <3>1. Len(s) + (i - Len(s)) = i
      BY <1>1
    <3>2. r[i] = t[i - Len(s)]
      BY <1>1, <2>2, <3>1
    <3> QED
      BY <2>2, <3>2 DEF Elems
  <2> QED
    BY <1>1, <2>1, <2>2
<1>3. ASSUME NEW i \in DOMAIN s PROVE s[i] \in Elems(r)
  <2>1. i \in DOMAIN r
    BY <1>1
  <2> QED
    BY <1>1, <2>1 DEF Elems
<1>4. ASSUME NEW i \in DOMAIN t PROVE t[i] \in Elems(r)
  <2>1. Len(s) + i \in DOMAIN r
    BY <1>1
  <2> QED
    BY <1>1, <2>1 DEF Elems
<1>5. Elems(r) \subseteq Elems(s) \cup Elems(t)
  BY <1>2 DEF Elems
<1>6. Elems(s) \subseteq Elems(r)
  <2>1. ASSUME NEW e \in Elems(s) PROVE e \in Elems(r)
    <3>1. PICK i \in DOMAIN s : e = s[i]
      BY DEF Elems
    <3> QED
      BY <1>3, <3>1
  <2> QED
    BY <2>1
<1>7. Elems(t) \subseteq Elems(r)
  <2>1. ASSUME NEW e \in Elems(t) PROVE e \in Elems(r)
    <3>1. PICK i \in DOMAIN t : e = t[i]
      BY DEF Elems
    <3> QED
      BY <1>4, <3>1
  <2> QED
    BY <2>1
<1> QED
  BY <1>5, <1>6, <1>7

LEMMA ListTail ==
    ASSUME NEW s, s \in Seq(Elems(s)), s # << >>, NEW r, r = Tail(s)
    PROVE  /\ r \in Seq(Elems(r))
           /\ 1 \in DOMAIN s /\ Head(s) = s[1]
           /\ Len(s) \in Nat /\ DOMAIN s = 1 .. Len(s) /\ DOMAIN r = 1 .. Len(s) - 1
           /\ \A i \in DOMAIN r : i + 1 \in DOMAIN s /\ r[i] = s[i + 1]
<1>1. /\ Tail(s) \in Seq(Elems(s))
      /\ Len(Tail(s)) = Len(s) - 1
      /\ \A i \in 1 .. Len(Tail(s)) : Tail(s)[i] = s[i + 1]
  BY HeadTailProperties
<1>2. Len(s) \in Nat \ {0} /\ DOMAIN s = 1 .. Len(s)
  BY LenProperties, EmptySeq
<1>3. Head(s) = s[1]
  OBVIOUS
<1>4. r \in Seq(Elems(r)) /\ DOMAIN r = 1 .. Len(r)
  BY <1>1, ElemsOfSeq
<1> QED
  BY <1>1, <1>2, <1>3, <1>4

LEMMA ListEmpty == << >> \in Seq(Elems(<< >>)) /\ DOMAIN << >> = {}
<1>1. << >> \in Seq({}) /\ Len(<< >>) = 0
  BY EmptySeq
<1> QED
  BY <1>1, ElemsOfSeq

LEMMA ListOne ==
    ASSUME NEW e
    PROVE  /\ <<e>> \in Seq(Elems(<<e>>)) /\ DOMAIN <<e>> = {1} /\ <<e>>[1] = e
           /\ Len(<<e>>) = 1
<1>1. <<e>> \in Seq({e}) /\ Len(<<e>>) = 1 /\ <<e>>[1] = e
  OBVIOUS
<1>2. 1 .. 1 = {1}
  OBVIOUS
<1> QED
  BY <1>1, <1>2, ElemsOfSeq

LEMMA ListTwo ==
    ASSUME NEW e, NEW f
    PROVE  /\ <<e, f>> \in Seq(Elems(<<e, f>>)) /\ DOMAIN <<e, f>> = {1, 2}
           /\ <<e, f>>[1] = e /\ <<e, f>>[2] = f
           /\ Len(<<e, f>>) = 2
<1>1. <<e, f>> \in Seq({e, f}) /\ Len(<<e, f>>) = 2 /\ <<e, f>>[1] = e /\ <<e, f>>[2] = f
  OBVIOUS
<1>2. 1 .. 2 = {1, 2}
  OBVIOUS
<1> QED
  BY <1>1, <1>2, ElemsOfSeq

LEMMA ListAppend ==
    ASSUME NEW s, s \in Seq(Elems(s)), NEW e
    PROVE  Append(s, e) = s \o <<e>>
<1> DEFINE S == Elems(s) \cup {e}
<1>1. s \in Seq(S) /\ e \in S
  BY SeqMonotonic
<1> QED
  BY <1>1, AppendIsConcat


-------------------------------------------------------------------------------
(***************************************************************************)
(* What the two ends know of access n does not change.                     *)
(***************************************************************************)
Same(n) ==
    /\ n \in Txns => hnf'[n] = hnf[n]
    /\ n \in Pkts => byp'[n] = byp[n]
    /\ n \in performed' <=> n \in performed
    /\ found'[n] = found[n] /\ got'[n] = got[n]
    /\ n \in DOMAIN writes' <=> n \in DOMAIN writes
    /\ n \in DOMAIN writes => writes'[n] = writes[n]
    /\ \A k \in DOMAIN pending_mem :
          pending_mem[k].n = n =>
              k \in DOMAIN pending_mem' /\ pending_mem'[k] = pending_mem[k]
    /\ \A k \in DOMAIN pending_mem' :
          pending_mem'[k].n = n => k \in DOMAIN pending_mem /\ pending_mem[k].n = n

LEMMA SamePlaces ==
    ASSUME NEW n, Same(n)
    PROVE  /\ Busy(n)' <=> Busy(n)
           /\ Untouched(n)' <=> Untouched(n)
           /\ Served1(n)' <=> Served1(n)
<1>1. Busy(n)' <=> Busy(n)
  BY DEF Same, Busy
<1> QED
  BY <1>1 DEF Same, Untouched, Served1

LEMMA PeerMsgKept ==
    ASSUME NEW m, PeerMsgOK(m), m.t \in PeerKinds => Same(Subject(m))
    PROVE  PeerMsgOK(m)' /\ (m.t \in PeerKinds => Subject(m)' = Subject(m))
<1>1. CASE m.t = "req"
  <2>1. Subject(m) = m.n /\ Subject(m)' = m.n /\ Same(m.n)
    BY <1>1 DEF Subject, PeerKinds
  <2>2. Untouched(m.n)' <=> Untouched(m.n)
    BY <2>1, SamePlaces
  <2> QED
    BY <1>1, <2>1, <2>2 DEF PeerMsgOK, PeerKinds, Same
<1>2. CASE m.t = "dat"
  <2>1. Subject(m) = m.n /\ Subject(m)' = m.n /\ Same(m.n)
    BY <1>2 DEF Subject, PeerKinds
  <2>2. Untouched(m.n)' <=> Untouched(m.n)
    BY <2>1, SamePlaces
  <2> QED
    BY <1>2, <2>1, <2>2 DEF PeerMsgOK, PeerKinds, Same
<1>3. CASE m.t = "bypass"
  <2>1. Subject(m) = m.n /\ Subject(m)' = m.n /\ Same(m.n)
    BY <1>3 DEF Subject, PeerKinds
  <2>2. Untouched(m.n)' <=> Untouched(m.n)
    BY <2>1, SamePlaces
  <2> QED
    BY <1>3, <2>1, <2>2 DEF PeerMsgOK, PeerKinds, Same
<1>4. CASE m.t = "mem_done"
  BY <1>4 DEF PeerMsgOK, PeerKinds, Same, Subject
<1>5. CASE m.t \notin PeerKinds
  BY <1>5 DEF PeerMsgOK, PeerKinds
<1> QED
  BY <1>1, <1>2, <1>3, <1>4, <1>5 DEF PeerKinds

LEMMA Gem5MsgKept ==
    ASSUME NEW m, Gem5MsgOK(m), m.t \in Gem5Kinds => Same(m.n), UNCHANGED req
    PROVE  Gem5MsgOK(m)'
<1>1. CASE m.t = "mem"
  BY <1>1 DEF Gem5MsgOK, Gem5Kinds, Same, MemOK
<1>2. CASE m.t = "rsp"
  <2>1. Same(m.n) /\ (Untouched(m.n)' <=> Untouched(m.n))
        /\ (Served1(m.n)' <=> Served1(m.n))
    BY <1>2, SamePlaces DEF Gem5Kinds
  <2> QED
    BY <1>2, <2>1 DEF Gem5MsgOK, Gem5Kinds, Same
<1>3. CASE m.t = "dat"
  <2>1. Same(m.n) /\ (Served1(m.n)' <=> Served1(m.n))
    BY <1>3, SamePlaces DEF Gem5Kinds
  <2>2. /\ m.n \in Txns /\ hnf'[m.n] = hnf[m.n] /\ found'[m.n] = found[m.n]
        /\ beats_expected(req[m.n])' = beats_expected(req[m.n])
    BY <1>3, <2>1 DEF Gem5MsgOK, DatOK, Same, beats_expected
  <2>3. DatOK(m)
    BY <1>3 DEF Gem5MsgOK
  <2>4. DatOK(m)'
    BY <2>1, <2>2, <2>3 DEF DatOK
  <2> QED
    BY <1>3, <2>4 DEF Gem5MsgOK, Gem5Kinds
<1>4. CASE m.t = "bypass_resp"
  <2>1. Same(m.n) /\ (Served1(m.n)' <=> Served1(m.n))
    BY <1>4, SamePlaces DEF Gem5Kinds
  <2> QED
    BY <1>4, <2>1 DEF Gem5MsgOK, Gem5Kinds, Same
<1>5. CASE m.t \notin Gem5Kinds
  BY <1>5 DEF Gem5MsgOK, Gem5Kinds
<1> QED
  BY <1>1, <1>2, <1>3, <1>4, <1>5 DEF Gem5Kinds

LEMMA AccessKept ==
    ASSUME NEW n \in Accesses, AccessInv(n), Same(n), UNCHANGED <<req, bypass>>
    PROVE  AccessInv(n)'
<1>1. Burst(n)' = Burst(n) /\ beats_expected(req[n])' = beats_expected(req[n])
  BY DEF Burst, blocks_asked, bytes_asked, beats_expected
<1>2. CallbackInv(n)'
  <2>1. CallbackInv(n) /\ (n \in Txns => hnf'[n] = hnf[n])
        /\ (n \in Pkts => byp'[n] = byp[n])
    BY DEF AccessInv, Same
  <2>2. ASSUME NEW k \in DOMAIN pending_mem', pending_mem'[k].n = n
        PROVE  k \in DOMAIN pending_mem /\ pending_mem[k].n = n
               /\ pending_mem'[k] = pending_mem[k]
    BY <2>2 DEF Same
  <2> QED
    BY <2>1, <2>2 DEF CallbackInv, Accesses
<1>3. FoundInv(n)'
  BY <1>1 DEF AccessInv, FoundInv, Same
<1>4. ASSUME n \in Txns PROVE EntryInv(n)'
  <2>1. EntryInv(n) /\ hnf'[n] = hnf[n] /\ got'[n] = got[n] /\ found'[n] = found[n]
        /\ (n \in performed' <=> n \in performed)
        /\ (n \in DOMAIN writes' <=> n \in DOMAIN writes)
        /\ (n \in DOMAIN writes => writes'[n] = writes[n])
    BY <1>4 DEF AccessInv, Same
  <2>2. (Untouched(n)' <=> Untouched(n)) /\ (Served1(n)' <=> Served1(n))
    BY SamePlaces
  <2> QED
    BY <1>1, <2>1, <2>2 DEF EntryInv
<1>5. ASSUME n \in Pkts PROVE PktInv(n)'
  <2>1. (Untouched(n)' <=> Untouched(n)) /\ (Served1(n)' <=> Served1(n))
    BY SamePlaces
  <2> QED
    BY <1>5, <2>1 DEF AccessInv, PktInv, Same
<1> QED
  BY <1>2, <1>3, <1>4, <1>5 DEF AccessInv

-------------------------------------------------------------------------------
(***************************************************************************)
(* to_peer: nothing happens to it, its head is handled, gem5 sends.        *)
(***************************************************************************)
LEMMA PeerInvSame ==
    ASSUME PeerInv, UNCHANGED to_peer,
           \A m \in Elems(to_peer) : m.t \in PeerKinds => Same(Subject(m))
    PROVE  PeerInv'
<1>1. \A m \in Elems(to_peer) :
         PeerMsgOK(m)' /\ (m.t \in PeerKinds => Subject(m)' = Subject(m))
  BY PeerMsgKept DEF PeerInv
<1>2. Elems(to_peer)' = Elems(to_peer)
  BY DEF Elems
<1>3. \A m \in Elems(to_peer)' : PeerMsgOK(m)'
  BY <1>1, <1>2
<1>4. PeerApart'
  BY <1>1, <1>2 DEF PeerInv, PeerApart
<1> QED
  BY <1>3, <1>4 DEF PeerInv

LEMMA PeerInvTail ==
    ASSUME PeerInv, FrameOK, to_peer # << >>, to_peer' = Tail(to_peer),
           NEW h, h = Head(to_peer),
           \A m \in Elems(to_peer) :
               m.t \in PeerKinds /\ ~(h.t \in PeerKinds /\ Subject(m) = Subject(h))
                   => Same(Subject(m))
    PROVE  PeerInv'
<1>1. /\ 1 \in DOMAIN to_peer /\ h = to_peer[1] /\ Len(to_peer) \in Nat
      /\ DOMAIN to_peer = 1 .. Len(to_peer) /\ DOMAIN to_peer' = 1 .. Len(to_peer) - 1
      /\ \A i \in DOMAIN to_peer' : i + 1 \in DOMAIN to_peer /\ to_peer'[i] = to_peer[i + 1]
  BY ListTail DEF FrameOK
<1>2. \A m \in Elems(to_peer)' :
         /\ m \in Elems(to_peer)
         /\ m.t \in PeerKinds /\ h.t \in PeerKinds => Subject(m) # Subject(h)
  <2> SUFFICES ASSUME NEW m \in Elems(to_peer)'
               PROVE  /\ m \in Elems(to_peer)
                      /\ m.t \in PeerKinds /\ h.t \in PeerKinds => Subject(m) # Subject(h)
    OBVIOUS
  <2>1. PICK i \in DOMAIN to_peer' : m = to_peer'[i]
    BY DEF Elems
  <2>2. i + 1 \in DOMAIN to_peer /\ m = to_peer[i + 1] /\ i + 1 # 1
    BY <1>1, <2>1
  <2>3. m \in Elems(to_peer) /\ h \in Elems(to_peer)
    BY <1>1, <2>2 DEF Elems
  <2> QED
    BY <1>1, <2>2, <2>3 DEF PeerInv, PeerApart
<1>3. \A m \in Elems(to_peer)' :
         PeerMsgOK(m)' /\ (m.t \in PeerKinds => Subject(m)' = Subject(m))
  BY <1>2, PeerMsgKept DEF PeerInv
<1>4. PeerApart'
  <2> SUFFICES ASSUME NEW m \in Elems(to_peer)', NEW o \in Elems(to_peer)',
                      NEW i \in DOMAIN to_peer', NEW j \in DOMAIN to_peer',
                      i # j, m = to_peer'[i], o = to_peer'[j],
                      m.t \in PeerKinds, o.t \in PeerKinds
               PROVE  Subject(m)' # Subject(o)'
    BY DEF PeerApart
  <2>1. /\ i + 1 \in DOMAIN to_peer /\ j + 1 \in DOMAIN to_peer /\ i + 1 # j + 1
        /\ m = to_peer[i + 1] /\ o = to_peer[j + 1]
    BY <1>1
  <2>2. Subject(m) # Subject(o)
    BY <1>2, <2>1 DEF PeerInv, PeerApart
  <2> QED
    BY <1>3, <2>2
<1> QED
  BY <1>3, <1>4 DEF PeerInv

\* Of the messages gem5 sends at once one at most is about an access.
LEMMA PeerInvConcat ==
    ASSUME PeerInv, FrameOK,
           NEW ms, ms \in Seq(Elems(ms)), to_peer' = to_peer \o ms,
           \A o \in Elems(ms) : PeerMsgOK(o)',
           \A i, j \in DOMAIN ms :
               ms[i].t \in PeerKinds /\ ms[j].t \in PeerKinds => i = j,
           \A m \in Elems(to_peer) : m.t \in PeerKinds => Same(Subject(m)),
           \A m \in Elems(to_peer) : \A o \in Elems(ms) :
               m.t \in PeerKinds /\ o.t \in PeerKinds => Subject(m) # Subject(o)'
    PROVE  PeerInv'
<1>1. /\ Len(to_peer) \in Nat /\ DOMAIN to_peer = 1 .. Len(to_peer)
      /\ Len(ms) \in Nat /\ DOMAIN ms = 1 .. Len(ms)
      /\ \A i \in DOMAIN to_peer : to_peer'[i] = to_peer[i]
      /\ \A i \in DOMAIN ms : to_peer'[Len(to_peer) + i] = ms[i]
      /\ \A i \in DOMAIN to_peer' : i \in DOMAIN to_peer \/ i - Len(to_peer) \in DOMAIN ms
      /\ DOMAIN to_peer' = 1 .. Len(to_peer) + Len(ms)
  BY ListConcat DEF FrameOK
<1>2. ASSUME NEW i \in DOMAIN to_peer', i \notin DOMAIN to_peer
      PROVE  i - Len(to_peer) \in DOMAIN ms /\ to_peer'[i] = ms[i - Len(to_peer)]
  <2>1. Len(to_peer) + (i - Len(to_peer)) = i
    BY <1>1
  <2> QED
    BY <1>1, <1>2, <2>1
<1>3. \A m \in Elems(to_peer) :
         PeerMsgOK(m)' /\ (m.t \in PeerKinds => Subject(m)' = Subject(m))
  BY PeerMsgKept DEF PeerInv
<1>4. ASSUME NEW m \in Elems(to_peer)' PROVE PeerMsgOK(m)'
  <2>1. PICK i \in DOMAIN to_peer' : m = to_peer'[i]
    BY DEF Elems
  <2>2. m \in Elems(to_peer) \/ m \in Elems(ms)
    BY <1>1, <1>2, <2>1 DEF Elems
  <2> QED
    BY <1>3, <2>2
<1>5. PeerApart'
  <2> SUFFICES ASSUME NEW m \in Elems(to_peer)', NEW o \in Elems(to_peer)',
                      NEW i \in DOMAIN to_peer', NEW j \in DOMAIN to_peer',
                      i # j, m = to_peer'[i], o = to_peer'[j],
                      m.t \in PeerKinds, o.t \in PeerKinds
               PROVE  Subject(m)' # Subject(o)'
    BY DEF PeerApart
  <2>1. CASE i \in DOMAIN to_peer /\ j \in DOMAIN to_peer
    <3>1. /\ m = to_peer[i] /\ o = to_peer[j]
          /\ m \in Elems(to_peer) /\ o \in Elems(to_peer)
      BY <1>1, <2>1 DEF Elems
    <3>2. Subject(m) # Subject(o)
      BY <2>1, <3>1 DEF PeerInv, PeerApart
    <3> QED
      BY <1>3, <3>1, <3>2
  <2>2. CASE i \in DOMAIN to_peer /\ j \notin DOMAIN to_peer
    <3>1. m \in Elems(to_peer) /\ o \in Elems(ms)
      BY <1>1, <1>2, <2>2 DEF Elems
    <3> QED
      BY <1>3, <3>1
  <2>3. CASE i \notin DOMAIN to_peer /\ j \in DOMAIN to_peer
    <3>1. o \in Elems(to_peer) /\ m \in Elems(ms)
      BY <1>1, <1>2, <2>3 DEF Elems
    <3> QED
      BY <1>3, <3>1
  <2>4. CASE i \notin DOMAIN to_peer /\ j \notin DOMAIN to_peer
    <3>1. i - Len(to_peer) = j - Len(to_peer)
      BY <1>2, <2>4
    <3> QED
      BY <1>1, <3>1
  <2> QED
    BY <2>1, <2>2, <2>3, <2>4
<1> QED
  BY <1>4, <1>5 DEF PeerInv

LEMMA PeerInvEmpty ==
    ASSUME to_peer' = << >>
    PROVE  PeerInv'
<1>1. DOMAIN to_peer' = {}
  BY ListEmpty
<1>2. Elems(to_peer)' = {}
  BY <1>1 DEF Elems
<1> QED
  BY <1>2 DEF PeerInv, PeerApart

-------------------------------------------------------------------------------
(***************************************************************************)
(* to_gem5: nothing happens to it, gem5 takes its head, a handler answers. *)
(***************************************************************************)
LEMMA BeatsSame ==
    ASSUME NEW m, Gem5MsgOK(m), m.t = "dat", Same(m.n)
    PROVE  hnf'[m.n].beats = hnf[m.n].beats
BY DEF Gem5MsgOK, DatOK, Same

LEMMA Gem5InvSame ==
    ASSUME Gem5Inv, UNCHANGED <<req, to_gem5>>,
           \A m \in Elems(to_gem5) : m.t \in Gem5Kinds => Same(m.n)
    PROVE  Gem5Inv'
<1>1. \A m \in Elems(to_gem5)' : Gem5MsgOK(m)'
  BY Gem5MsgKept DEF Gem5Inv, Elems
<1>2. Gem5Apart'
  BY DEF Gem5Inv, Gem5Apart
<1>3. BeatsInOrder'
  <2>1. \A i \in DOMAIN to_gem5 : to_gem5[i].t = "dat" =>
            hnf'[to_gem5[i].n].beats = hnf[to_gem5[i].n].beats
    BY BeatsSame DEF Gem5Inv, Elems, Gem5Kinds
  <2> QED
    BY <2>1 DEF Gem5Inv, BeatsInOrder
<1> QED
  BY <1>1, <1>2, <1>3 DEF Gem5Inv

LEMMA Gem5InvTail ==
    ASSUME Gem5Inv, FrameOK, UNCHANGED req, to_gem5 # << >>, to_gem5' = Tail(to_gem5),
           NEW h, h = Head(to_gem5), h.t # "dat",
           \A m \in Elems(to_gem5) :
               m.t \in Gem5Kinds /\ ~(h.t \in Gem5Kinds /\ m.n = h.n) => Same(m.n)
    PROVE  /\ Gem5Inv'
           /\ \A m \in Elems(to_gem5)' :
                 /\ m \in Elems(to_gem5)
                 /\ m.t \in Gem5Kinds /\ h.t \in Gem5Kinds => m.n # h.n
<1>1. /\ 1 \in DOMAIN to_gem5 /\ h = to_gem5[1] /\ Len(to_gem5) \in Nat
      /\ DOMAIN to_gem5 = 1 .. Len(to_gem5) /\ DOMAIN to_gem5' = 1 .. Len(to_gem5) - 1
      /\ \A i \in DOMAIN to_gem5' : i + 1 \in DOMAIN to_gem5 /\ to_gem5'[i] = to_gem5[i + 1]
  BY ListTail DEF FrameOK
<1>2. \A m \in Elems(to_gem5)' :
         /\ m \in Elems(to_gem5)
         /\ m.t \in Gem5Kinds /\ h.t \in Gem5Kinds => m.n # h.n
  <2> SUFFICES ASSUME NEW m \in Elems(to_gem5)'
               PROVE  /\ m \in Elems(to_gem5)
                      /\ m.t \in Gem5Kinds /\ h.t \in Gem5Kinds => m.n # h.n
    OBVIOUS
  <2>1. PICK i \in DOMAIN to_gem5' : m = to_gem5'[i]
    BY DEF Elems
  <2>2. i + 1 \in DOMAIN to_gem5 /\ m = to_gem5[i + 1] /\ i + 1 # 1
    BY <1>1, <2>1
  <2> QED
    BY <1>1, <2>2 DEF Gem5Inv, Gem5Apart, Elems
<1>3. \A m \in Elems(to_gem5)' : Gem5MsgOK(m)' /\ (m.t \in Gem5Kinds => Same(m.n))
  BY <1>2, Gem5MsgKept DEF Gem5Inv
<1>4. Gem5Apart'
  <2> SUFFICES ASSUME NEW i \in DOMAIN to_gem5', NEW j \in DOMAIN to_gem5', i # j,
                      to_gem5'[i].t \in Gem5Kinds, to_gem5'[j].t \in Gem5Kinds,
                      to_gem5'[i].n = to_gem5'[j].n
               PROVE  /\ to_gem5'[i].t = "dat" /\ to_gem5'[j].t = "dat"
                      /\ to_gem5'[i].dataid # to_gem5'[j].dataid
    BY DEF Gem5Apart
  <2>1. /\ i + 1 \in DOMAIN to_gem5 /\ j + 1 \in DOMAIN to_gem5 /\ i + 1 # j + 1
        /\ to_gem5'[i] = to_gem5[i + 1] /\ to_gem5'[j] = to_gem5[j + 1]
    BY <1>1
  <2> QED
    BY <2>1 DEF Gem5Inv, Gem5Apart
<1>5. BeatsInOrder'
  <2> SUFFICES ASSUME NEW i \in DOMAIN to_gem5', to_gem5'[i].t = "dat",
                      to_gem5'[i].dataid # hnf'[to_gem5'[i].n].beats
               PROVE  \E j \in DOMAIN to_gem5' :
                         /\ j < i /\ to_gem5'[j].t = "dat" /\ to_gem5'[j].n = to_gem5'[i].n
                         /\ to_gem5'[j].dataid + 1 = to_gem5'[i].dataid
    BY DEF BeatsInOrder
  <2>1. i + 1 \in DOMAIN to_gem5 /\ to_gem5'[i] = to_gem5[i + 1]
    BY <1>1
  <2>2. to_gem5'[i] \in Elems(to_gem5)'
    BY DEF Elems
  <2>3. hnf'[to_gem5'[i].n].beats = hnf[to_gem5'[i].n].beats
    <3>1. \A m \in Elems(to_gem5)' : m.t = "dat" => hnf'[m.n].beats = hnf[m.n].beats
      BY <1>2, <1>3, BeatsSame DEF Gem5Inv, Gem5Kinds
    <3> QED
      BY <2>2, <3>1
  <2>4. PICK j \in DOMAIN to_gem5 :
           /\ j < i + 1 /\ to_gem5[j].t = "dat" /\ to_gem5[j].n = to_gem5[i + 1].n
           /\ to_gem5[j].dataid + 1 = to_gem5[i + 1].dataid
    BY <2>1, <2>3 DEF Gem5Inv, BeatsInOrder
  <2>5. j # 1
    BY <1>1, <2>4
  <2>6. j - 1 \in DOMAIN to_gem5' /\ (j - 1) + 1 = j /\ j - 1 < i
    BY <1>1, <2>4, <2>5
  <2>7. to_gem5'[j - 1] = to_gem5[j]
    BY <1>1, <2>6
  <2> QED
    BY <2>1, <2>4, <2>6, <2>7
<1> QED
  BY <1>2, <1>3, <1>4, <1>5 DEF Gem5Inv

\* Gem5 takes the next beat of read n.
LEMMA Gem5InvBeat ==
    ASSUME Gem5Inv, FrameOK, UNCHANGED req, to_gem5 # << >>, to_gem5' = Tail(to_gem5),
           NEW h, h = Head(to_gem5), h.t = "dat",
           \A m \in Elems(to_gem5) : m.t \in Gem5Kinds /\ m.n # h.n => Same(m.n),
           hnf'[h.n].beats = hnf[h.n].beats + 1,
           hnf[h.n].beats \in Nat,
           \A m \in Elems(to_gem5) :
               m.t = "dat" /\ m.n = h.n /\ hnf'[h.n].beats <= m.dataid => DatOK(m)'
    PROVE  Gem5Inv' /\ h.dataid = hnf[h.n].beats
<1>1. /\ 1 \in DOMAIN to_gem5 /\ h = to_gem5[1] /\ Len(to_gem5) \in Nat
      /\ DOMAIN to_gem5 = 1 .. Len(to_gem5) /\ DOMAIN to_gem5' = 1 .. Len(to_gem5) - 1
      /\ \A i \in DOMAIN to_gem5' : i + 1 \in DOMAIN to_gem5 /\ to_gem5'[i] = to_gem5[i + 1]
  BY ListTail DEF FrameOK
<1>2. h.dataid = hnf[h.n].beats
  BY <1>1 DEF Gem5Inv, BeatsInOrder
<1>3. ASSUME NEW i \in DOMAIN to_gem5'
      PROVE  /\ i + 1 \in DOMAIN to_gem5 /\ to_gem5'[i] = to_gem5[i + 1] /\ i + 1 # 1
             /\ to_gem5'[i] \in Elems(to_gem5)
             /\ Gem5MsgOK(to_gem5[i + 1])
  BY <1>1 DEF Gem5Inv, Elems
<1>4. ASSUME NEW i \in DOMAIN to_gem5', to_gem5'[i].t \in Gem5Kinds, to_gem5'[i].n = h.n
      PROVE  /\ to_gem5'[i].t = "dat" /\ to_gem5'[i].dataid \in Nat
             /\ hnf'[h.n].beats <= to_gem5'[i].dataid
  <2>1. h.t \in Gem5Kinds
    BY DEF Gem5Kinds
  <2>2. to_gem5'[i].t = "dat" /\ to_gem5'[i].dataid # h.dataid
    BY <1>1, <1>3, <1>4, <2>1 DEF Gem5Inv, Gem5Apart
  <2>3. hnf[h.n].beats <= to_gem5'[i].dataid /\ to_gem5'[i].dataid \in Nat
    BY <1>3, <1>4, <2>2 DEF Gem5MsgOK, DatOK
  <2> QED
    BY <1>2, <2>2, <2>3
<1>5. ASSUME NEW m \in Elems(to_gem5)' PROVE Gem5MsgOK(m)'
  <2>1. PICK i \in DOMAIN to_gem5' : m = to_gem5'[i]
    BY DEF Elems
  <2>2. m \in Elems(to_gem5) /\ Gem5MsgOK(m)
    BY <1>3, <2>1
  <2>3. CASE m.t \in Gem5Kinds /\ m.n = h.n
    <3>1. m.t = "dat" /\ DatOK(m)'
      BY <1>4, <2>1, <2>2, <2>3
    <3> QED
      BY <3>1 DEF Gem5MsgOK, Gem5Kinds
  <2>4. CASE ~(m.t \in Gem5Kinds /\ m.n = h.n)
    BY <2>2, <2>4, Gem5MsgKept
  <2> QED
    BY <2>3, <2>4
<1>6. Gem5Apart'
  <2> SUFFICES ASSUME NEW i \in DOMAIN to_gem5', NEW j \in DOMAIN to_gem5', i # j,
                      to_gem5'[i].t \in Gem5Kinds, to_gem5'[j].t \in Gem5Kinds,
                      to_gem5'[i].n = to_gem5'[j].n
               PROVE  /\ to_gem5'[i].t = "dat" /\ to_gem5'[j].t = "dat"
                      /\ to_gem5'[i].dataid # to_gem5'[j].dataid
    BY DEF Gem5Apart
  <2>1. /\ i + 1 \in DOMAIN to_gem5 /\ j + 1 \in DOMAIN to_gem5 /\ i + 1 # j + 1
        /\ to_gem5'[i] = to_gem5[i + 1] /\ to_gem5'[j] = to_gem5[j + 1]
    BY <1>1
  <2> QED
    BY <2>1 DEF Gem5Inv, Gem5Apart
<1>7. BeatsInOrder'
  <2> SUFFICES ASSUME NEW i \in DOMAIN to_gem5', to_gem5'[i].t = "dat",
                      to_gem5'[i].dataid # hnf'[to_gem5'[i].n].beats
               PROVE  \E j \in DOMAIN to_gem5' :
                         /\ j < i /\ to_gem5'[j].t = "dat" /\ to_gem5'[j].n = to_gem5'[i].n
                         /\ to_gem5'[j].dataid + 1 = to_gem5'[i].dataid
    BY DEF BeatsInOrder
  <2>1. i + 1 \in DOMAIN to_gem5 /\ to_gem5'[i] = to_gem5[i + 1]
    BY <1>1
  <2>2. to_gem5'[i].dataid # hnf[to_gem5'[i].n].beats
    <3>1. CASE to_gem5'[i].n = h.n
      BY <1>4, <3>1 DEF Gem5Kinds
    <3>2. CASE to_gem5'[i].n # h.n
      <4>1. Same(to_gem5[i + 1].n)
        BY <1>3, <3>2 DEF Gem5Kinds
      <4> QED
        BY <1>3, <2>1, <4>1, BeatsSame
    <3> QED
      BY <3>1, <3>2
  <2>3. PICK j \in DOMAIN to_gem5 :
           /\ j < i + 1 /\ to_gem5[j].t = "dat" /\ to_gem5[j].n = to_gem5[i + 1].n
           /\ to_gem5[j].dataid + 1 = to_gem5[i + 1].dataid
    BY <2>1, <2>2 DEF Gem5Inv, BeatsInOrder
  <2>4. j # 1
    <3> SUFFICES ASSUME j = 1 PROVE FALSE
      OBVIOUS
    <3>1. to_gem5'[i].n = h.n /\ hnf[h.n].beats + 1 = to_gem5'[i].dataid
      BY <1>1, <1>2, <2>1, <2>3
    <3> QED
      BY <3>1
  <2>5. j - 1 \in DOMAIN to_gem5' /\ (j - 1) + 1 = j /\ j - 1 < i
    BY <1>1, <2>3, <2>4
  <2>6. to_gem5'[j - 1] = to_gem5[j]
    BY <1>1, <2>5
  <2> QED
    BY <2>1, <2>3, <2>5, <2>6
<1> QED
  BY <1>2, <1>5, <1>6, <1>7 DEF Gem5Inv

\* What a handler sends at once is about one access n, of which nothing else
\* is on its way.
LEMMA Gem5InvConcat ==
    ASSUME Gem5Inv, FrameOK, UNCHANGED req,
           NEW ms, ms \in Seq(Elems(ms)), to_gem5' = to_gem5 \o ms,
           NEW n,
           \A o \in Elems(ms) : Gem5MsgOK(o)' /\ (o.t \in Gem5Kinds => o.n = n),
           \A i, j \in DOMAIN ms :
               i # j /\ ms[i].t \in Gem5Kinds /\ ms[j].t \in Gem5Kinds =>
                   /\ ms[i].t = "dat" /\ ms[j].t = "dat"
                   /\ ms[i].dataid # ms[j].dataid,
           \A i \in DOMAIN ms : ms[i].t = "dat" =>
               \/ ms[i].dataid = hnf'[n].beats
               \/ \E j \in DOMAIN ms : /\ j < i /\ ms[j].t = "dat"
                                       /\ ms[j].dataid + 1 = ms[i].dataid,
           \A m \in Elems(to_gem5) : m.t \in Gem5Kinds => m.n # n /\ Same(m.n)
    PROVE  Gem5Inv'
<1>1. /\ Len(to_gem5) \in Nat /\ DOMAIN to_gem5 = 1 .. Len(to_gem5)
      /\ Len(ms) \in Nat /\ DOMAIN ms = 1 .. Len(ms)
      /\ \A i \in DOMAIN to_gem5 : to_gem5'[i] = to_gem5[i]
      /\ \A i \in DOMAIN ms : to_gem5'[Len(to_gem5) + i] = ms[i]
      /\ \A i \in DOMAIN to_gem5' : i \in DOMAIN to_gem5 \/ i - Len(to_gem5) \in DOMAIN ms
      /\ DOMAIN to_gem5' = 1 .. Len(to_gem5) + Len(ms)
  BY ListConcat DEF FrameOK
<1>2. ASSUME NEW i \in DOMAIN to_gem5', i \notin DOMAIN to_gem5
      PROVE  i - Len(to_gem5) \in DOMAIN ms /\ to_gem5'[i] = ms[i - Len(to_gem5)]
  <2>1. Len(to_gem5) + (i - Len(to_gem5)) = i
    BY <1>1
  <2> QED
    BY <1>1, <1>2, <2>1
<1>3. ASSUME NEW i \in DOMAIN to_gem5'
      PROVE  \/ /\ i \in DOMAIN to_gem5 /\ to_gem5'[i] = to_gem5[i]
                /\ to_gem5'[i] \in Elems(to_gem5)
             \/ /\ i \notin DOMAIN to_gem5 /\ i - Len(to_gem5) \in DOMAIN ms
                /\ to_gem5'[i] = ms[i - Len(to_gem5)]
                /\ to_gem5'[i] \in Elems(ms)
  BY <1>1, <1>2 DEF Elems
<1>4. ASSUME NEW m \in Elems(to_gem5)' PROVE Gem5MsgOK(m)'
  <2>1. m \in Elems(to_gem5) \/ m \in Elems(ms)
    BY <1>3 DEF Elems
  <2>2. m \in Elems(to_gem5) => Gem5MsgOK(m)'
    BY Gem5MsgKept DEF Gem5Inv
  <2> QED
    BY <2>1, <2>2
<1>5. Gem5Apart'
  <2> SUFFICES ASSUME NEW i \in DOMAIN to_gem5', NEW j \in DOMAIN to_gem5', i # j,
                      to_gem5'[i].t \in Gem5Kinds, to_gem5'[j].t \in Gem5Kinds,
                      to_gem5'[i].n = to_gem5'[j].n
               PROVE  /\ to_gem5'[i].t = "dat" /\ to_gem5'[j].t = "dat"
                      /\ to_gem5'[i].dataid # to_gem5'[j].dataid
    BY DEF Gem5Apart
  <2>1. CASE i \in DOMAIN to_gem5 /\ j \in DOMAIN to_gem5
    BY <1>1, <2>1 DEF Gem5Inv, Gem5Apart
  <2>2. CASE i \in DOMAIN to_gem5 /\ j \notin DOMAIN to_gem5
    BY <1>3, <2>2
  <2>3. CASE i \notin DOMAIN to_gem5 /\ j \in DOMAIN to_gem5
    BY <1>3, <2>3
  <2>4. CASE i \notin DOMAIN to_gem5 /\ j \notin DOMAIN to_gem5
    <3>1. i - Len(to_gem5) # j - Len(to_gem5)
      BY <1>1
    <3> QED
      BY <1>2, <2>4, <3>1
  <2> QED
    BY <2>1, <2>2, <2>3, <2>4
<1>6. BeatsInOrder'
  <2> SUFFICES ASSUME NEW i \in DOMAIN to_gem5', to_gem5'[i].t = "dat",
                      to_gem5'[i].dataid # hnf'[to_gem5'[i].n].beats
               PROVE  \E j \in DOMAIN to_gem5' :
                         /\ j < i /\ to_gem5'[j].t = "dat" /\ to_gem5'[j].n = to_gem5'[i].n
                         /\ to_gem5'[j].dataid + 1 = to_gem5'[i].dataid
    BY DEF BeatsInOrder
  <2>1. CASE i \in DOMAIN to_gem5
    <3>1. to_gem5'[i] = to_gem5[i] /\ to_gem5[i] \in Elems(to_gem5)
      BY <1>1, <2>1 DEF Elems
    <3>2. hnf'[to_gem5[i].n].beats = hnf[to_gem5[i].n].beats
      BY <3>1, BeatsSame DEF Gem5Inv, Gem5Kinds
    <3>3. PICK j \in DOMAIN to_gem5 :
             /\ j < i /\ to_gem5[j].t = "dat" /\ to_gem5[j].n = to_gem5[i].n
             /\ to_gem5[j].dataid + 1 = to_gem5[i].dataid
      BY <2>1, <3>1, <3>2 DEF Gem5Inv, BeatsInOrder
    <3>4. j \in DOMAIN to_gem5' /\ to_gem5'[j] = to_gem5[j]
      BY <1>1
    <3> QED
      BY <3>1, <3>3, <3>4
  <2>2. CASE i \notin DOMAIN to_gem5
    <3> DEFINE k == i - Len(to_gem5)
    <3>1. k \in DOMAIN ms /\ to_gem5'[i] = ms[k] /\ ms[k] \in Elems(ms) /\ ms[k].n = n
      BY <1>2, <2>2 DEF Elems, Gem5Kinds
    <3>2. PICK j \in DOMAIN ms : /\ j < k /\ ms[j].t = "dat"
                                 /\ ms[j].dataid + 1 = ms[k].dataid
      BY <3>1
    <3>3. ms[j] \in Elems(ms) /\ ms[j].n = n
      BY <3>2 DEF Elems, Gem5Kinds
    <3>4. to_gem5'[Len(to_gem5) + j] = ms[j]
      BY <1>1
    <3>5. Len(to_gem5) + j \in DOMAIN to_gem5' /\ Len(to_gem5) + j < i
      BY <1>1, <3>2
    <3> QED
      BY <3>1, <3>2, <3>3, <3>4, <3>5
  <2> QED
    BY <2>1, <2>2
<1> QED
  BY <1>4, <1>5, <1>6 DEF Gem5Inv

LEMMA Gem5InvEmpty ==
    ASSUME to_gem5' = << >>
    PROVE  Gem5Inv'
<1>1. DOMAIN to_gem5' = {}
  BY ListEmpty
<1>2. Elems(to_gem5)' = {}
  BY <1>1 DEF Elems
<1> QED
  BY <1>1, <1>2 DEF Gem5Inv, Gem5Apart, BeatsInOrder

(***************************************************************************)
(* The accesses with the memory: none comes, one comes.                    *)
(***************************************************************************)
LEMMA MemInvKept ==
    ASSUME MemInv, accesses' \subseteq accesses,
           \A m \in accesses' : Same(m.n),
           \A o \in Elems(to_gem5)' :
               o.t = "mem" => o \in Elems(to_gem5) \/ \A m \in accesses' : m.n # o.n
    PROVE  MemInv'
<1>1. \A m \in accesses' : MemOK(m)'
  BY DEF MemInv, MemOK, Same
<1>2. ASSUME NEW m \in accesses', NEW o \in Elems(to_gem5)', o.t = "mem"
      PROVE  o.n # m.n
  BY <1>2 DEF MemInv
<1> QED
  BY <1>1, <1>2 DEF MemInv

LEMMA MemInvTaken ==
    ASSUME MemInv, NEW h \in Elems(to_gem5), h.t = "mem", MemOK(h),
           accesses' = accesses \cup {h},
           \A m \in accesses' : Same(m.n),
           \A o \in Elems(to_gem5)' :
               o \in Elems(to_gem5) /\ (o.t = "mem" => o.n # h.n)
    PROVE  MemInv'
<1>1. \A m \in accesses' : MemOK(m)
  BY DEF MemInv
<1>2. \A m \in accesses' : MemOK(m)'
  BY <1>1 DEF MemOK, Same
<1>3. ASSUME NEW m \in accesses', NEW o \in accesses', m.n = o.n
      PROVE  m = o
  BY <1>3 DEF MemInv
<1>4. ASSUME NEW m \in accesses', NEW o \in Elems(to_gem5)', o.t = "mem"
      PROVE  o.n # m.n
  BY <1>4 DEF MemInv
<1> QED
  BY <1>2, <1>3, <1>4 DEF MemInv

-------------------------------------------------------------------------------
LEMMA BeatsNat ==
    ASSUME NEW r \in Requests
    PROVE  beats_expected(r) \in Nat
<1>1. r.size \in Nat
  BY RequestsAssumption
<1> DEFINE b == r.size + 32 - 1
<1>2. b \in Nat
  BY <1>1
<1> HIDE DEF b
<1>3. b \div 32 \in Nat
  BY <1>2
<1> QED
  BY <1>3 DEF beats_expected, BEAT_BYTES, b

\* The subjects of the messages on their way are accesses.
LEMMA PeerSubject ==
    ASSUME FrameOK, NEW m, PeerMsgOK(m), m.t \in PeerKinds
    PROVE  Subject(m) \in Accesses
<1>1. CASE m.t = "mem_done"
  BY <1>1 DEF PeerMsgOK, Subject, FrameOK
<1>2. CASE m.t # "mem_done"
  BY <1>2 DEF PeerMsgOK, Subject, PeerKinds, Accesses
<1> QED
  BY <1>1, <1>2

LEMMA CallbackTyped ==
    ASSUME FrameOK, NEW k \in DOMAIN pending_mem
    PROVE  pending_mem[k] \in Callbacks /\ pending_mem[k].n \in Accesses
           /\ k \in 1 .. mem_id - 1
<1>1. pending_mem[k] \in Callbacks
  BY DEF FrameOK, TypeOK, Range
<1> QED
  BY <1>1 DEF FrameOK, TypeOK, Callbacks, Accesses

LEMMA Gem5Subject ==
    ASSUME FrameOK, NEW m, Gem5MsgOK(m), m.t \in Gem5Kinds
    PROVE  m.n \in Accesses
<1>1. CASE m.t = "mem"
  BY <1>1, CallbackTyped DEF Gem5MsgOK, MemOK
<1>2. CASE m.t # "mem"
  BY <1>2 DEF Gem5MsgOK, DatOK, Gem5Kinds, Accesses
<1> QED
  BY <1>1, <1>2

(***************************************************************************)
(* Steps that only move messages about no access: what is known of the     *)
(* accesses stays.                                                         *)
(***************************************************************************)
StateSame == UNCHANGED <<req, hnf, failed, bypass, byp, performed, found, got,
                         writes, pending_mem, dbid, mem_id>>

PeerQuiet ==
    \/ to_peer' = to_peer
    \/ to_peer' = << >>
    \/ to_peer # << >> /\ to_peer' = Tail(to_peer)
    \/ \E ms \in {<< >>, <<[t |-> "hello"]>>, <<[t |-> "sync"]>>, <<[t |-> "peer_closed"]>>,
                  <<[t |-> "bye"], [t |-> "peer_closed"]>>} :
          to_peer' = to_peer \o ms

Gem5Quiet ==
    \/ to_gem5' = to_gem5
    \/ to_gem5' = << >>
    \/ /\ to_gem5 # << >> /\ to_gem5' = Tail(to_gem5)
       /\ Head(to_gem5).t \notin Gem5Kinds
    \/ \E ms \in {<< >>, <<[t |-> "hello_ack"]>>, <<[t |-> "ack"]>>,
                  <<[t |-> "ack"], [t |-> "bye"]>>} :
          to_gem5' = to_gem5 \o ms

LEMMA ListControl ==
    ASSUME NEW kinds,
           NEW ms, \/ ms = << >>
                   \/ \E k \in kinds : ms = <<[t |-> k]>>
                   \/ \E k, l \in kinds : ms = <<[t |-> k], [t |-> l]>>
    PROVE  ms \in Seq(Elems(ms)) /\ \A o \in Elems(ms) : o.t \in kinds
<1>1. CASE ms = << >>
  BY <1>1, ListEmpty DEF Elems
<1>2. ASSUME NEW k \in kinds, ms = <<[t |-> k]>>
      PROVE  ms \in Seq(Elems(ms)) /\ \A o \in Elems(ms) : o.t \in kinds
  <2> DEFINE a == [t |-> k]
  <2>1. a.t \in kinds /\ ms = <<a>>
    BY <1>2
  <2> HIDE DEF a
  <2> QED
    BY <2>1, ListOne DEF Elems
<1>3. ASSUME NEW k \in kinds, NEW l \in kinds, ms = <<[t |-> k], [t |-> l]>>
      PROVE  ms \in Seq(Elems(ms)) /\ \A o \in Elems(ms) : o.t \in kinds
  <2> DEFINE a == [t |-> k]
             b == [t |-> l]
  <2>1. a.t \in kinds /\ b.t \in kinds /\ ms = <<a, b>>
    BY <1>3
  <2> HIDE DEF a, b
  <2>2. /\ <<a, b>> \in Seq(Elems(<<a, b>>)) /\ DOMAIN <<a, b>> = {1, 2}
        /\ <<a, b>>[1] = a /\ <<a, b>>[2] = b
    BY ListTwo
  <2> QED
    BY <2>1, <2>2 DEF Elems
<1> QED
  BY <1>1, <1>2, <1>3

LEMMA QuietStep ==
    ASSUME PeerSimInv, StateSame, PeerQuiet, Gem5Quiet,
           accesses' \subseteq accesses,
           peer_pc' \in {"hello", "serve", "exit0", "exit1", "broken"},
           syncs' \in 0 .. MaxSyncs, PeerUp' => syncs' < MaxSyncs,
           g5' \in {"start", "hello", "run", "gone"}, syncing' \in BOOLEAN
    PROVE  PeerSimInv'
<1> USE DEF PeerSimInv
<1>1. \A n : Same(n)
  BY DEF StateSame, Same
<1>2. ASSUME NEW n \in Accesses PROVE AccessInv(n)'
  BY <1>1, AccessKept DEF StateSame
<1>3. PeerInv' /\ to_peer' \in Seq(Elems(to_peer'))
  <2>1. CASE to_peer' = to_peer
    BY <1>1, <2>1, PeerInvSame DEF FrameOK
  <2>2. CASE to_peer' = << >>
    BY <2>2, PeerInvEmpty, ListEmpty
  <2>3. CASE to_peer # << >> /\ to_peer' = Tail(to_peer)
    BY <1>1, <2>3, PeerInvTail, ListTail DEF FrameOK
  <2>4. ASSUME NEW ms \in {<< >>, <<[t |-> "hello"]>>, <<[t |-> "sync"]>>,
                           <<[t |-> "peer_closed"]>>,
                           <<[t |-> "bye"], [t |-> "peer_closed"]>>},
               to_peer' = to_peer \o ms
        PROVE  PeerInv' /\ to_peer' \in Seq(Elems(to_peer'))
    <3>1. ms \in Seq(Elems(ms))
          /\ \A o \in Elems(ms) : o.t \in {"hello", "sync", "bye", "peer_closed"}
      BY ListControl
    <3>2. \A o \in Elems(ms) : PeerMsgOK(o)' /\ o.t \notin PeerKinds
      BY <3>1 DEF PeerMsgOK, PeerKinds
    <3>3. \A i \in DOMAIN ms : ms[i].t \notin PeerKinds
      BY <3>2 DEF Elems
    <3>4. to_peer' \in Seq(Elems(to_peer'))
      BY <2>4, <3>1, ListConcat DEF FrameOK
    <3> QED
      BY <1>1, <2>4, <3>1, <3>2, <3>3, <3>4, PeerInvConcat
  <2> QED
    BY <2>1, <2>2, <2>3, <2>4 DEF PeerQuiet
<1>4. /\ Gem5Inv' /\ to_gem5' \in Seq(Elems(to_gem5'))
      /\ \A o \in Elems(to_gem5)' : o.t = "mem" => o \in Elems(to_gem5)
  <2>1. CASE to_gem5' = to_gem5
    BY <1>1, <2>1, Gem5InvSame DEF FrameOK, StateSame, Elems
  <2>2. CASE to_gem5' = << >>
    BY <2>2, Gem5InvEmpty, ListEmpty DEF Elems
  <2>3. CASE /\ to_gem5 # << >> /\ to_gem5' = Tail(to_gem5)
             /\ Head(to_gem5).t \notin Gem5Kinds
    <3>1. Head(to_gem5).t # "dat"
      BY <2>3 DEF Gem5Kinds
    <3> QED
      BY <1>1, <2>3, <3>1, Gem5InvTail, ListTail DEF FrameOK, StateSame
  <2>4. ASSUME NEW ms \in {<< >>, <<[t |-> "hello_ack"]>>, <<[t |-> "ack"]>>,
                           <<[t |-> "ack"], [t |-> "bye"]>>},
               to_gem5' = to_gem5 \o ms
        PROVE  /\ Gem5Inv' /\ to_gem5' \in Seq(Elems(to_gem5'))
               /\ \A o \in Elems(to_gem5)' : o.t = "mem" => o \in Elems(to_gem5)
    <3>1. ms \in Seq(Elems(ms))
          /\ \A o \in Elems(ms) : o.t \in {"hello_ack", "ack", "bye"}
      BY ListControl
    <3>2. \A o \in Elems(ms) : Gem5MsgOK(o)' /\ o.t \notin Gem5Kinds
      BY <3>1 DEF Gem5MsgOK, Gem5Kinds
    <3>3. \A i \in DOMAIN ms : ms[i].t \notin Gem5Kinds
      BY <3>2 DEF Elems
    <3>4. Gem5Inv'
      <4>1. PICK none : \A m \in Elems(to_gem5) : m.n # none
        <5>1. PICK x : x \notin {m.n : m \in Elems(to_gem5)}
          BY NoSetContainsEverything
        <5> QED
          BY <5>1
      <4>2. \A i \in DOMAIN ms : ms[i].t # "dat"
        BY <3>3 DEF Gem5Kinds
      <4> QED
        BY <1>1, <2>4, <3>1, <3>2, <3>3, <4>1, <4>2, Gem5InvConcat DEF StateSame
    <3>5. to_gem5' \in Seq(Elems(to_gem5'))
      BY <2>4, <3>1, ListConcat DEF FrameOK
    <3>6. Elems(to_gem5)' \subseteq Elems(to_gem5) \cup Elems(ms)
      BY <2>4, <3>1, ConcatElems DEF FrameOK
    <3> QED
      BY <3>2, <3>4, <3>5, <3>6 DEF Gem5Kinds
  <2> QED
    BY <2>1, <2>2, <2>3, <2>4 DEF Gem5Quiet
<1>5. MemInv'
  BY <1>1, <1>4, MemInvKept
<1>6. FrameOK'
  BY <1>3, <1>4 DEF FrameOK, TypeOK, HnfTypeOK, StateSame
<1> QED
  BY <1>2, <1>3, <1>4, <1>5, <1>6

LEMMA ConcatTwo ==
    ASSUME NEW s, s \in Seq(Elems(s)), NEW a, NEW b
    PROVE  /\ (s \o << >>) \o <<b>> = s \o <<b>>
           /\ (s \o <<a>>) \o <<b>> = s \o <<a, b>>
<1> DEFINE S == Elems(s) \cup {a, b}
<1>1. s \in Seq(S) /\ <<a>> \in Seq(S) /\ <<b>> \in Seq(S)
  BY SeqMonotonic
<1>2. <<a>> \o <<b>> = <<a, b>>
  <2>1. /\ <<a>> \in Seq({a, b}) /\ <<b>> \in Seq({a, b}) /\ <<a, b>> \in Seq({a, b})
        /\ Len(<<a>>) = 1 /\ Len(<<b>>) = 1 /\ Len(<<a, b>>) = 2
        /\ <<a>>[1] = a /\ <<b>>[1] = b /\ <<a, b>>[1] = a /\ <<a, b>>[2] = b
    OBVIOUS
  <2> DEFINE x == <<a>>
             y == <<b>>
             z == <<a, b>>
  <2> HIDE DEF x, y, z
  <2>2. /\ x \o y \in Seq({a, b}) /\ Len(x \o y) = Len(x) + Len(y)
        /\ \A i \in 1 .. Len(x) + Len(y) : (x \o y)[i] =
                     IF i <= Len(x) THEN x[i] ELSE y[i - Len(x)]
    BY <2>1, ConcatProperties DEF x, y, z
  <2>3. z \in Seq({a, b}) /\ Len(z) = 2 /\ Len(x) = 1 /\ Len(y) = 1
        /\ x[1] = z[1] /\ y[1] = z[2]
    BY <2>1 DEF x, y, z
  <2>4. Len(x \o y) = Len(z) /\ \A i \in 1 .. Len(x \o y) : (x \o y)[i] = z[i]
    BY <2>2, <2>3
  <2>5. x \o y = z
    BY <2>2, <2>3, <2>4, SeqEqual
  <2> QED
    BY <2>5 DEF x, y, z
<1> HIDE DEF S
<1>3. s \o << >> = s
  BY <1>1, ConcatEmptySeq
<1>4. (s \o <<a>>) \o <<b>> = s \o (<<a>> \o <<b>>)
  BY <1>1, ConcatAssociative
<1> QED
  BY <1>2, <1>3, <1>4

LEMMA EndsInv ==
    ASSUME PeerSimInv, NEW code \in {"exit1", "broken"}, PeerEnds(code)
    PROVE  PeerSimInv'
<1>1. PeerQuiet /\ Gem5Quiet
  BY DEF PeerQuiet, Gem5Quiet, PeerEnds
<1>2. StateSame /\ accesses' = accesses
  BY DEF StateSame, PeerEnds, memoryless, ddrVars, g5Vars, hnfVars
<1>3. peer_pc' = code /\ syncs' = syncs /\ g5' = g5 /\ syncing' = syncing
  BY DEF PeerEnds, g5Vars
<1>4. syncs' \in 0 .. MaxSyncs /\ g5' \in {"start", "hello", "run", "gone"}
      /\ syncing' \in BOOLEAN
  BY <1>3 DEF PeerSimInv, FrameOK, TypeOK
<1>5. ~PeerUp'
  BY <1>3 DEF PeerUp
<1> QED
  BY <1>1, <1>2, <1>3, <1>4, <1>5, QuietStep

LEMMA HelloInv ==
    ASSUME PeerSimInv, PeerHello
    PROVE  PeerSimInv'
<1> USE DEF PeerSimInv
<1>1. to_peer # << >>
  BY DEF PeerHello
<1>2. PeerUp /\ syncs < MaxSyncs
  BY DEF PeerHello, PeerUp, FrameOK
<1>3. CASE /\ Answer(<<[t |-> "hello_ack"]>>) /\ peer_pc' = "serve"
           /\ memoryless /\ UNCHANGED <<syncs, ddrVars, g5Vars>>
  <2>1. PeerQuiet /\ Gem5Quiet
    BY <1>1, <1>3 DEF PeerQuiet, Gem5Quiet, Answer
  <2>2. StateSame /\ accesses' = accesses
    BY <1>3 DEF StateSame, memoryless, ddrVars, g5Vars, hnfVars
  <2>3. peer_pc' = "serve" /\ syncs' = syncs /\ g5' = g5 /\ syncing' = syncing
    BY <1>3 DEF g5Vars
  <2>4. syncs' \in 0 .. MaxSyncs /\ g5' \in {"start", "hello", "run", "gone"}
        /\ syncing' \in BOOLEAN
    BY <2>3 DEF FrameOK, TypeOK
  <2> QED
    BY <1>2, <2>1, <2>2, <2>3, <2>4, QuietStep
<1>4. CASE PeerEnds("exit1")
  BY <1>4, EndsInv
<1> QED
  BY <1>3, <1>4 DEF PeerHello

LEMMA StartsInv ==
    ASSUME PeerSimInv, Gem5Starts
    PROVE  PeerSimInv'
<1>1. to_peer' = to_peer \o <<[t |-> "hello"]>>
  BY ListAppend DEF PeerSimInv, FrameOK, Gem5Starts
<1>2. PeerQuiet /\ Gem5Quiet
  BY <1>1 DEF PeerQuiet, Gem5Quiet, Gem5Starts
<1>3. StateSame /\ accesses' = accesses
  BY DEF StateSame, Gem5Starts, peerVars, ddrVars, hnfVars
<1>4. peer_pc' = peer_pc /\ syncs' = syncs /\ g5' = "hello" /\ syncing' = syncing
  BY DEF Gem5Starts, peerVars
<1>5. /\ peer_pc' \in {"hello", "serve", "exit0", "exit1", "broken"}
      /\ syncs' \in 0 .. MaxSyncs /\ (PeerUp' => syncs' < MaxSyncs)
      /\ syncing' \in BOOLEAN
  BY <1>4 DEF PeerSimInv, FrameOK, TypeOK, PeerUp
<1> QED
  BY <1>2, <1>3, <1>4, <1>5, QuietStep

LEMMA SyncInv ==
    ASSUME PeerSimInv, Gem5Sync
    PROVE  PeerSimInv'
<1>1. to_peer' = to_peer \o <<[t |-> "sync"]>>
  BY ListAppend DEF PeerSimInv, FrameOK, Gem5Sync, Gem5Sends
<1>2. PeerQuiet /\ Gem5Quiet
  BY <1>1 DEF PeerQuiet, Gem5Quiet, Gem5Sync
<1>3. StateSame /\ accesses' = accesses
  BY DEF StateSame, Gem5Sync, peerVars, ddrVars, hnfVars
<1>4. peer_pc' = peer_pc /\ syncs' = syncs /\ g5' = g5 /\ syncing' = TRUE
  BY DEF Gem5Sync, peerVars
<1>5. /\ peer_pc' \in {"hello", "serve", "exit0", "exit1", "broken"}
      /\ syncs' \in 0 .. MaxSyncs /\ (PeerUp' => syncs' < MaxSyncs)
      /\ g5' \in {"start", "hello", "run", "gone"}
  BY <1>4 DEF PeerSimInv, FrameOK, TypeOK, PeerUp
<1> QED
  BY <1>2, <1>3, <1>4, <1>5, QuietStep

LEMMA LeavesInv ==
    ASSUME PeerSimInv, Gem5Leaves
    PROVE  PeerSimInv'
<1>1. PeerQuiet
  <2>1. PICK last \in {<< >>, <<[t |-> "bye"]>>} :
          to_peer' = IF PeerUp THEN to_peer \o last \o <<[t |-> "peer_closed"]>>
                               ELSE to_peer
    BY DEF Gem5Leaves
  <2> DEFINE b == [t |-> "bye"]
             c == [t |-> "peer_closed"]
  <2>2. to_peer \in Seq(Elems(to_peer))
    BY DEF PeerSimInv, FrameOK
  <2>3. /\ (to_peer \o << >>) \o <<c>> = to_peer \o <<c>>
        /\ (to_peer \o <<b>>) \o <<c>> = to_peer \o <<b, c>>
    BY <2>2, ConcatTwo
  <2>4. to_peer' = to_peer \/ to_peer' = to_peer \o <<c>> \/ to_peer' = to_peer \o <<b, c>>
    BY <2>1, <2>3
  <2> QED
    BY <2>4 DEF PeerQuiet
<1>2. Gem5Quiet
  BY DEF Gem5Quiet, Gem5Leaves
<1>3. StateSame /\ accesses' \subseteq accesses
  BY DEF StateSame, Gem5Leaves, peerVars, hnfVars
<1>4. peer_pc' = peer_pc /\ syncs' = syncs /\ g5' = "gone" /\ syncing' = syncing
  BY DEF Gem5Leaves, peerVars
<1>5. /\ peer_pc' \in {"hello", "serve", "exit0", "exit1", "broken"}
      /\ syncs' \in 0 .. MaxSyncs /\ (PeerUp' => syncs' < MaxSyncs)
      /\ syncing' \in BOOLEAN
  BY <1>4 DEF PeerSimInv, FrameOK, TypeOK, PeerUp
<1> QED
  BY <1>1, <1>2, <1>3, <1>4, <1>5, QuietStep

(***************************************************************************)
(* The handlers that answer about no access: sync, an unsupported request, *)
(* data of a write that is not known, and the end of gem5.                 *)
(***************************************************************************)
LEMMA OnSyncInv ==
    ASSUME PeerSimInv, peer_pc = "serve", to_peer # << >>,
           on_sync, UNCHANGED <<ddrVars, g5Vars>>
    PROVE  PeerSimInv'
<1>1. PeerQuiet /\ Gem5Quiet
  BY DEF PeerQuiet, Gem5Quiet, on_sync, Answer
<1>2. StateSame /\ accesses' = accesses
  BY DEF StateSame, on_sync, memoryless, ddrVars, g5Vars, hnfVars
<1>3. g5' = g5 /\ syncing' = syncing
  BY DEF g5Vars
<1>4. g5' \in {"start", "hello", "run", "gone"} /\ syncing' \in BOOLEAN
  BY <1>3 DEF PeerSimInv, FrameOK, TypeOK
<1>5. syncs < MaxSyncs /\ syncs \in Nat /\ MaxSyncs \in Nat
  BY PeerAssumption DEF PeerSimInv, FrameOK, TypeOK, PeerUp
<1>6. /\ peer_pc' \in {"hello", "serve", "exit0", "exit1", "broken"}
      /\ syncs' \in 0 .. MaxSyncs /\ (PeerUp' => syncs' < MaxSyncs)
  BY <1>5 DEF on_sync, PeerUp
<1> QED
  BY <1>1, <1>2, <1>4, <1>6, QuietStep

LEMMA SilentHandlerInv ==
    ASSUME PeerSimInv, peer_pc = "serve", to_peer # << >>,
           \/ /\ Answer(<< >>) /\ UNCHANGED peer_pc
           \/ /\ to_peer' = << >> /\ UNCHANGED to_gem5 /\ peer_pc' = "exit0",
           memoryless, UNCHANGED <<syncs, ddrVars, g5Vars>>
    PROVE  PeerSimInv'
<1>1. PeerQuiet /\ Gem5Quiet
  BY DEF PeerQuiet, Gem5Quiet, Answer
<1>2. StateSame /\ accesses' = accesses
  BY DEF StateSame, memoryless, ddrVars, g5Vars, hnfVars
<1>3. g5' = g5 /\ syncing' = syncing
  BY DEF g5Vars
<1>4. /\ g5' \in {"start", "hello", "run", "gone"} /\ syncing' \in BOOLEAN
      /\ syncs' \in 0 .. MaxSyncs
  BY <1>3 DEF PeerSimInv, FrameOK, TypeOK
<1>5. syncs' < MaxSyncs /\ peer_pc' \in {"hello", "serve", "exit0", "exit1", "broken"}
  BY DEF PeerSimInv, FrameOK, TypeOK, PeerUp
<1> QED
  BY <1>1, <1>2, <1>4, <1>5, QuietStep

-------------------------------------------------------------------------------
(***************************************************************************)
(* Where n is not: what the two ends know of n excludes every other place. *)
(***************************************************************************)
LEMMA NotToPeer ==
    ASSUME PeerSimInv, NEW n \in Accesses,
           \/ Served1(n)
           \/ Busy(n) /\ n \notin performed
           \/ /\ Untouched(n)
              /\ n \in Txns => \/ hnf[n].phase \in {"unsent", "wait_data"}
                               \/ hnf[n].phase = "wait_dbid" /\ n \in DOMAIN writes
              /\ n \in Pkts => byp[n] = "unsent"
    PROVE  \A m \in Elems(to_peer) : m.t \in PeerKinds => Subject(m) # n
<1> SUFFICES ASSUME NEW m \in Elems(to_peer), m.t \in PeerKinds, Subject(m) = n
             PROVE  FALSE
  OBVIOUS
<1>1. PeerMsgOK(m)
  BY DEF PeerSimInv, PeerInv
<1>2. Txns \cap Pkts = {}
  BY PeerAssumption
<1>3. CASE m.t = "req"
  <2>1. m.n = n /\ n \in Txns
    BY <1>1, <1>3 DEF PeerMsgOK, Subject
  <2> QED
    BY <1>1, <1>3, <2>1 DEF PeerMsgOK, Untouched, Served1
<1>4. CASE m.t = "dat"
  <2>1. m.n = n /\ n \in Txns
    BY <1>1, <1>4 DEF PeerMsgOK, Subject
  <2> QED
    BY <1>1, <1>4, <2>1 DEF PeerMsgOK, Untouched, Served1
<1>5. CASE m.t = "bypass"
  <2>1. m.n = n /\ n \in Pkts
    BY <1>1, <1>5 DEF PeerMsgOK, Subject
  <2> QED
    BY <1>1, <1>2, <1>5, <2>1 DEF PeerMsgOK, Untouched, Served1
<1>6. CASE m.t = "mem_done"
  BY <1>1, <1>6 DEF PeerMsgOK, Subject, Untouched, Served1, Busy
<1> QED
  BY <1>3, <1>4, <1>5, <1>6 DEF PeerKinds

LEMMA NotToGem5 ==
    ASSUME PeerSimInv, NEW n \in Accesses,
           \/ Busy(n) /\ n \in performed
           \/ /\ Untouched(n)
              /\ n \in Txns => hnf[n].phase # "wait_dbid" \/ n \notin DOMAIN writes
    PROVE  \A m \in Elems(to_gem5) : m.t \in Gem5Kinds => m.n # n
<1> SUFFICES ASSUME NEW m \in Elems(to_gem5), m.t \in Gem5Kinds, m.n = n
             PROVE  FALSE
  OBVIOUS
<1>1. Gem5MsgOK(m)
  BY DEF PeerSimInv, Gem5Inv
<1>2. CASE m.t = "mem"
  BY <1>1, <1>2 DEF Gem5MsgOK, MemOK, Untouched, Busy
<1>3. CASE m.t = "rsp"
  BY <1>1, <1>3 DEF Gem5MsgOK, Untouched, Served1
<1>4. CASE m.t = "dat"
  BY <1>1, <1>4 DEF Gem5MsgOK, DatOK, Untouched, Served1
<1>5. CASE m.t = "bypass_resp"
  BY <1>1, <1>5 DEF Gem5MsgOK, Untouched, Served1
<1> QED
  BY <1>2, <1>3, <1>4, <1>5 DEF Gem5Kinds

LEMMA NotAtMemory ==
    ASSUME PeerSimInv, NEW n, ~Busy(n) \/ n \in performed
    PROVE  \A m \in accesses : m.n # n
BY DEF PeerSimInv, MemInv, MemOK, Busy

\* Whatever the rest of the step does, if only n changes then what is about
\* other accesses stays.
LEMMA OthersSame ==
    ASSUME PeerSimInv, NEW n, \A x \in Accesses : x # n => Same(x)
    PROVE  /\ \A m \in Elems(to_peer) :
                 m.t \in PeerKinds /\ Subject(m) # n => Same(Subject(m))
           /\ \A m \in Elems(to_gem5) : m.t \in Gem5Kinds /\ m.n # n => Same(m.n)
           /\ \A m \in accesses : m.n # n => Same(m.n)
<1>1. ASSUME NEW m \in Elems(to_peer), m.t \in PeerKinds PROVE Subject(m) \in Accesses
  BY <1>1, PeerSubject DEF PeerSimInv, PeerInv
<1>2. ASSUME NEW m \in Elems(to_gem5), m.t \in Gem5Kinds PROVE m.n \in Accesses
  BY <1>2, Gem5Subject DEF PeerSimInv, Gem5Inv
<1>3. ASSUME NEW m \in accesses PROVE m.n \in Accesses
  BY CallbackTyped DEF PeerSimInv, MemInv, MemOK
<1> QED
  BY <1>1, <1>2, <1>3

-------------------------------------------------------------------------------
(***************************************************************************)
(* mem_read and mem_write, for a request, for write data, for a packet.    *)
(***************************************************************************)
LEMMA MemAccessInv ==
    ASSUME PeerSimInv, NEW n \in Accesses, NEW cb \in Callbacks, cb.n = n,
           to_peer # << >>, NEW h, h = Head(to_peer),
           h.t \in PeerKinds, Subject(h) = n,
           Untouched(n), mem_access(n, cb),
           UNCHANGED <<dbid, writes, peer_pc, syncs, ddrVars, g5Vars>>,
           n \in Txns => hnf[n].phase \in {"read", "wait_comp"},
           n \in Pkts => byp[n] = "sent",
           cb.t = "CompData" => n \in Txns /\ hnf[n].phase = "read",
           cb.t = "Comp" => /\ n \in Txns /\ hnf[n].phase = "wait_comp"
                            /\ cb.dbid = hnf[n].dbid,
           cb.t = "bypass_resp" => n \in Pkts
    PROVE  PeerSimInv'
<1> USE DEF PeerSimInv
<1>1. /\ DOMAIN pending_mem' = DOMAIN pending_mem \cup {mem_id}
      /\ pending_mem'[mem_id] = cb
      /\ \A k \in DOMAIN pending_mem : k # mem_id => pending_mem'[k] = pending_mem[k]
  <2>1. pending_mem' = Put(pending_mem, mem_id, cb)
    BY DEF mem_access
  <2> QED
    BY <2>1 DEF Put
<1>2. mem_id \in Nat \ {0} /\ mem_id \notin DOMAIN pending_mem
  BY DEF FrameOK, TypeOK
<1>3. UNCHANGED <<req, hnf, failed, bypass, byp, g5, syncing, got, accesses, mem,
                  performed, found, dbid, writes, peer_pc, syncs>>
  BY DEF ddrVars, g5Vars, hnfVars
<1>4. \A x \in Accesses : x # n => Same(x)
  BY <1>1, <1>2, <1>3 DEF Same
<1>6. PICK a : a = [t |-> "mem", id |-> mem_id, n |-> n]
  OBVIOUS
<1>5. to_peer' = Tail(to_peer) /\ to_gem5' = to_gem5 \o <<a>> /\ mem_id' = mem_id + 1
  BY <1>6 DEF mem_access, Answer
<1>7. a.t = "mem" /\ a.id = mem_id /\ a.n = n
  BY <1>6
<1>16. MemOK(a)'
  BY <1>1, <1>3, <1>7 DEF MemOK, Untouched
<1>8. PeerInv' /\ to_peer' \in Seq(Elems(to_peer'))
  <2>1. \A m \in Elems(to_peer) :
               m.t \in PeerKinds /\ ~(h.t \in PeerKinds /\ Subject(m) = Subject(h))
                   => Same(Subject(m))
    BY <1>4, OthersSame
  <2> QED
    BY <1>5, <2>1, PeerInvTail, ListTail DEF FrameOK
<1>9. \A m \in Elems(to_gem5) : m.t \in Gem5Kinds => m.n # n /\ Same(m.n)
  <2>1. \A m \in Elems(to_gem5) : m.t \in Gem5Kinds => m.n # n
    <3>1. n \in Txns => hnf[n].phase # "wait_dbid"
      OBVIOUS
    <3> QED
      BY <3>1, NotToGem5
  <2> QED
    BY <1>4, <2>1, OthersSame
<1>10. /\ <<a>> \in Seq(Elems(<<a>>)) /\ DOMAIN <<a>> = {1} /\ <<a>>[1] = a
       /\ Elems(<<a>>) = {a}
  BY ListOne DEF Elems
<1>11. Gem5Inv' /\ to_gem5' \in Seq(Elems(to_gem5'))
       /\ Elems(to_gem5)' = Elems(to_gem5) \cup {a}
  <2>1. \A o \in Elems(<<a>>) : Gem5MsgOK(o)' /\ (o.t \in Gem5Kinds => o.n = n)
    BY <1>7, <1>16, <1>10 DEF Gem5MsgOK, Gem5Kinds
  <2>2. \A i \in DOMAIN <<a>> : <<a>>[i].t # "dat"
    BY <1>7, <1>10
  <2>3. Gem5Inv'
    BY <1>3, <1>5, <1>9, <1>10, <2>1, <2>2, Gem5InvConcat, ZenonT(40)
  <2>4. to_gem5' \in Seq(Elems(to_gem5'))
    BY <1>5, <1>10, ListConcat DEF FrameOK
  <2>5. Elems(to_gem5') = Elems(to_gem5) \cup Elems(<<a>>)
    BY <1>5, <1>10, ConcatElems DEF FrameOK
  <2> QED
    BY <1>10, <2>3, <2>4, <2>5
<1>12. MemInv'
  <2>1. \A m \in accesses : m.n # n
    BY NotAtMemory DEF Untouched
  <2>2. \A m \in accesses' : Same(m.n) /\ m.n # a.n
    BY <1>3, <1>4, <1>7, <2>1, OthersSame
  <2> QED
    BY <1>3, <1>11, <2>2, MemInvKept
<1>13. AccessInv(n)'
  <2>1. AccessInv(n) /\ ~Busy(n) /\ n \notin performed
    BY DEF Untouched
  <2>2. \A k \in DOMAIN pending_mem' : pending_mem'[k].n = n => k = mem_id
    BY <1>1, <2>1 DEF Busy
  <2>3. n \in Txns => hnf[n].completed = 0 /\ hnf[n].beats = 0
    BY <2>1 DEF AccessInv, EntryInv, Served1
  <2>4. CallbackInv(n)'
    BY <1>1, <1>3, <2>2, <2>3 DEF CallbackInv
  <2>5. FoundInv(n)'
    <3>1. Burst(n)' = Burst(n)
      BY <1>3 DEF Burst, blocks_asked, bytes_asked, beats_expected
    <3> QED
      BY <1>3, <2>1, <3>1 DEF AccessInv, FoundInv
  <2>6. ASSUME n \in Txns PROVE EntryInv(n)'
    <3>1. EntryInv(n) /\ hnf[n].phase \in {"read", "wait_comp"} /\ hnf[n].completed = 0
      BY <2>1, <2>3, <2>6 DEF AccessInv
    <3>2. beats_expected(req[n])' = beats_expected(req[n])
      BY <1>3 DEF beats_expected
    <3>3. /\ hnf'[n] = hnf[n] /\ req'[n] = req[n] /\ writes' = writes
          /\ performed' = performed /\ got'[n] = got[n] /\ found'[n] = found[n]
      BY <1>3
    <3>4. /\ hnf'[n].phase \notin {"unsent", "other", "wait_dbid", "wait_data"}
          /\ hnf'[n].completed # 1
      BY <3>1, <3>3
    <3> QED
      BY <3>1, <3>2, <3>3, <3>4 DEF EntryInv
  <2>7. ASSUME n \in Pkts PROVE PktInv(n)'
    BY <1>3, <2>7 DEF PktInv
  <2> QED
    BY <2>4, <2>5, <2>6, <2>7 DEF AccessInv
<1>14. \A x \in Accesses : AccessInv(x)'
  BY <1>3, <1>4, <1>13, AccessKept
<1>15. FrameOK'
  <2>1. Range(pending_mem)' \subseteq Callbacks
    BY <1>1, <1>2 DEF FrameOK, TypeOK, Range
  <2>2. DOMAIN pending_mem' \subseteq 1 .. mem_id' - 1 /\ mem_id' \in Nat \ {0}
    BY <1>1, <1>2, <1>5 DEF FrameOK, TypeOK
  <2> QED
    BY <1>3, <1>8, <1>11, <2>1, <2>2 DEF FrameOK, TypeOK, HnfTypeOK, PeerUp
<1> QED
  BY <1>8, <1>11, <1>12, <1>14, <1>15

LEMMA OnReqReadInv ==
    ASSUME PeerSimInv, peer_pc = "serve", to_peer # << >>,
           NEW h, h = Head(to_peer), h.t = "req", req[h.n].op = "read",
           mem_access(h.n, [t |-> "CompData", n |-> h.n]),
           UNCHANGED <<dbid, writes, peer_pc, syncs, ddrVars, g5Vars>>
    PROVE  PeerSimInv'
<1>1. h \in Elems(to_peer) /\ PeerMsgOK(h)
  BY ListTail DEF PeerSimInv, FrameOK, PeerInv, Elems
<1>2. /\ h.n \in Txns /\ h.n \in Accesses /\ Untouched(h.n)
      /\ hnf[h.n].phase \in {"read", "wait_dbid", "other"}
  BY <1>1 DEF PeerMsgOK, Accesses
<1>3. hnf[h.n].phase = "read"
  <2>1. EntryInv(h.n)
    BY <1>2 DEF PeerSimInv, AccessInv
  <2> QED
    BY <1>2, <2>1 DEF EntryInv
<1> DEFINE cb == [t |-> "CompData", n |-> h.n]
<1>4. cb \in Callbacks /\ cb.n = h.n /\ cb.t = "CompData"
  BY <1>2 DEF Callbacks
<1>5. h.t \in PeerKinds /\ Subject(h) = h.n
  BY DEF PeerKinds, Subject
<1>6. h.n \notin Pkts
  BY <1>2, PeerAssumption
<1> HIDE DEF cb
<1>7. mem_access(h.n, cb)
  BY DEF cb
<1> QED
  BY <1>2, <1>3, <1>4, <1>5, <1>6, <1>7, MemAccessInv

LEMMA OnDatInv ==
    ASSUME PeerSimInv, peer_pc = "serve", to_peer # << >>,
           NEW h, h = Head(to_peer), h.t = "dat", h.n \in DOMAIN writes,
           mem_access(h.n, [t |-> "Comp", n |-> h.n, dbid |-> writes[h.n]]),
           UNCHANGED <<dbid, writes, peer_pc, syncs, ddrVars, g5Vars>>
    PROVE  PeerSimInv'
<1>1. h \in Elems(to_peer) /\ PeerMsgOK(h)
  BY ListTail DEF PeerSimInv, FrameOK, PeerInv, Elems
<1>2. /\ h.n \in Txns /\ h.n \in Accesses /\ Untouched(h.n)
      /\ hnf[h.n].phase = "wait_comp"
  BY <1>1 DEF PeerMsgOK, Accesses
<1>3. writes[h.n] = hnf[h.n].dbid
  <2>1. EntryInv(h.n)
    BY <1>2 DEF PeerSimInv, AccessInv
  <2> QED
    BY <1>2, <2>1 DEF EntryInv
<1>4. writes[h.n] \in 1 .. MaxDbid
  BY DEF PeerSimInv, FrameOK, TypeOK, Range
<1> DEFINE cb == [t |-> "Comp", n |-> h.n, dbid |-> writes[h.n]]
<1>5. cb \in Callbacks /\ cb.n = h.n /\ cb.t = "Comp" /\ cb.dbid = hnf[h.n].dbid
  BY <1>2, <1>3, <1>4 DEF Callbacks
<1>6. h.t \in PeerKinds /\ Subject(h) = h.n
  BY DEF PeerKinds, Subject
<1>7. h.n \notin Pkts
  BY <1>2, PeerAssumption
<1> HIDE DEF cb
<1>8. mem_access(h.n, cb)
  BY DEF cb
<1> QED
  BY <1>2, <1>3, <1>5, <1>6, <1>7, <1>8, MemAccessInv

LEMMA OnBypassInv ==
    ASSUME PeerSimInv, peer_pc = "serve", to_peer # << >>,
           NEW h, h = Head(to_peer), h.t = "bypass",
           mem_access(h.n, [t |-> "bypass_resp", n |-> h.n]),
           UNCHANGED <<dbid, writes, peer_pc, syncs, ddrVars, g5Vars>>
    PROVE  PeerSimInv'
<1>1. h \in Elems(to_peer) /\ PeerMsgOK(h)
  BY ListTail DEF PeerSimInv, FrameOK, PeerInv, Elems
<1>2. h.n \in Pkts /\ h.n \in Accesses /\ Untouched(h.n) /\ byp[h.n] = "sent"
  BY <1>1 DEF PeerMsgOK, Accesses
<1> DEFINE cb == [t |-> "bypass_resp", n |-> h.n]
<1>3. cb \in Callbacks /\ cb.n = h.n /\ cb.t = "bypass_resp"
  BY <1>2 DEF Callbacks
<1>4. h.t \in PeerKinds /\ Subject(h) = h.n
  BY DEF PeerKinds, Subject
<1>5. h.n \notin Txns
  BY <1>2, PeerAssumption
<1> HIDE DEF cb
<1>6. mem_access(h.n, cb)
  BY DEF cb
<1> QED
  BY <1>2, <1>3, <1>4, <1>5, <1>6, MemAccessInv

(***************************************************************************)
(* A write request gets a dbid, which is not 0.                            *)
(***************************************************************************)
LEMMA NextDbidInRange ==
    ASSUME FrameOK
    PROVE  next_dbid \in 1 .. MaxDbid
<1>1. dbid \in Nat /\ MaxDbid \in Nat \ {0}
  BY PeerAssumption DEF FrameOK, TypeOK
<1> DEFINE r == dbid % MaxDbid
<1>2. r \in 0 .. MaxDbid - 1
  BY <1>1
<1> HIDE DEF r
<1>3. r + 1 \in 1 .. MaxDbid
  BY <1>1, <1>2
<1> QED
  BY <1>3 DEF next_dbid, r

LEMMA OnReqWriteInv ==
    ASSUME PeerSimInv, peer_pc = "serve", to_peer # << >>,
           NEW h, h = Head(to_peer), h.t = "req", req[h.n].op = "write",
           dbid' = next_dbid, writes' = Put(writes, h.n, next_dbid),
           Answer(<<[t |-> "rsp", n |-> h.n, opcode |-> "DBIDResp", dbid |-> next_dbid]>>),
           UNCHANGED <<pending_mem, mem_id, peer_pc, syncs, ddrVars, g5Vars>>
    PROVE  PeerSimInv'
<1> USE DEF PeerSimInv
<1>1. h \in Elems(to_peer) /\ PeerMsgOK(h)
  BY ListTail DEF FrameOK, PeerInv, Elems
<1> PICK n : n = h.n
  OBVIOUS
<1>2. /\ n \in Txns /\ n \in Accesses /\ Untouched(n) /\ n \notin DOMAIN writes
      /\ hnf[n].phase \in {"read", "wait_dbid", "other"}
      /\ h.t \in PeerKinds /\ Subject(h) = n /\ n \notin Pkts
  BY <1>1, PeerAssumption DEF PeerMsgOK, Accesses, PeerKinds, Subject
<1>3. AccessInv(n) /\ EntryInv(n) /\ hnf[n].phase = "wait_dbid"
  <2>1. AccessInv(n) /\ EntryInv(n)
    BY <1>2 DEF AccessInv
  <2> QED
    BY <1>2, <2>1 DEF EntryInv
<1>4. UNCHANGED <<req, hnf, failed, bypass, byp, g5, syncing, got, accesses, mem,
                  performed, found, pending_mem, mem_id, peer_pc, syncs>>
  BY DEF ddrVars, g5Vars, hnfVars
<1> PICK d \in 1 .. MaxDbid : d = next_dbid
  BY NextDbidInRange
<1>5. /\ DOMAIN writes' = DOMAIN writes \cup {n} /\ writes'[n] = d
      /\ \A x \in DOMAIN writes : x # n => writes'[x] = writes[x]
  <2>1. writes' = Put(writes, n, d)
    OBVIOUS
  <2> QED
    BY <2>1 DEF Put
<1>6. \A x \in Accesses : x # n => Same(x)
  BY <1>4, <1>5 DEF Same
<1>18. PICK a : a = [t |-> "rsp", n |-> n, opcode |-> "DBIDResp", dbid |-> d]
  OBVIOUS
<1>7. to_peer' = Tail(to_peer) /\ to_gem5' = to_gem5 \o <<a>>
  BY <1>18 DEF Answer
<1>8. a.t = "rsp" /\ a.n = n /\ a.opcode = "DBIDResp" /\ a.dbid = d
  BY <1>18
<1>9. Busy(n)' <=> Busy(n)
  BY <1>4 DEF Busy
<1>10. PeerInv' /\ to_peer' \in Seq(Elems(to_peer'))
  <2>1. \A m \in Elems(to_peer) :
               m.t \in PeerKinds /\ ~(h.t \in PeerKinds /\ Subject(m) = Subject(h))
                   => Same(Subject(m))
    BY <1>2, <1>6, OthersSame
  <2> QED
    BY <1>7, <2>1, PeerInvTail, ListTail DEF FrameOK
<1>11. /\ <<a>> \in Seq(Elems(<<a>>)) /\ DOMAIN <<a>> = {1} /\ <<a>>[1] = a
       /\ Elems(<<a>>) = {a}
  BY ListOne DEF Elems
<1>12. Gem5Inv'
  <2>1. Untouched(n)'
    BY <1>2, <1>4, <1>9 DEF Untouched
  <2>2. Gem5MsgOK(a)'
    BY <1>2, <1>3, <1>4, <1>5, <1>8, <2>1 DEF Gem5MsgOK, Gem5Kinds
  <2>3. \A o \in Elems(<<a>>) : Gem5MsgOK(o)' /\ (o.t \in Gem5Kinds => o.n = n)
    BY <1>8, <1>11, <2>2
  <2>4. \A i \in DOMAIN <<a>> : <<a>>[i].t # "dat"
    BY <1>8, <1>11
  <2>5. \A m \in Elems(to_gem5) : m.t \in Gem5Kinds => m.n # n
    BY <1>2, NotToGem5
  <2>6. \A m \in Elems(to_gem5) : m.t \in Gem5Kinds => m.n # n /\ Same(m.n)
    BY <1>6, <2>5, OthersSame
  <2> QED
    BY <1>4, <1>7, <1>11, <2>3, <2>4, <2>6, Gem5InvConcat, ZenonT(40)
<1>13. to_gem5' \in Seq(Elems(to_gem5')) /\ Elems(to_gem5)' = Elems(to_gem5) \cup {a}
  <2>1. to_gem5' \in Seq(Elems(to_gem5'))
    BY <1>7, <1>11, ListConcat DEF FrameOK
  <2>2. Elems(to_gem5') = Elems(to_gem5) \cup Elems(<<a>>)
    BY <1>7, <1>11, ConcatElems DEF FrameOK
  <2> QED
    BY <1>11, <2>1, <2>2
<1>14. MemInv'
  <2>1. \A m \in accesses : m.n # n
    BY NotAtMemory, <1>2 DEF Untouched
  <2>2. \A m \in accesses' : Same(m.n) /\ m.n # a.n
    BY <1>4, <1>6, <1>8, <2>1, OthersSame
  <2> QED
    BY <1>4, <1>13, <2>2, MemInvKept
<1>15. AccessInv(n)'
  <2>1. CallbackInv(n)' /\ FoundInv(n)'
    <3>1. Burst(n)' = Burst(n)
      BY <1>4 DEF Burst, blocks_asked, bytes_asked, beats_expected
    <3> QED
      BY <1>3, <1>4, <3>1 DEF AccessInv, CallbackInv, FoundInv
  <2>2. beats_expected(req[n])' = beats_expected(req[n])
    BY <1>4 DEF beats_expected
  <2>3. (Untouched(n)' <=> Untouched(n)) /\ (Served1(n)' <=> Served1(n))
    BY <1>4, <1>9 DEF Untouched, Served1
  <2>4. /\ hnf'[n] = hnf[n] /\ req'[n] = req[n]
        /\ performed' = performed /\ got'[n] = got[n] /\ found'[n] = found[n]
    BY <1>4
  <2>5. EntryInv(n)'
    BY <1>3, <2>2, <2>3, <2>4 DEF EntryInv
  <2> QED
    BY <1>2, <2>1, <2>5 DEF AccessInv
<1>16. \A x \in Accesses : AccessInv(x)'
  BY <1>4, <1>6, <1>15, AccessKept
<1>17. FrameOK'
  <2>1. DOMAIN writes' \subseteq Txns /\ Range(writes)' \subseteq 1 .. MaxDbid
    <3>1. DOMAIN writes \subseteq Txns /\ \A x \in DOMAIN writes : writes[x] \in 1 .. MaxDbid
      BY DEF FrameOK, TypeOK, Range
    <3>2. \A x \in DOMAIN writes' : x \in Txns /\ writes'[x] \in 1 .. MaxDbid
      BY <1>2, <1>5, <3>1
    <3> QED
      BY <3>2 DEF Range
  <2>2. dbid' \in 0 .. MaxDbid
    OBVIOUS
  <2> QED
    BY <1>4, <1>10, <1>13, <2>1, <2>2 DEF FrameOK, TypeOK, HnfTypeOK, PeerUp
<1> QED
  BY <1>10, <1>12, <1>14, <1>16, <1>17

(***************************************************************************)
(* A memory reply: its callback is gone and the answers are on their way.  *)
(***************************************************************************)
AnswersTo(n, ms) ==
    /\ ms \in Seq(Elems(ms))
    /\ \A o \in Elems(ms) : o.t \in {"rsp", "dat", "bypass_resp"} /\ o.n = n
    /\ \A i, j \in DOMAIN ms :
          i # j => /\ ms[i].t = "dat" /\ ms[j].t = "dat"
                   /\ ms[i].dataid # ms[j].dataid
    /\ \A i \in DOMAIN ms : ms[i].t = "dat" =>
          \/ ms[i].dataid = hnf[n].beats
          \/ \E j \in DOMAIN ms : /\ j < i /\ ms[j].t = "dat"
                                  /\ ms[j].dataid + 1 = ms[i].dataid

LEMMA Gem5InvAnswers ==
    ASSUME Gem5Inv, FrameOK, UNCHANGED req, NEW n, NEW ms, AnswersTo(n, ms),
           to_gem5' = to_gem5 \o ms, hnf'[n].beats = hnf[n].beats,
           \A o \in Elems(ms) : Gem5MsgOK(o)',
           \A m \in Elems(to_gem5) : m.t \in Gem5Kinds => m.n # n /\ Same(m.n)
    PROVE  Gem5Inv'
<1>1. /\ ms \in Seq(Elems(ms))
      /\ \A o \in Elems(ms) : Gem5MsgOK(o)' /\ (o.t \in Gem5Kinds => o.n = n)
      /\ \A i, j \in DOMAIN ms :
            i # j /\ ms[i].t \in Gem5Kinds /\ ms[j].t \in Gem5Kinds =>
                /\ ms[i].t = "dat" /\ ms[j].t = "dat"
                /\ ms[i].dataid # ms[j].dataid
      /\ \A i \in DOMAIN ms : ms[i].t = "dat" =>
            \/ ms[i].dataid = hnf'[n].beats
            \/ \E j \in DOMAIN ms : /\ j < i /\ ms[j].t = "dat"
                                    /\ ms[j].dataid + 1 = ms[i].dataid
  BY DEF AnswersTo
<1> QED
  BY <1>1, Gem5InvConcat

LEMMA DeliverInv ==
    ASSUME PeerSimInv, peer_pc = "serve", to_peer # << >>,
           NEW h, h = Head(to_peer), h.t = "mem_done",
           NEW n, n = pending_mem[h.id].n,
           pending_mem' = Restrict(pending_mem, DOMAIN pending_mem \ {h.id}),
           writes' = IF pending_mem[h.id].t = "Comp"
                       THEN Restrict(writes, DOMAIN writes \ {n}) ELSE writes,
           NEW ms, AnswersTo(n, ms),
           to_peer' = Tail(to_peer), to_gem5' = to_gem5 \o ms,
           UNCHANGED <<dbid, mem_id, peer_pc, syncs, ddrVars, g5Vars>>,
           Served1(n)' => \A o \in Elems(ms) : Gem5MsgOK(o)'
    PROVE  PeerSimInv'
<1> USE DEF PeerSimInv
<1>1. h \in Elems(to_peer) /\ PeerMsgOK(h)
  BY ListTail DEF FrameOK, PeerInv, Elems
<1>2. /\ h.id \in DOMAIN pending_mem /\ n \in performed
      /\ n \in Accesses /\ h.t \in PeerKinds /\ Subject(h) = n /\ Busy(n)
  BY <1>1, CallbackTyped DEF PeerMsgOK, PeerKinds, Subject, Busy
<1>3. AccessInv(n) /\ CallbackInv(n)
  BY <1>2 DEF AccessInv
<1>4. UNCHANGED <<req, hnf, failed, bypass, byp, g5, syncing, got, accesses, mem,
                  performed, found, dbid, mem_id, peer_pc, syncs>>
  BY DEF ddrVars, g5Vars, hnfVars
<1>5. /\ DOMAIN pending_mem' = DOMAIN pending_mem \ {h.id}
      /\ \A k \in DOMAIN pending_mem' : pending_mem'[k] = pending_mem[k]
  BY DEF Restrict
<1>6. /\ DOMAIN writes' \subseteq DOMAIN writes
      /\ \A x \in DOMAIN writes : x # n => x \in DOMAIN writes'
      /\ \A x \in DOMAIN writes' : writes'[x] = writes[x]
  BY DEF Restrict
<1>7. \A k \in DOMAIN pending_mem' : pending_mem'[k].n # n
  BY <1>2, <1>3, <1>5 DEF CallbackInv
<1>8. Served1(n)'
  BY <1>2, <1>4, <1>7 DEF Served1, Busy
<1>9. \A x \in Accesses : x # n => Same(x)
  BY <1>2, <1>4, <1>5, <1>6 DEF Same
<1>10. PeerInv' /\ to_peer' \in Seq(Elems(to_peer'))
  <2>1. \A m \in Elems(to_peer) :
               m.t \in PeerKinds /\ ~(h.t \in PeerKinds /\ Subject(m) = Subject(h))
                   => Same(Subject(m))
    BY <1>2, <1>9, OthersSame
  <2> QED
    BY <2>1, PeerInvTail, ListTail DEF FrameOK
<1>11. Gem5Inv'
  <2>1. \A m \in Elems(to_gem5) : m.t \in Gem5Kinds => m.n # n
    BY <1>2, NotToGem5
  <2>2. \A m \in Elems(to_gem5) : m.t \in Gem5Kinds => m.n # n /\ Same(m.n)
    BY <1>9, <2>1, OthersSame
  <2>3. hnf'[n].beats = hnf[n].beats
    BY <1>4
  <2> QED
    BY <1>4, <1>8, <2>2, <2>3, Gem5InvAnswers
<1>12. to_gem5' \in Seq(Elems(to_gem5'))
       /\ \A o \in Elems(to_gem5)' : o.t = "mem" => o \in Elems(to_gem5)
  <2>1. /\ to_gem5 \in Seq(Elems(to_gem5)) /\ ms \in Seq(Elems(ms))
        /\ \A o \in Elems(ms) : o.t # "mem"
    BY DEF FrameOK, AnswersTo
  <2>2. to_gem5' \in Seq(Elems(to_gem5'))
    BY <2>1, ListConcat
  <2>3. Elems(to_gem5') = Elems(to_gem5) \cup Elems(ms)
    BY <2>1, ConcatElems
  <2> QED
    BY <2>1, <2>2, <2>3
<1>13. MemInv'
  <2>1. \A m \in accesses : m.n # n
    BY <1>2, NotAtMemory
  <2>2. \A m \in accesses' : Same(m.n)
    BY <1>4, <1>9, <2>1, OthersSame
  <2> QED
    BY <1>4, <1>12, <2>2, MemInvKept
<1>14. AccessInv(n)'
  <2>1. CallbackInv(n)'
    BY <1>7 DEF CallbackInv
  <2>2. FoundInv(n)'
    <3>1. Burst(n)' = Burst(n)
      BY <1>4 DEF Burst, blocks_asked, bytes_asked, beats_expected
    <3> QED
      BY <1>3, <1>4, <3>1 DEF AccessInv, FoundInv
  <2>3. ASSUME n \in Txns PROVE EntryInv(n)'
    <3>1. EntryInv(n)
      BY <1>3, <2>3 DEF AccessInv
    <3>2. ~Untouched(n)
      BY <1>2 DEF Untouched
    <3>3. beats_expected(req[n])' = beats_expected(req[n])
      BY <1>4 DEF beats_expected
    <3>4. /\ hnf'[n] = hnf[n] /\ req'[n] = req[n]
          /\ performed' = performed /\ got'[n] = got[n] /\ found'[n] = found[n]
          /\ n \in DOMAIN writes' => n \in DOMAIN writes /\ writes'[n] = writes[n]
      BY <1>4, <1>6
    <3> QED
      BY <1>8, <3>1, <3>2, <3>3, <3>4 DEF EntryInv
  <2>4. ASSUME n \in Pkts PROVE PktInv(n)'
    <3>1. PktInv(n) /\ ~Untouched(n)
      BY <1>2, <1>3, <2>4 DEF AccessInv, Untouched
    <3> QED
      BY <1>4, <1>8, <3>1 DEF PktInv
  <2> QED
    BY <2>1, <2>2, <2>3, <2>4 DEF AccessInv
<1>15. \A x \in Accesses : AccessInv(x)'
  BY <1>4, <1>9, <1>14, AccessKept
<1>16. FrameOK'
  <2>1. DOMAIN writes' \subseteq Txns /\ Range(writes)' \subseteq 1 .. MaxDbid
    <3>1. DOMAIN writes \subseteq Txns /\ \A x \in DOMAIN writes : writes[x] \in 1 .. MaxDbid
      BY DEF FrameOK, TypeOK, Range
    <3>2. \A x \in DOMAIN writes' : x \in Txns /\ writes'[x] \in 1 .. MaxDbid
      BY <1>6, <3>1
    <3> QED
      BY <3>2 DEF Range
  <2>2. Range(pending_mem)' \subseteq Callbacks /\ DOMAIN pending_mem' \subseteq 1 .. mem_id' - 1
    <3>1. DOMAIN pending_mem \subseteq 1 .. mem_id - 1
          /\ \A k \in DOMAIN pending_mem : pending_mem[k] \in Callbacks
      BY DEF FrameOK, TypeOK, Range
    <3>2. \A k \in DOMAIN pending_mem' : pending_mem'[k] \in Callbacks
      BY <1>5, <3>1
    <3> QED
      BY <1>4, <1>5, <3>1, <3>2 DEF Range
  <2> QED
    BY <1>4, <1>10, <1>12, <2>1, <2>2 DEF FrameOK, TypeOK, HnfTypeOK, PeerUp
<1> QED
  BY <1>10, <1>11, <1>13, <1>15, <1>16

LEMMA BurstBeats ==
    ASSUME PeerSimInv, NEW t \in Txns
    PROVE  /\ DOMAIN Burst(t).strb = 1 .. beats_expected(req[t])
           /\ Burst(t).kind = req[t].op
<1>1. req[t] \in Requests
  BY DEF PeerSimInv, FrameOK, TypeOK, HnfTypeOK
<1>2. blocks_asked(req[t]) = beats_expected(req[t])
  BY <1>1, SizesAssumption DEF blocks_asked, bytes_asked, beats_expected
<1> QED
  BY <1>2 DEF Burst

\* serve_read
LEMMA CompDataSent ==
    ASSUME PeerSimInv, NEW k \in DOMAIN pending_mem, pending_mem[k].t = "CompData",
           NEW n, n = pending_mem[k].n, n \in performed,
           NEW ms, ms = Served(pending_mem[k], found[n]),
           UNCHANGED <<hnf, req, found>>
    PROVE  AnswersTo(n, ms) /\ (Served1(n)' => \A o \in Elems(ms) : Gem5MsgOK(o)')
<1>1. n \in Accesses /\ AccessInv(n)
  BY CallbackTyped DEF PeerSimInv
<1>2. n \in Txns /\ hnf[n].phase = "read" /\ hnf[n].completed = 0 /\ hnf[n].beats = 0
  BY <1>1 DEF AccessInv, CallbackInv
<1>3. req[n].op = "read" /\ req[n] \in Requests
  <2>1. EntryInv(n) /\ req[n] \in Requests
    BY <1>1, <1>2 DEF AccessInv, PeerSimInv, FrameOK, TypeOK, HnfTypeOK
  <2>2. req[n].op \in {"read", "write", "other"}
    BY <2>1, RequestsAssumption
  <2> QED
    BY <1>2, <2>1, <2>2 DEF EntryInv
<1> DEFINE K == beats_expected(req[n])
<1>4. K \in Nat /\ K' = K
  BY <1>3, BeatsNat DEF beats_expected
<1> HIDE DEF K
<1>5. found[n] = [i \in 1 .. K |-> found[n][i]]
  BY <1>1, <1>2, <1>3, BurstBeats DEF AccessInv, FoundInv, K
<1>6. DOMAIN found[n] = 1 .. K /\ Len(found[n]) = K
  BY <1>4, <1>5, FunctionIsList
<1>7. ms = [i \in 1 .. K |-> [t |-> "dat", n |-> n, dataid |-> i - 1,
                              last |-> is_last(i, found[n]), data |-> found[n][i]]]
  BY <1>6 DEF Served
<1>8. DOMAIN ms = 1 .. K /\ ms = [i \in 1 .. K |-> ms[i]]
  BY <1>7
<1>9. ms \in Seq(Elems(ms))
  BY <1>4, <1>8, FunctionIsList
<1>10. \A i \in 1 .. K : /\ ms[i].t = "dat" /\ ms[i].n = n /\ ms[i].dataid = i - 1
                         /\ ms[i].data = found[n][i]
  BY <1>7
<1>11. \A i \in 1 .. K : ms[i].last = (i = K)
  <2> TAKE i \in 1 .. K
  <2>1. ms[i].last = is_last(i, found[n])
    BY <1>7
  <2> QED
    BY <1>6, <2>1 DEF is_last
<1>12. AnswersTo(n, ms)
  <2>1. \A o \in Elems(ms) : o.t \in {"rsp", "dat", "bypass_resp"} /\ o.n = n
    BY <1>8, <1>10 DEF Elems
  <2>2. \A i, j \in DOMAIN ms :
          i # j => /\ ms[i].t = "dat" /\ ms[j].t = "dat"
                   /\ ms[i].dataid # ms[j].dataid
    BY <1>4, <1>8, <1>10
  <2>3. ASSUME NEW i \in DOMAIN ms
        PROVE  \/ ms[i].dataid = hnf[n].beats
               \/ \E j \in DOMAIN ms : /\ j < i /\ ms[j].t = "dat"
                                       /\ ms[j].dataid + 1 = ms[i].dataid
    <3>1. CASE i = 1
      BY <1>2, <1>8, <1>10, <3>1
    <3>2. CASE i # 1
      <4>1. i - 1 \in DOMAIN ms /\ i - 1 < i
        BY <1>4, <1>8, <3>2
      <4>2. ms[i - 1].t = "dat" /\ ms[i - 1].dataid + 1 = ms[i].dataid
        BY <1>4, <1>8, <1>10, <4>1
      <4> QED
        BY <4>1, <4>2
    <3> QED
      BY <3>1, <3>2
  <2> QED
    BY <1>9, <2>1, <2>2, <2>3 DEF AnswersTo
<1>13. ASSUME Served1(n)', NEW o \in Elems(ms) PROVE Gem5MsgOK(o)'
  <2>1. PICK i \in 1 .. K : o = ms[i]
    BY <1>8 DEF Elems
  <2>2. /\ o.t = "dat" /\ o.n = n /\ o.dataid = i - 1
        /\ o.data = found[n][i] /\ o.last = (i = K)
    BY <1>10, <1>11, <2>1
  <2>3. o.dataid \in Nat /\ 0 <= o.dataid /\ o.dataid < K /\ o.dataid + 1 = i
    BY <1>4, <2>2
  <2>4. /\ o.n \in Txns /\ hnf'[o.n].phase = "read" /\ hnf'[o.n].completed = 0
        /\ hnf'[o.n].beats <= o.dataid
        /\ o.data = found'[o.n][o.dataid + 1]
    BY <1>2, <2>2, <2>3
  <2>5. beats_expected(req[o.n])' = K
    BY <1>4, <2>2 DEF K
  <2>6. o.last = (o.dataid + 1 = K)
    BY <2>2, <2>3
  <2>7. o.last = (o.dataid + 1 = beats_expected(req[o.n]))'
    BY <2>5, <2>6
  <2>8. DatOK(o)'
    BY <1>13, <2>2, <2>3, <2>4, <2>5, <2>7 DEF DatOK
  <2> QED
    BY <2>2, <2>8 DEF Gem5MsgOK, Gem5Kinds
<1> QED
  BY <1>12, <1>13

\* serve_write
LEMMA CompSent ==
    ASSUME PeerSimInv, NEW k \in DOMAIN pending_mem, pending_mem[k].t = "Comp",
           NEW n, n = pending_mem[k].n, n \in performed,
           NEW ms, ms = Served(pending_mem[k], found[n]),
           UNCHANGED <<hnf, req, found>>
    PROVE  AnswersTo(n, ms) /\ (Served1(n)' => \A o \in Elems(ms) : Gem5MsgOK(o)')
<1>1. n \in Accesses /\ AccessInv(n)
  BY CallbackTyped DEF PeerSimInv
<1>2. /\ n \in Txns /\ hnf[n].phase = "wait_comp" /\ hnf[n].completed = 0
      /\ pending_mem[k].dbid = hnf[n].dbid
  BY <1>1 DEF AccessInv, CallbackInv
<1>3. PICK a : a = [t |-> "rsp", n |-> n, opcode |-> "Comp", dbid |-> pending_mem[k].dbid]
  OBVIOUS
<1>4. ms = <<a>>
  BY <1>3 DEF Served
<1>5. a.t = "rsp" /\ a.n = n /\ a.opcode = "Comp" /\ a.dbid = hnf[n].dbid
  BY <1>2, <1>3
<1>6. /\ <<a>> \in Seq(Elems(<<a>>)) /\ DOMAIN <<a>> = {1} /\ <<a>>[1] = a
      /\ Elems(<<a>>) = {a}
  BY ListOne DEF Elems
<1>7. AnswersTo(n, <<a>>)
  BY <1>5, <1>6 DEF AnswersTo
<1>8. ASSUME Served1(n)' PROVE Gem5MsgOK(a)'
  BY <1>2, <1>5, <1>8 DEF Gem5MsgOK, Gem5Kinds
<1> QED
  BY <1>4, <1>6, <1>7, <1>8

\* serve_byp_r and serve_byp_w
LEMMA BypassRespSent ==
    ASSUME PeerSimInv, NEW k \in DOMAIN pending_mem, pending_mem[k].t = "bypass_resp",
           NEW n, n = pending_mem[k].n, n \in performed,
           NEW ms, ms = Served(pending_mem[k], found[n]),
           UNCHANGED <<byp, found>>
    PROVE  AnswersTo(n, ms) /\ (Served1(n)' => \A o \in Elems(ms) : Gem5MsgOK(o)')
<1>1. n \in Accesses /\ AccessInv(n)
  BY CallbackTyped DEF PeerSimInv
<1>2. n \in Pkts /\ byp[n] = "sent"
  BY <1>1 DEF AccessInv, CallbackInv
<1>3. PICK a : a = [t |-> "bypass_resp", n |-> n, data |-> found[n]]
  OBVIOUS
<1>4. ms = <<a>>
  BY <1>3 DEF Served
<1>5. a.t = "bypass_resp" /\ a.n = n /\ a.data = found[n]
  BY <1>3
<1>6. /\ <<a>> \in Seq(Elems(<<a>>)) /\ DOMAIN <<a>> = {1} /\ <<a>>[1] = a
      /\ Elems(<<a>>) = {a}
  BY ListOne DEF Elems
<1>7. AnswersTo(n, <<a>>)
  BY <1>5, <1>6 DEF AnswersTo
<1>8. ASSUME Served1(n)' PROVE Gem5MsgOK(a)'
  BY <1>2, <1>5, <1>8 DEF Gem5MsgOK, Gem5Kinds
<1> QED
  BY <1>4, <1>6, <1>7, <1>8

LEMMA DeliverMemInv ==
    ASSUME PeerSimInv, peer_pc = "serve", to_peer # << >>,
           NEW h, h = Head(to_peer), h.t = "mem_done", deliver_mem(h),
           UNCHANGED <<peer_pc, syncs, ddrVars, g5Vars>>
    PROVE  PeerSimInv'
<1>1. h \in Elems(to_peer) /\ PeerMsgOK(h)
  BY ListTail DEF PeerSimInv, FrameOK, PeerInv, Elems
<1>2. PICK n : n = pending_mem[h.id].n
  OBVIOUS
<1>3. h.id \in DOMAIN pending_mem /\ n \in performed /\ h.data = found[n]
  BY <1>1, <1>2 DEF PeerMsgOK
<1>4. PICK ms : ms = Served(pending_mem[h.id], found[n])
  OBVIOUS
<1>5. /\ to_peer' = Tail(to_peer) /\ to_gem5' = to_gem5 \o ms
      /\ pending_mem' = Restrict(pending_mem, DOMAIN pending_mem \ {h.id})
      /\ writes' = IF pending_mem[h.id].t = "Comp"
                     THEN Restrict(writes, DOMAIN writes \ {n}) ELSE writes
      /\ UNCHANGED <<dbid, mem_id>>
  BY <1>2, <1>3, <1>4 DEF deliver_mem, Expected, Answer
<1>6. UNCHANGED <<hnf, req, found, byp>>
  BY DEF ddrVars, g5Vars, hnfVars
<1>7. pending_mem[h.id].t \in {"CompData", "Comp", "bypass_resp"}
  BY <1>3, CallbackTyped DEF PeerSimInv, Callbacks
<1>8. AnswersTo(n, ms) /\ (Served1(n)' => \A o \in Elems(ms) : Gem5MsgOK(o)')
  BY <1>2, <1>3, <1>4, <1>6, <1>7, CompDataSent, CompSent, BypassRespSent
<1> QED
  BY <1>2, <1>5, <1>8, DeliverInv

(***************************************************************************)
(* One turn of the loop.                                                   *)
(***************************************************************************)
LEMMA HandlesInv ==
    ASSUME PeerSimInv, PeerHandles
    PROVE  PeerSimInv'
<1>1. PICK h : h = Head(to_peer)
  OBVIOUS
<1>2. peer_pc = "serve" /\ to_peer # << >> /\ UNCHANGED <<ddrVars, g5Vars>>
  BY DEF PeerHandles
<1>3. CASE h.t = "sync" /\ on_sync
  BY <1>2, <1>3, OnSyncInv
<1>4. CASE h.t = "req" /\ on_req_flit(h.n) /\ UNCHANGED <<peer_pc, syncs>>
  <2>1. CASE req[h.n].op = "read"
    BY <1>1, <1>2, <1>4, <2>1, OnReqReadInv DEF on_req_flit
  <2>2. CASE req[h.n].op = "write"
    BY <1>1, <1>2, <1>4, <2>2, OnReqWriteInv DEF on_req_flit
  <2>3. CASE req[h.n].op \notin {"read", "write"}
    BY <1>2, <1>4, <2>3, SilentHandlerInv DEF on_req_flit, memoryless
  <2> QED
    BY <2>1, <2>2, <2>3
<1>5. CASE h.t = "dat" /\ on_dat_flit(h.n) /\ UNCHANGED <<peer_pc, syncs>>
  <2>1. CASE h.n \in DOMAIN writes
    BY <1>1, <1>2, <1>5, <2>1, OnDatInv DEF on_dat_flit
  <2>2. CASE h.n \notin DOMAIN writes
    BY <1>2, <1>5, <2>2, SilentHandlerInv DEF on_dat_flit, memoryless
  <2> QED
    BY <2>1, <2>2
<1>6. CASE h.t = "bypass" /\ on_bypass(h.n) /\ UNCHANGED <<peer_pc, syncs>>
  BY <1>1, <1>2, <1>6, OnBypassInv DEF on_bypass
<1>7. CASE h.t = "mem_done" /\ deliver_mem(h) /\ UNCHANGED <<peer_pc, syncs>>
  BY <1>1, <1>2, <1>7, DeliverMemInv
<1>8. CASE /\ to_peer' = << >> /\ UNCHANGED to_gem5
           /\ peer_pc' = "exit0" /\ memoryless /\ UNCHANGED syncs
  BY <1>2, <1>8, SilentHandlerInv
<1> QED
  BY <1>1, <1>3, <1>4, <1>5, <1>6, <1>7, <1>8 DEF PeerHandles, on_end

-------------------------------------------------------------------------------
(***************************************************************************)
(* Gem5 sends a message about access n, of which nothing is on its way.    *)
(***************************************************************************)
LEMMA SendInv ==
    ASSUME PeerSimInv, NEW n \in Accesses, NEW a, a.t \in PeerKinds,
           to_peer' = Append(to_peer, a), UNCHANGED <<to_gem5, req, bypass>>,
           accesses' \subseteq accesses,
           PeerMsgOK(a)', Subject(a)' = n,
           \A x \in Accesses : x # n => Same(x), AccessInv(n)',
           \A m \in Elems(to_peer) : m.t \in PeerKinds => Subject(m) # n,
           \A m \in Elems(to_gem5) : m.t \in Gem5Kinds => m.n # n,
           \A m \in accesses' : m.n # n,
           TypeOK', ~failed', PeerUp' => syncs' < MaxSyncs,
           performed' \subseteq Accesses,
           DOMAIN found' = Accesses, DOMAIN got' = Accesses
    PROVE  PeerSimInv'
<1> USE DEF PeerSimInv
<1>1. /\ <<a>> \in Seq(Elems(<<a>>)) /\ DOMAIN <<a>> = {1} /\ <<a>>[1] = a
      /\ Elems(<<a>>) = {a}
  BY ListOne DEF Elems
<1>2. to_peer' = to_peer \o <<a>>
  BY ListAppend DEF FrameOK
<1>3. PeerInv' /\ to_peer' \in Seq(Elems(to_peer'))
  <2>1. \A m \in Elems(to_peer) : m.t \in PeerKinds => Same(Subject(m))
    BY OthersSame
  <2>2. PeerInv'
    BY <1>1, <1>2, <2>1, PeerInvConcat
  <2> QED
    BY <1>1, <1>2, <2>2, ListConcat DEF FrameOK
<1>4. Gem5Inv'
  <2>1. \A m \in Elems(to_gem5) : m.t \in Gem5Kinds => Same(m.n)
    BY OthersSame
  <2> QED
    BY <2>1, Gem5InvSame
<1>5. MemInv'
  <2>1. \A m \in accesses' : Same(m.n)
    BY OthersSame
  <2> QED
    BY <2>1, MemInvKept DEF Elems
<1>6. \A x \in Accesses : AccessInv(x)'
  BY AccessKept
<1>7. FrameOK'
  BY <1>3 DEF FrameOK
<1> QED
  BY <1>3, <1>4, <1>5, <1>6, <1>7

\* The home node's entry of t after it has sent the request, and the data.
LEMMA ReqSent ==
    ASSUME HnfTypeOK, NEW t \in Txns, expect(t)
    PROVE  /\ hnf[t].phase = "unsent" /\ UNCHANGED <<req, failed>>
           /\ req[t].op \in {"read", "write", "other"}
           /\ hnf' \in [Txns -> HnfEntries] /\ \A x \in Txns : x # t => hnf'[x] = hnf[x]
           /\ hnf'[t].phase \in {"read", "wait_dbid", "other"}
           /\ req[t].op = "read" => hnf'[t].phase = "read"
           /\ req[t].op = "write" => hnf'[t].phase = "wait_dbid"
           /\ req[t].op = "other" => hnf'[t].phase = "other"
           /\ hnf'[t].dbid = hnf[t].dbid /\ hnf'[t].beats = hnf[t].beats
           /\ hnf'[t].completed = hnf[t].completed
<1>1. hnf \in [Txns -> HnfEntries] /\ hnf[t] \in HnfEntries
      /\ req[t].op \in {"read", "write", "other"}
  BY RequestsAssumption DEF HnfTypeOK
<1>2. PICK p : p = CASE req[t].op = "read"  -> "read"
                     [] req[t].op = "write" -> "wait_dbid"
                     [] req[t].op = "other" -> "other"
  OBVIOUS
<1>3. PICK e : e = [hnf[t] EXCEPT !.phase = p]
  OBVIOUS
<1>4. hnf' = [hnf EXCEPT ![t] = e]
  BY <1>2, <1>3 DEF expect
<1>5. /\ p \in {"read", "wait_dbid", "other"} /\ e \in HnfEntries /\ e.phase = p
      /\ e.dbid = hnf[t].dbid /\ e.beats = hnf[t].beats /\ e.completed = hnf[t].completed
  BY <1>1, <1>2, <1>3 DEF HnfEntries, Phases
<1>6. /\ hnf'[t] = e /\ \A x \in Txns : x # t => hnf'[x] = hnf[x]
      /\ hnf' \in [Txns -> HnfEntries]
  BY <1>1, <1>4, <1>5
<1> QED
  BY <1>1, <1>2, <1>5, <1>6 DEF expect

LEMMA DataSent ==
    ASSUME HnfTypeOK, NEW t \in Txns, send_write_data(t)
    PROVE  /\ hnf[t].phase = "wait_data" /\ UNCHANGED <<req, failed>>
           /\ hnf' \in [Txns -> HnfEntries] /\ \A x \in Txns : x # t => hnf'[x] = hnf[x]
           /\ hnf'[t].phase = "wait_comp"
           /\ hnf'[t].dbid = hnf[t].dbid /\ hnf'[t].beats = hnf[t].beats
           /\ hnf'[t].completed = hnf[t].completed
<1>1. hnf \in [Txns -> HnfEntries] /\ hnf[t] \in HnfEntries
  BY DEF HnfTypeOK
<1>2. PICK e : e = [hnf[t] EXCEPT !.phase = "wait_comp"]
  OBVIOUS
<1>3. hnf' = [hnf EXCEPT ![t] = e]
  BY <1>2 DEF send_write_data
<1>4. /\ e \in HnfEntries /\ e.phase = "wait_comp"
      /\ e.dbid = hnf[t].dbid /\ e.beats = hnf[t].beats /\ e.completed = hnf[t].completed
  BY <1>1, <1>2 DEF HnfEntries, Phases
<1>5. /\ hnf'[t] = e /\ \A x \in Txns : x # t => hnf'[x] = hnf[x]
      /\ hnf' \in [Txns -> HnfEntries]
  BY <1>1, <1>3, <1>4
<1> QED
  BY <1>4, <1>5 DEF send_write_data

\* The home node sends a request.
LEMMA SendReqInv ==
    ASSUME PeerSimInv, NEW n \in Txns, Gem5Sends([t |-> "req", n |-> n]), expect(n),
           UNCHANGED <<peerVars, to_gem5, ddrVars, bypass, byp, g5, syncing, got>>
    PROVE  PeerSimInv'
<1> USE DEF PeerSimInv
<1>1. n \in Accesses /\ n \notin Pkts
  BY PeerAssumption DEF Accesses
<1>2. AccessInv(n) /\ EntryInv(n) /\ req[n] \in Requests /\ hnf \in [Txns -> HnfEntries]
  BY <1>1 DEF AccessInv, FrameOK, TypeOK, HnfTypeOK
<1>3. /\ hnf[n].phase = "unsent" /\ UNCHANGED <<req, failed>>
      /\ req[n].op \in {"read", "write", "other"}
      /\ hnf' \in [Txns -> HnfEntries] /\ \A x \in Txns : x # n => hnf'[x] = hnf[x]
      /\ hnf'[n].phase \in {"read", "wait_dbid", "other"}
      /\ req[n].op = "read" => hnf'[n].phase = "read"
      /\ req[n].op = "write" => hnf'[n].phase = "wait_dbid"
      /\ req[n].op = "other" => hnf'[n].phase = "other"
      /\ hnf'[n].dbid = hnf[n].dbid /\ hnf'[n].beats = hnf[n].beats
      /\ hnf'[n].completed = hnf[n].completed
  BY ReqSent DEF FrameOK, TypeOK
<1>4. Untouched(n) /\ n \notin DOMAIN writes
  BY <1>2, <1>3 DEF EntryInv
<1>5. UNCHANGED <<req, failed, bypass, byp, g5, syncing, got, accesses, mem, performed,
                  found, pending_mem, mem_id, writes, dbid, peer_pc, syncs, to_gem5>>
  BY DEF peerVars, ddrVars, expect
<1>6. \A x \in Accesses : x # n => Same(x)
  BY <1>3, <1>5 DEF Same
<1>7. PICK a : a = [t |-> "req", n |-> n]
  OBVIOUS
<1>8. to_peer' = Append(to_peer, a) /\ a.t = "req" /\ a.n = n
  BY <1>7 DEF Gem5Sends
<1>9. /\ a.t \in PeerKinds /\ Subject(a)' = n
  BY <1>8 DEF PeerKinds, Subject
<1>10. Untouched(n)' /\ ~Busy(n)'
  BY <1>4, <1>5 DEF Untouched, Busy
<1>11. PeerMsgOK(a)'
  BY <1>3, <1>4, <1>5, <1>8, <1>10 DEF PeerMsgOK, PeerKinds
<1>12. AccessInv(n)'
  <2>1. CallbackInv(n)'
    BY <1>10 DEF CallbackInv, Busy
  <2>2. FoundInv(n)'
    <3>1. Burst(n)' = Burst(n)
      BY <1>5 DEF Burst, blocks_asked, bytes_asked, beats_expected
    <3> QED
      BY <1>2, <1>5, <3>1 DEF AccessInv, FoundInv
  <2>3. EntryInv(n)'
    <3>1. beats_expected(req[n])' = beats_expected(req[n])
      BY <1>5 DEF beats_expected
    <3>2. /\ req'[n] = req[n] /\ writes' = writes
          /\ performed' = performed /\ got'[n] = got[n] /\ found'[n] = found[n]
      BY <1>5
    <3>3. hnf[n].completed # 1
      BY <1>2, <1>4 DEF EntryInv, Untouched, Served1
    <3> QED
      BY <1>2, <1>3, <1>4, <1>10, <3>1, <3>2, <3>3 DEF EntryInv
  <2> QED
    BY <1>1, <2>1, <2>2, <2>3 DEF AccessInv
<1>13. /\ \A m \in Elems(to_peer) : m.t \in PeerKinds => Subject(m) # n
       /\ \A m \in Elems(to_gem5) : m.t \in Gem5Kinds => m.n # n
       /\ \A m \in accesses' : m.n # n
  BY <1>1, <1>3, <1>4, <1>5, NotToPeer, NotToGem5, NotAtMemory DEF Untouched
<1>14. TypeOK' /\ ~failed' /\ (PeerUp' => syncs' < MaxSyncs)
       /\ performed' \subseteq Accesses
       /\ DOMAIN found' = Accesses /\ DOMAIN got' = Accesses
  BY <1>3, <1>5 DEF FrameOK, TypeOK, HnfTypeOK, PeerUp
<1> QED
  BY <1>1, <1>5, <1>6, <1>8, <1>9, <1>11, <1>12, <1>13, <1>14, SendInv

\* The home node sends the data of a write it was granted.
LEMMA SendDatInv ==
    ASSUME PeerSimInv, NEW n \in Txns, Gem5Sends([t |-> "dat", n |-> n]), send_write_data(n),
           UNCHANGED <<peerVars, to_gem5, ddrVars, bypass, byp, g5, syncing, got>>
    PROVE  PeerSimInv'
<1> USE DEF PeerSimInv
<1>1. n \in Accesses /\ n \notin Pkts
  BY PeerAssumption DEF Accesses
<1>2. AccessInv(n) /\ EntryInv(n) /\ req[n] \in Requests /\ hnf \in [Txns -> HnfEntries]
  BY <1>1 DEF AccessInv, FrameOK, TypeOK, HnfTypeOK
<1>3. /\ hnf[n].phase = "wait_data" /\ UNCHANGED <<req, failed>>
      /\ hnf' \in [Txns -> HnfEntries] /\ \A x \in Txns : x # n => hnf'[x] = hnf[x]
      /\ hnf'[n].phase = "wait_comp"
      /\ hnf'[n].dbid = hnf[n].dbid /\ hnf'[n].beats = hnf[n].beats
      /\ hnf'[n].completed = hnf[n].completed
  BY DataSent DEF FrameOK, TypeOK
<1>4. Untouched(n) /\ req[n].op \in {"read", "write", "other"}
  BY <1>2, <1>3, RequestsAssumption DEF EntryInv
<1>5. UNCHANGED <<req, failed, bypass, byp, g5, syncing, got, accesses, mem, performed,
                  found, pending_mem, mem_id, writes, dbid, peer_pc, syncs, to_gem5>>
  BY DEF peerVars, ddrVars, send_write_data
<1>6. \A x \in Accesses : x # n => Same(x)
  BY <1>3, <1>5 DEF Same
<1>7. PICK a : a = [t |-> "dat", n |-> n]
  OBVIOUS
<1>8. to_peer' = Append(to_peer, a) /\ a.t = "dat" /\ a.n = n
  BY <1>7 DEF Gem5Sends
<1>9. /\ a.t \in PeerKinds /\ Subject(a)' = n
  BY <1>8 DEF PeerKinds, Subject
<1>10. Untouched(n)' /\ ~Busy(n)'
  BY <1>4, <1>5 DEF Untouched, Busy
<1>11. PeerMsgOK(a)'
  BY <1>3, <1>5, <1>8, <1>10 DEF PeerMsgOK, PeerKinds
<1>12. AccessInv(n)'
  <2>1. CallbackInv(n)'
    BY <1>10 DEF CallbackInv, Busy
  <2>2. FoundInv(n)'
    <3>1. Burst(n)' = Burst(n)
      BY <1>5 DEF Burst, blocks_asked, bytes_asked, beats_expected
    <3> QED
      BY <1>2, <1>5, <3>1 DEF AccessInv, FoundInv
  <2>3. EntryInv(n)'
    <3>1. beats_expected(req[n])' = beats_expected(req[n])
      BY <1>5 DEF beats_expected
    <3>2. /\ req'[n] = req[n] /\ writes' = writes
          /\ performed' = performed /\ got'[n] = got[n] /\ found'[n] = found[n]
      BY <1>5
    <3>3. hnf[n].completed # 1
      BY <1>2, <1>4 DEF EntryInv, Untouched, Served1
    <3> QED
      BY <1>2, <1>3, <1>4, <1>10, <3>1, <3>2, <3>3 DEF EntryInv
  <2> QED
    BY <1>1, <2>1, <2>2, <2>3 DEF AccessInv
<1>13. /\ \A m \in Elems(to_peer) : m.t \in PeerKinds => Subject(m) # n
       /\ \A m \in Elems(to_gem5) : m.t \in Gem5Kinds => m.n # n
       /\ \A m \in accesses' : m.n # n
  BY <1>1, <1>3, <1>4, <1>5, NotToPeer, NotToGem5, NotAtMemory DEF Untouched
<1>14. TypeOK' /\ ~failed' /\ (PeerUp' => syncs' < MaxSyncs)
       /\ performed' \subseteq Accesses
       /\ DOMAIN found' = Accesses /\ DOMAIN got' = Accesses
  BY <1>3, <1>5 DEF FrameOK, TypeOK, HnfTypeOK, PeerUp
<1> QED
  BY <1>1, <1>5, <1>6, <1>8, <1>9, <1>11, <1>12, <1>13, <1>14, SendInv

LEMMA SendBypassInv ==
    ASSUME PeerSimInv, NEW n \in Pkts, Gem5Bypass(n)
    PROVE  PeerSimInv'
<1> USE DEF PeerSimInv
<1>1. n \in Accesses /\ n \notin Txns
  BY PeerAssumption DEF Accesses
<1>2. AccessInv(n) /\ PktInv(n) /\ byp \in [Pkts -> {"unsent", "sent", "done"}]
  BY <1>1 DEF AccessInv, FrameOK, TypeOK
<1>3. byp[n] = "unsent" /\ Untouched(n)
  BY <1>2 DEF Gem5Bypass, PktInv
<1>4. /\ byp'[n] = "sent" /\ \A x \in Pkts : x # n => byp'[x] = byp[x]
      /\ byp' \in [Pkts -> {"unsent", "sent", "done"}]
  BY <1>2 DEF Gem5Bypass
<1>5. UNCHANGED <<req, hnf, failed, bypass, g5, syncing, got, accesses, mem, performed,
                  found, pending_mem, mem_id, writes, dbid, peer_pc, syncs, to_gem5>>
  BY DEF peerVars, ddrVars, hnfVars, Gem5Bypass
<1>6. \A x \in Accesses : x # n => Same(x)
  BY <1>4, <1>5 DEF Same
<1>7. PICK a : a = [t |-> "bypass", n |-> n]
  OBVIOUS
<1>8. to_peer' = Append(to_peer, a) /\ a.t = "bypass" /\ a.n = n
  BY <1>7 DEF Gem5Sends, Gem5Bypass
<1>9. /\ a.t \in PeerKinds /\ Subject(a)' = n
  BY <1>8 DEF PeerKinds, Subject
<1>10. Untouched(n)' /\ ~Busy(n)'
  BY <1>3, <1>5 DEF Untouched, Busy
<1>11. PeerMsgOK(a)'
  BY <1>4, <1>8, <1>10 DEF PeerMsgOK, PeerKinds
<1>12. AccessInv(n)'
  <2>1. CallbackInv(n)'
    BY <1>10 DEF CallbackInv, Busy
  <2>2. FoundInv(n)'
    <3>1. Burst(n)' = Burst(n)
      BY <1>5 DEF Burst, blocks_asked, bytes_asked, beats_expected
    <3> QED
      BY <1>2, <1>5, <3>1 DEF AccessInv, FoundInv
  <2>3. PktInv(n)'
    BY <1>4 DEF PktInv
  <2> QED
    BY <1>1, <2>1, <2>2, <2>3 DEF AccessInv
<1>13. /\ \A m \in Elems(to_peer) : m.t \in PeerKinds => Subject(m) # n
       /\ \A m \in Elems(to_gem5) : m.t \in Gem5Kinds => m.n # n
       /\ \A m \in accesses' : m.n # n
  BY <1>1, <1>3, <1>5, NotToPeer, NotToGem5, NotAtMemory DEF Untouched
<1>14. TypeOK' /\ ~failed' /\ (PeerUp' => syncs' < MaxSyncs)
       /\ performed' \subseteq Accesses
       /\ DOMAIN found' = Accesses /\ DOMAIN got' = Accesses
  BY <1>4, <1>5 DEF FrameOK, TypeOK, HnfTypeOK, PeerUp
<1> QED
  BY <1>1, <1>5, <1>6, <1>8, <1>9, <1>11, <1>12, <1>13, <1>14, SendInv

\* An access at the memory: nothing else is on its way for it.
LEMMA AloneAtMemory ==
    ASSUME PeerSimInv, NEW m \in accesses
    PROVE  /\ m.n \in Accesses /\ m.id \in DOMAIN pending_mem
           /\ pending_mem[m.id].n = m.n /\ Busy(m.n) /\ m.n \notin performed
           /\ \A o \in Elems(to_peer) : o.t \in PeerKinds => Subject(o) # m.n
           /\ \A o \in Elems(to_gem5) : o.t \in Gem5Kinds => o.n # m.n
           /\ \A o \in accesses \ {m} : o.n # m.n
<1>1. MemOK(m)
  BY DEF PeerSimInv, MemInv
<1>2. /\ m.n \in Accesses /\ m.id \in DOMAIN pending_mem
      /\ pending_mem[m.id].n = m.n /\ Busy(m.n) /\ m.n \notin performed
  BY <1>1, CallbackTyped DEF PeerSimInv, MemOK, Busy
<1>3. \A o \in Elems(to_peer) : o.t \in PeerKinds => Subject(o) # m.n
  BY <1>2, NotToPeer
<1>4. ASSUME NEW o \in Elems(to_gem5), o.t \in Gem5Kinds, o.n = m.n PROVE FALSE
  <2>1. Gem5MsgOK(o) /\ ~Untouched(m.n) /\ ~Served1(m.n)
    BY <1>2 DEF PeerSimInv, Gem5Inv, Untouched, Served1
  <2>2. o.t # "mem"
    BY <1>4 DEF PeerSimInv, MemInv
  <2> QED
    BY <1>4, <2>1, <2>2 DEF Gem5MsgOK, DatOK, Gem5Kinds
<1>5. \A o \in accesses \ {m} : o.n # m.n
  BY DEF PeerSimInv, MemInv
<1> QED
  BY <1>2, <1>3, <1>4, <1>5

\* The memory performs an access and its reply is sent.
LEMMA PerformsInv ==
    ASSUME PeerSimInv, NEW h \in accesses, Gem5Performs(h)
    PROVE  PeerSimInv'
<1> USE DEF PeerSimInv
<1>1. PICK n : n = h.n
  OBVIOUS
<1>2. /\ n \in Accesses /\ h.id \in DOMAIN pending_mem
      /\ pending_mem[h.id].n = n /\ Busy(n) /\ n \notin performed
      /\ \A o \in Elems(to_peer) : o.t \in PeerKinds => Subject(o) # n
      /\ \A o \in Elems(to_gem5) : o.t \in Gem5Kinds => o.n # n
      /\ \A o \in accesses \ {h} : o.n # n
  BY <1>1, AloneAtMemory
<1>3. AccessInv(n)
  BY <1>2
<1>4. UNCHANGED <<req, hnf, failed, bypass, byp, g5, syncing, got, pending_mem, mem_id,
                  writes, dbid, peer_pc, syncs, to_gem5>>
  BY DEF peerVars, g5Vars, hnfVars, Gem5Performs
<1>5. accesses' = accesses \ {h} /\ performed' = performed \cup {n}
  BY <1>1 DEF Gem5Performs
<1>6. \/ Burst(n).kind = "write" /\ found' = found
      \/ Burst(n).kind = "read" /\ found' = [found EXCEPT ![n] = Fetched(n)]
  BY <1>1 DEF Gem5Performs
<1>7. DOMAIN found = Accesses /\ performed \subseteq Accesses
  BY DEF FrameOK
<1>8. DOMAIN found' = Accesses /\ \A x \in Accesses : x # n => found'[x] = found[x]
  BY <1>6, <1>7
<1>9. \A x \in Accesses : x # n => Same(x)
  BY <1>4, <1>5, <1>8 DEF Same
<1>10. PICK a : a = [t |-> "mem_done", id |-> h.id, data |-> found'[n]]
  OBVIOUS
<1>11. to_peer' = Append(to_peer, a)
  <2>1. Gem5Sends([t |-> "mem_done", id |-> h.id, data |-> found'[n]])
    BY <1>1 DEF Gem5Performs
  <2> QED
    BY <1>10, <2>1 DEF Gem5Sends
<1>12. a.t = "mem_done" /\ a.id = h.id /\ a.data = found'[n]
  BY <1>10
<1>13. a.t \in PeerKinds /\ Subject(a)' = n
  BY <1>2, <1>4, <1>12 DEF PeerKinds, Subject
<1>14. PeerMsgOK(a)'
  BY <1>2, <1>4, <1>5, <1>12 DEF PeerMsgOK, PeerKinds
<1>15. AccessInv(n)'
  <2>1. CallbackInv(n)'
    BY <1>3, <1>4 DEF AccessInv, CallbackInv
  <2>2. FoundInv(n)'
    <3>1. Burst(n)' = Burst(n) /\ found[n] = << >> /\ n \in performed'
      BY <1>2, <1>3, <1>4, <1>5 DEF Burst, blocks_asked, bytes_asked, beats_expected, AccessInv, FoundInv
    <3>2. CASE Burst(n).kind = "write" /\ found' = found
      BY <3>1, <3>2 DEF FoundInv
    <3>3. CASE Burst(n).kind = "read" /\ found' = [found EXCEPT ![n] = Fetched(n)]
      <4>1. found'[n] = Fetched(n)
        BY <1>2, <1>7, <3>3
      <4>2. found'[n] = [i \in DOMAIN Burst(n).strb |-> found'[n][i]]
        BY <4>1 DEF Fetched
      <4> QED
        BY <3>1, <3>3, <4>2 DEF FoundInv
    <3> QED
      BY <1>6, <3>2, <3>3
  <2>3. ASSUME n \in Txns PROVE EntryInv(n)'
    <3>1. EntryInv(n) /\ ~Untouched(n) /\ ~Served1(n)
      BY <1>2, <1>3, <2>3 DEF AccessInv, Untouched, Served1
    <3>2. /\ hnf'[n] = hnf[n] /\ req'[n] = req[n] /\ writes' = writes /\ got'[n] = got[n]
          /\ beats_expected(req[n])' = beats_expected(req[n])
      BY <1>4 DEF beats_expected
    <3>3. /\ hnf[n].phase \notin {"unsent", "other", "wait_dbid", "wait_data"}
          /\ hnf[n].completed # 1 /\ hnf[n].beats = 0
      BY <1>2, <3>1 DEF EntryInv
    <3>4. got'[n] = [i \in 1 .. hnf'[n].beats |-> found'[n][i]]
      <4>1. \A i \in 1 .. 0 : FALSE
        OBVIOUS
      <4>2. [i \in 1 .. 0 |-> found'[n][i]] = [i \in 1 .. 0 |-> found[n][i]]
        BY <4>1
      <4> QED
        BY <3>1, <3>2, <3>3, <4>2 DEF EntryInv
    <3>5. /\ hnf'[n].phase \notin {"unsent", "other", "wait_dbid", "wait_data"}
          /\ hnf'[n].completed # 1 /\ hnf'[n].beats = 0
      BY <3>2, <3>3
    <3> QED
      BY <3>1, <3>2, <3>4, <3>5 DEF EntryInv
  <2>4. ASSUME n \in Pkts PROVE PktInv(n)'
    <3>1. PktInv(n) /\ ~Untouched(n) /\ ~Served1(n)
      BY <1>2, <1>3, <2>4 DEF AccessInv, Untouched, Served1
    <3> QED
      BY <1>4, <3>1 DEF PktInv
  <2> QED
    BY <2>1, <2>2, <2>3, <2>4 DEF AccessInv
<1>16. TypeOK' /\ ~failed' /\ (PeerUp' => syncs' < MaxSyncs)
       /\ performed' \subseteq Accesses /\ DOMAIN got' = Accesses
  BY <1>2, <1>4, <1>5, <1>7 DEF FrameOK, TypeOK, HnfTypeOK, PeerUp
<1>17. accesses' \subseteq accesses /\ \A m \in accesses' : m.n # n
  BY <1>2, <1>5
<1> QED
  BY <1>2, <1>4, <1>8, <1>9, <1>11, <1>13, <1>14, <1>15, <1>16, <1>17, SendInv

-------------------------------------------------------------------------------
(***************************************************************************)
(* Gem5 takes a message.                                                   *)
(***************************************************************************)
TakesRest == UNCHANGED <<peerVars, to_peer, bypass, mem, performed, found>>

LEMMA HeadOfGem5 ==
    ASSUME PeerSimInv, to_gem5 # << >>, NEW h, h = Head(to_gem5)
    PROVE  h \in Elems(to_gem5) /\ Gem5MsgOK(h)
BY ListTail DEF PeerSimInv, FrameOK, Gem5Inv, Elems

LEMMA TakeControlInv ==
    ASSUME PeerSimInv, to_gem5 # << >>, to_gem5' = Tail(to_gem5), TakesRest,
           Head(to_gem5).t \in {"hello_ack", "ack", "bye"},
           UNCHANGED <<hnfVars, byp, got, accesses>>,
           g5' \in {"start", "hello", "run", "gone"}, syncing' \in BOOLEAN
    PROVE  PeerSimInv'
<1>1. PeerQuiet /\ Gem5Quiet
  BY DEF PeerQuiet, Gem5Quiet, Gem5Kinds, TakesRest
<1>2. StateSame /\ accesses' = accesses
  BY DEF StateSame, TakesRest, peerVars, hnfVars
<1>3. peer_pc' = peer_pc /\ syncs' = syncs
  BY DEF TakesRest, peerVars
<1>4. /\ peer_pc' \in {"hello", "serve", "exit0", "exit1", "broken"}
      /\ syncs' \in 0 .. MaxSyncs /\ (PeerUp' => syncs' < MaxSyncs)
  BY <1>3 DEF PeerSimInv, FrameOK, TypeOK, PeerUp
<1> QED
  BY <1>1, <1>2, <1>4, QuietStep

\* An access reaches the memory.
LEMMA TakeMemInv ==
    ASSUME PeerSimInv, to_gem5 # << >>, to_gem5' = Tail(to_gem5), TakesRest,
           NEW h, h = Head(to_gem5), h.t = "mem", accesses' = accesses \cup {h},
           UNCHANGED <<hnfVars, byp, g5, syncing, got>>
    PROVE  PeerSimInv'
<1> USE DEF PeerSimInv
<1>1. UNCHANGED <<req, hnf, failed, bypass, byp, g5, syncing, got, mem, performed, found,
                  pending_mem, mem_id, writes, dbid, peer_pc, syncs, to_peer>>
  BY DEF TakesRest, peerVars, hnfVars
<1>2. \A n : Same(n)
  BY <1>1 DEF Same
<1>3. h \in Elems(to_gem5) /\ MemOK(h)
  BY HeadOfGem5 DEF Gem5MsgOK
<1>4. PeerInv'
  BY <1>1, <1>2, PeerInvSame
<1>5. Gem5Inv' /\ \A o \in Elems(to_gem5)' :
                     o \in Elems(to_gem5) /\ (o.t = "mem" => o.n # h.n)
  <2>1. h.t # "dat"
    OBVIOUS
  <2> QED
    BY <1>1, <1>2, <2>1, Gem5InvTail DEF Gem5Kinds
<1>6. MemInv'
  BY <1>2, <1>3, <1>5, MemInvTaken
<1>7. \A n \in Accesses : AccessInv(n)'
  BY <1>1, <1>2, AccessKept
<1>8. FrameOK'
  <2>1. to_gem5' \in Seq(Elems(to_gem5'))
    BY ListTail DEF FrameOK
  <2> QED
    BY <1>1, <2>1 DEF FrameOK, TypeOK, HnfTypeOK, PeerUp
<1> QED
  BY <1>4, <1>5, <1>6, <1>7, <1>8

\* An answer about n reaches the home node or the packet.
LEMMA TakeAnswerInv ==
    ASSUME PeerSimInv, TakesRest, UNCHANGED <<req, failed, g5, syncing, accesses>>,
           NEW n \in Accesses, \A x \in Accesses : x # n => Same(x),
           hnf' \in [Txns -> HnfEntries], byp' \in [Pkts -> {"unsent", "sent", "done"}],
           DOMAIN got' = Accesses,
           to_gem5 # << >>, to_gem5' = Tail(to_gem5),
           Gem5Inv', AccessInv(n)', ~Busy(n),
           \A m \in Elems(to_peer) : m.t \in PeerKinds => Subject(m) # n
    PROVE  PeerSimInv'
<1> USE DEF PeerSimInv
<1>1. UNCHANGED <<req, failed, bypass, g5, syncing, mem, performed, found,
                  pending_mem, mem_id, writes, dbid, peer_pc, syncs, to_peer, accesses>>
  BY DEF TakesRest, peerVars
<1>2. PeerInv'
  <2>1. \A m \in Elems(to_peer) : m.t \in PeerKinds => Same(Subject(m))
    BY OthersSame
  <2> QED
    BY <1>1, <2>1, PeerInvSame
<1>3. \A o \in Elems(to_gem5)' : o \in Elems(to_gem5)
  <2>1. \A i \in DOMAIN to_gem5' : i + 1 \in DOMAIN to_gem5 /\ to_gem5'[i] = to_gem5[i + 1]
    BY ListTail DEF FrameOK
  <2> QED
    BY <2>1 DEF Elems
<1>4. MemInv'
  <2>1. \A m \in accesses : m.n # n
    BY NotAtMemory
  <2>2. \A m \in accesses' : Same(m.n)
    BY <1>1, <2>1, OthersSame
  <2> QED
    BY <1>1, <1>3, <2>2, MemInvKept
<1>5. \A x \in Accesses : AccessInv(x)'
  BY <1>1, AccessKept
<1>6. FrameOK'
  <2>1. to_gem5' \in Seq(Elems(to_gem5'))
    BY ListTail DEF FrameOK
  <2> QED
    BY <1>1, <2>1 DEF FrameOK, TypeOK, HnfTypeOK, PeerUp
<1> QED
  BY <1>2, <1>4, <1>5, <1>6

\* The entry of t after a response it accepts.
LEMMA RspTaken ==
    ASSUME HnfTypeOK, ~failed, NEW t \in Txns, NEW opcode \in {"DBIDResp", "Comp"},
           NEW d \in Nat, RspAccepted(hnf[t], opcode, d), on_rsp(t, opcode, d)
    PROVE  /\ UNCHANGED <<req, failed>> /\ hnf' \in [Txns -> HnfEntries]
           /\ \A x \in Txns : x # t => hnf'[x] = hnf[x]
           /\ hnf'[t].beats = hnf[t].beats
           /\ opcode = "DBIDResp" => /\ hnf'[t].phase = "wait_data" /\ hnf'[t].dbid = d
                                     /\ hnf'[t].completed = hnf[t].completed
           /\ opcode = "Comp" => /\ hnf'[t].phase = hnf[t].phase
                                 /\ hnf'[t].dbid = hnf[t].dbid
                                 /\ hnf'[t].completed = hnf[t].completed + 1
<1>1. hnf \in [Txns -> HnfEntries] /\ hnf[t] \in HnfEntries
  BY DEF HnfTypeOK
<1>2. PICK e : e = AfterRsp(hnf[t], opcode, d)
  OBVIOUS
<1>3. hnf' = [hnf EXCEPT ![t] = e] /\ UNCHANGED <<req, failed>>
  BY <1>2 DEF on_rsp
<1>4. CASE opcode = "DBIDResp"
  <2>1. e = [hnf[t] EXCEPT !.dbid = d, !.phase = "wait_data"]
    BY <1>2, <1>4 DEF AfterRsp
  <2>2. /\ e \in HnfEntries /\ e.phase = "wait_data" /\ e.dbid = d
        /\ e.beats = hnf[t].beats /\ e.completed = hnf[t].completed
    BY <1>1, <2>1 DEF HnfEntries, Phases
  <2> QED
    BY <1>1, <1>3, <1>4, <2>2
<1>5. CASE opcode = "Comp"
  <2>1. e = [hnf[t] EXCEPT !.completed = @ + 1]
    BY <1>2, <1>5 DEF AfterRsp
  <2>2. /\ e \in HnfEntries /\ e.phase = hnf[t].phase /\ e.dbid = hnf[t].dbid
        /\ e.beats = hnf[t].beats /\ e.completed = hnf[t].completed + 1
    BY <1>1, <2>1 DEF HnfEntries
  <2> QED
    BY <1>1, <1>3, <1>5, <2>2
<1> QED
  BY <1>4, <1>5

LEMMA DatTaken ==
    ASSUME HnfTypeOK, ~failed, NEW t \in Txns, NEW i, NEW last \in BOOLEAN, NEW errs,
           DatAccepted(hnf[t], req[t], i, last, errs), on_dat(t, i, last, errs)
    PROVE  /\ UNCHANGED <<req, failed>> /\ hnf' \in [Txns -> HnfEntries]
           /\ \A x \in Txns : x # t => hnf'[x] = hnf[x]
           /\ hnf'[t].beats = hnf[t].beats + 1
           /\ hnf'[t].phase = hnf[t].phase /\ hnf'[t].dbid = hnf[t].dbid
           /\ hnf'[t].completed = IF last THEN hnf[t].completed + 1 ELSE hnf[t].completed
<1>1. hnf \in [Txns -> HnfEntries] /\ hnf[t] \in HnfEntries
  BY DEF HnfTypeOK
<1>2. PICK c : c = IF last THEN hnf[t].completed + 1 ELSE hnf[t].completed
  OBVIOUS
<1>3. PICK e : e = [hnf[t] EXCEPT !.beats = @ + 1, !.completed = c]
  OBVIOUS
<1>4. hnf' = [hnf EXCEPT ![t] = e] /\ UNCHANGED <<req, failed>>
  BY <1>2, <1>3 DEF on_dat
<1>5. c \in Nat
  BY <1>1, <1>2 DEF HnfEntries
<1>6. hnf[t].beats + 1 \in Nat
  BY <1>1 DEF HnfEntries
<1>7. PICK b \in Nat : b = hnf[t].beats + 1
  BY <1>6
<1>8. /\ e \in HnfEntries /\ e.phase = hnf[t].phase /\ e.dbid = hnf[t].dbid
      /\ e.beats = hnf[t].beats + 1 /\ e.completed = c
  <2>1. e = [hnf[t] EXCEPT !.beats = b, !.completed = c]
    BY <1>3, <1>7
  <2> QED
    BY <1>1, <1>5, <1>7, <2>1 DEF HnfEntries
<1> QED
  BY <1>1, <1>2, <1>4, <1>8

LEMMA EmptyList == ASSUME NEW f PROVE [i \in 1 .. 0 |-> f[i]] = << >>
<1> DEFINE g == [i \in 1 .. 0 |-> f[i]]
<1>1. g = [i \in 1 .. 0 |-> g[i]]
  OBVIOUS
<1> HIDE DEF g
<1>2. g \in Seq(Elems(g)) /\ Len(g) = 0
  BY <1>1, FunctionIsList
<1>3. g = << >>
  BY <1>2, EmptySeq
<1> QED
  BY <1>3 DEF g

\* The home node accepts the DBIDResp at the head and has its grant.
LEMMA DbidStep ==
    ASSUME PeerSimInv, to_gem5 # << >>, NEW h, h = Head(to_gem5),
           h.t = "rsp", h.opcode = "DBIDResp", on_rsp(h.n, h.opcode, h.dbid)
    PROVE  /\ h.n \in Txns /\ Untouched(h.n) /\ hnf[h.n].phase = "wait_dbid"
           /\ h.n \in DOMAIN writes /\ h.dbid = writes[h.n]
           /\ UNCHANGED <<req, failed>> /\ hnf' \in [Txns -> HnfEntries]
           /\ \A x \in Txns : x # h.n => hnf'[x] = hnf[x]
           /\ hnf'[h.n].phase = "wait_data" /\ hnf'[h.n].dbid = h.dbid
           /\ hnf'[h.n].beats = hnf[h.n].beats
           /\ hnf'[h.n].completed = hnf[h.n].completed
<1>1. /\ h.n \in Txns /\ Untouched(h.n) /\ hnf[h.n].phase = "wait_dbid"
      /\ h.n \in DOMAIN writes /\ h.dbid = writes[h.n]
  BY HeadOfGem5 DEF Gem5MsgOK
<1>2. h.dbid \in 1 .. MaxDbid
  BY <1>1 DEF PeerSimInv, FrameOK, TypeOK, Range
<1>3. h.dbid \in Nat /\ h.dbid # 0
  BY <1>2
<1>4. HnfTypeOK /\ ~failed
  BY DEF PeerSimInv, FrameOK, TypeOK
<1>5. RspAccepted(hnf[h.n], h.opcode, h.dbid)
  BY <1>1, <1>3 DEF RspAccepted
<1> QED
  BY <1>1, <1>3, <1>4, <1>5, RspTaken

LEMMA TakeDbidInv ==
    ASSUME PeerSimInv, to_gem5 # << >>, to_gem5' = Tail(to_gem5), TakesRest,
           NEW h, h = Head(to_gem5), h.t = "rsp", h.opcode = "DBIDResp",
           on_rsp(h.n, h.opcode, h.dbid), UNCHANGED <<byp, g5, syncing, got, accesses>>
    PROVE  PeerSimInv'
<1> USE DEF PeerSimInv
<1>1. PICK n : n = h.n
  OBVIOUS
<1>2. /\ n \in Txns /\ Untouched(n) /\ hnf[n].phase = "wait_dbid"
      /\ n \in DOMAIN writes /\ h.dbid = writes[n]
      /\ UNCHANGED <<req, failed>> /\ hnf' \in [Txns -> HnfEntries]
      /\ \A x \in Txns : x # n => hnf'[x] = hnf[x]
      /\ hnf'[n].phase = "wait_data" /\ hnf'[n].dbid = h.dbid
      /\ hnf'[n].beats = hnf[n].beats /\ hnf'[n].completed = hnf[n].completed
  BY <1>1, DbidStep
<1>3. n \in Accesses /\ n \notin Pkts
  BY <1>2, PeerAssumption DEF Accesses
<1>4. AccessInv(n) /\ EntryInv(n) /\ req[n] \in Requests /\ ~Busy(n)
  BY <1>2, <1>3 DEF AccessInv, FrameOK, TypeOK, HnfTypeOK, Untouched
<1>5. UNCHANGED <<bypass, byp, g5, syncing, got, accesses, mem, performed, found,
                  pending_mem, mem_id, writes, dbid, peer_pc, syncs, to_peer>>
  BY DEF TakesRest, peerVars
<1>6. \A x \in Accesses : x # n => Same(x)
  BY <1>2, <1>5 DEF Same
<1>7. Untouched(n)' /\ ~Busy(n)'
  BY <1>2, <1>5 DEF Untouched, Busy
<1>8. Gem5Inv'
  <2>1. \A m \in Elems(to_gem5) :
               m.t \in Gem5Kinds /\ ~(h.t \in Gem5Kinds /\ m.n = h.n) => Same(m.n)
    BY <1>1, <1>6, OthersSame DEF Gem5Kinds
  <2>2. h.t # "dat"
    OBVIOUS
  <2> QED
    BY <1>2, <2>1, <2>2, Gem5InvTail
<1>9. AccessInv(n)'
  <2>1. CallbackInv(n)'
    BY <1>7 DEF CallbackInv, Busy
  <2>2. FoundInv(n)'
    <3>1. Burst(n)' = Burst(n)
      BY <1>2, <1>5 DEF Burst, blocks_asked, bytes_asked, beats_expected
    <3> QED
      BY <1>4, <1>5, <3>1 DEF AccessInv, FoundInv
  <2>3. EntryInv(n)'
    <3>1. beats_expected(req[n])' = beats_expected(req[n])
      BY <1>2 DEF beats_expected
    <3>2. /\ req'[n] = req[n] /\ writes' = writes
          /\ performed' = performed /\ got'[n] = got[n] /\ found'[n] = found[n]
      BY <1>2, <1>5
    <3>3. hnf[n].completed # 1
      BY <1>2, <1>4 DEF EntryInv, Untouched, Served1
    <3>4. req[n].op \in {"read", "write", "other"}
      BY <1>4, RequestsAssumption
    <3> QED
      BY <1>2, <1>4, <1>7, <3>1, <3>2, <3>3, <3>4 DEF EntryInv
  <2> QED
    BY <1>3, <2>1, <2>2, <2>3 DEF AccessInv
<1>10. \A m \in Elems(to_peer) : m.t \in PeerKinds => Subject(m) # n
  BY <1>2, <1>3, NotToPeer
<1>11. /\ byp' \in [Pkts -> {"unsent", "sent", "done"}] /\ DOMAIN got' = Accesses
       /\ UNCHANGED <<req, failed, g5, syncing, accesses>> /\ hnf' \in [Txns -> HnfEntries]
  BY <1>2, <1>5 DEF FrameOK, TypeOK
<1> QED
  BY <1>3, <1>4, <1>6, <1>8, <1>9, <1>10, <1>11, TakeAnswerInv

\* The home node accepts the Comp at the head: the write is complete.
LEMMA CompStep ==
    ASSUME PeerSimInv, to_gem5 # << >>, NEW h, h = Head(to_gem5),
           h.t = "rsp", h.opcode # "DBIDResp", on_rsp(h.n, h.opcode, h.dbid)
    PROVE  /\ h.n \in Txns /\ Served1(h.n)
           /\ hnf[h.n].phase = "wait_comp" /\ hnf[h.n].completed = 0
           /\ UNCHANGED <<req, failed>> /\ hnf' \in [Txns -> HnfEntries]
           /\ \A x \in Txns : x # h.n => hnf'[x] = hnf[x]
           /\ hnf'[h.n].phase = hnf[h.n].phase /\ hnf'[h.n].dbid = hnf[h.n].dbid
           /\ hnf'[h.n].beats = hnf[h.n].beats
           /\ hnf'[h.n].completed = hnf[h.n].completed + 1
<1>1. /\ h.n \in Txns /\ Served1(h.n) /\ h.opcode = "Comp"
      /\ hnf[h.n].phase = "wait_comp" /\ hnf[h.n].completed = 0
      /\ h.dbid = hnf[h.n].dbid
  BY HeadOfGem5 DEF Gem5MsgOK
<1>2. HnfTypeOK /\ ~failed
  BY DEF PeerSimInv, FrameOK, TypeOK
<1>3. h.dbid \in Nat
  BY <1>1, <1>2 DEF HnfTypeOK, HnfEntries
<1>4. RspAccepted(hnf[h.n], h.opcode, h.dbid)
  BY <1>1 DEF RspAccepted
<1> QED
  BY <1>1, <1>2, <1>3, <1>4, RspTaken

LEMMA TakeCompInv ==
    ASSUME PeerSimInv, to_gem5 # << >>, to_gem5' = Tail(to_gem5), TakesRest,
           NEW h, h = Head(to_gem5), h.t = "rsp", h.opcode # "DBIDResp",
           on_rsp(h.n, h.opcode, h.dbid), UNCHANGED <<byp, g5, syncing, got, accesses>>
    PROVE  PeerSimInv'
<1> USE DEF PeerSimInv
<1>1. PICK n : n = h.n
  OBVIOUS
<1>2. /\ n \in Txns /\ Served1(n) /\ hnf[n].phase = "wait_comp" /\ hnf[n].completed = 0
      /\ UNCHANGED <<req, failed>> /\ hnf' \in [Txns -> HnfEntries]
      /\ \A x \in Txns : x # n => hnf'[x] = hnf[x]
      /\ hnf'[n].phase = hnf[n].phase /\ hnf'[n].dbid = hnf[n].dbid
      /\ hnf'[n].beats = hnf[n].beats /\ hnf'[n].completed = hnf[n].completed + 1
  BY <1>1, CompStep
<1>3. n \in Accesses /\ n \notin Pkts
  BY <1>2, PeerAssumption DEF Accesses
<1>4. AccessInv(n) /\ EntryInv(n) /\ req[n] \in Requests /\ ~Busy(n)
  BY <1>2, <1>3 DEF AccessInv, FrameOK, TypeOK, HnfTypeOK, Served1
<1>5. UNCHANGED <<bypass, byp, g5, syncing, got, accesses, mem, performed, found,
                  pending_mem, mem_id, writes, dbid, peer_pc, syncs, to_peer>>
  BY DEF TakesRest, peerVars
<1>6. \A x \in Accesses : x # n => Same(x)
  BY <1>2, <1>5 DEF Same
<1>7. Served1(n)' /\ ~Busy(n)'
  BY <1>2, <1>5 DEF Served1, Busy
<1>8. Gem5Inv'
  <2>1. \A m \in Elems(to_gem5) :
               m.t \in Gem5Kinds /\ ~(h.t \in Gem5Kinds /\ m.n = h.n) => Same(m.n)
    BY <1>1, <1>6, OthersSame DEF Gem5Kinds
  <2>2. h.t # "dat"
    OBVIOUS
  <2> QED
    BY <1>2, <2>1, <2>2, Gem5InvTail
<1>9. req[n].op = "write" /\ hnf[n].beats = 0
  <2>1. req[n].op \in {"read", "write", "other"}
    BY <1>4, RequestsAssumption
  <2> QED
    BY <1>2, <1>4, <2>1 DEF EntryInv
<1>10. found[n] = << >> /\ got[n] = << >>
  <2>1. Burst(n).kind = "write"
    BY <1>2, <1>9, BurstBeats
  <2>2. found[n] = << >>
    BY <1>4, <2>1 DEF AccessInv, FoundInv
  <2>3. got[n] = [i \in 1 .. 0 |-> found[n][i]]
    BY <1>4, <1>9 DEF EntryInv
  <2> QED
    BY <2>2, <2>3, EmptyList
<1>11. AccessInv(n)'
  <2>1. CallbackInv(n)'
    BY <1>7 DEF CallbackInv, Busy
  <2>2. FoundInv(n)'
    <3>1. Burst(n)' = Burst(n)
      BY <1>2, <1>5 DEF Burst, blocks_asked, bytes_asked, beats_expected
    <3> QED
      BY <1>4, <1>5, <3>1 DEF AccessInv, FoundInv
  <2>3. EntryInv(n)'
    <3>1. beats_expected(req[n])' = beats_expected(req[n])
      BY <1>2 DEF beats_expected
    <3>2. /\ req'[n] = req[n] /\ writes' = writes
          /\ performed' = performed /\ got'[n] = got[n] /\ found'[n] = found[n]
      BY <1>2, <1>5
    <3> QED
      BY <1>2, <1>4, <1>7, <1>9, <1>10, <3>1, <3>2 DEF EntryInv
  <2> QED
    BY <1>3, <2>1, <2>2, <2>3 DEF AccessInv
<1>12. \A m \in Elems(to_peer) : m.t \in PeerKinds => Subject(m) # n
  BY <1>2, <1>3, NotToPeer
<1>13. /\ byp' \in [Pkts -> {"unsent", "sent", "done"}] /\ DOMAIN got' = Accesses
       /\ UNCHANGED <<req, failed, g5, syncing, accesses>> /\ hnf' \in [Txns -> HnfEntries]
  BY <1>2, <1>5 DEF FrameOK, TypeOK
<1> QED
  BY <1>3, <1>4, <1>6, <1>8, <1>11, <1>12, <1>13, TakeAnswerInv

\* The beat at the head is the one the home node expects, in all but a respErr.
LEMMA DatExpected ==
    ASSUME PeerSimInv, to_gem5 # << >>, NEW h, h = Head(to_gem5), h.t = "dat"
    PROVE  /\ DatOK(h) /\ h.n \in Txns /\ h.dataid = hnf[h.n].beats
           /\ h.last \in BOOLEAN
           /\ DatAccepted(hnf[h.n], req[h.n], h.dataid, h.last, {0})
<1>1. DatOK(h)
  BY HeadOfGem5 DEF Gem5MsgOK
<1>2. /\ h.n \in Txns /\ hnf[h.n].phase = "read" /\ hnf[h.n].completed = 0
      /\ h.dataid \in Nat
  BY <1>1 DEF DatOK
<1>3. h.dataid = hnf[h.n].beats
  <2>1. /\ 1 \in DOMAIN to_gem5 /\ h = to_gem5[1] /\ Len(to_gem5) \in Nat
        /\ DOMAIN to_gem5 = 1 .. Len(to_gem5)
    BY ListTail DEF PeerSimInv, FrameOK
  <2> QED
    BY <2>1 DEF PeerSimInv, Gem5Inv, BeatsInOrder
<1>4. h.last = (hnf[h.n].beats + 1 = beats_expected(req[h.n]))
  BY <1>1, <1>3 DEF DatOK
<1>5. DatAccepted(hnf[h.n], req[h.n], h.dataid, h.last, {0})
  BY <1>2, <1>3, <1>4 DEF DatAccepted
<1> QED
  BY <1>1, <1>2, <1>3, <1>4, <1>5

\* The home node takes the beat at the head.
LEMMA DatStep ==
    ASSUME PeerSimInv, to_gem5 # << >>, NEW h, h = Head(to_gem5),
           h.t = "dat", NEW e, on_dat(h.n, h.dataid, h.last, e), ~failed'
    PROVE  /\ DatOK(h) /\ h.dataid = hnf[h.n].beats
           /\ UNCHANGED <<req, failed>> /\ hnf' \in [Txns -> HnfEntries]
           /\ \A x \in Txns : x # h.n => hnf'[x] = hnf[x]
           /\ hnf'[h.n].beats = hnf[h.n].beats + 1
           /\ hnf'[h.n].phase = hnf[h.n].phase /\ hnf'[h.n].dbid = hnf[h.n].dbid
           /\ hnf'[h.n].completed = IF h.last THEN 1 ELSE 0
<1>1. DatOK(h) /\ h.n \in Txns /\ h.dataid = hnf[h.n].beats /\ h.last \in BOOLEAN
  BY DatExpected
<1>2. hnf[h.n].completed = 0
  BY <1>1 DEF DatOK
<1>3. HnfTypeOK /\ ~failed
  BY DEF PeerSimInv, FrameOK, TypeOK
<1>4. DatAccepted(hnf[h.n], req[h.n], h.dataid, h.last, e)
  BY DEF on_dat
<1>5. /\ UNCHANGED <<req, failed>> /\ hnf' \in [Txns -> HnfEntries]
      /\ \A x \in Txns : x # h.n => hnf'[x] = hnf[x]
      /\ hnf'[h.n].beats = hnf[h.n].beats + 1
      /\ hnf'[h.n].phase = hnf[h.n].phase /\ hnf'[h.n].dbid = hnf[h.n].dbid
      /\ hnf'[h.n].completed = IF h.last THEN hnf[h.n].completed + 1
                                         ELSE hnf[h.n].completed
  BY <1>1, <1>3, <1>4, DatTaken
<1> QED
  BY <1>1, <1>2, <1>5

\* The data of read n so far, with one beat more.
LEMMA OneBeatMore ==
    ASSUME NEW f, NEW b \in Nat, NEW s, s = [i \in 1 .. b |-> f[i]],
           NEW r, r = Append(s, f[b + 1])
    PROVE  r = [i \in 1 .. b + 1 |-> f[i]]
<1>1. s = [i \in 1 .. b |-> s[i]]
  OBVIOUS
<1>2. s \in Seq(Elems(s)) /\ DOMAIN s = 1 .. b /\ Len(s) = b
  BY <1>1, FunctionIsList
<1>3. PICK S : S = Elems(s) \cup {f[b + 1]}
  OBVIOUS
<1>4. s \in Seq(S) /\ f[b + 1] \in S
  BY <1>2, <1>3, SeqMonotonic
<1>5. PICK e \in S : e = f[b + 1]
  BY <1>4
<1>6. /\ r \in Seq(S) /\ Len(r) = b + 1
      /\ \A i \in 1 .. Len(s) : r[i] = s[i]
      /\ r[Len(s) + 1] = e
  <2>1. r = Append(s, e)
    BY <1>5
  <2> QED
    BY <1>2, <1>4, <2>1, AppendProperties
<1>7. r \in [1 .. b + 1 -> S]
  BY <1>6, LenProperties
<1>8. ASSUME NEW i \in 1 .. b + 1 PROVE r[i] = f[i]
  <2>1. CASE i = b + 1
    BY <1>2, <1>5, <1>6, <2>1
  <2>2. CASE i # b + 1
    <3>1. i \in 1 .. b
      BY <2>2
    <3> QED
      BY <1>2, <1>6, <3>1
  <2> QED
    BY <2>1, <2>2
<1> QED
  BY <1>7, <1>8

LEMMA TakeDatInv ==
    ASSUME PeerSimInv, to_gem5 # << >>, to_gem5' = Tail(to_gem5), TakesRest,
           NEW h, h = Head(to_gem5), h.t = "dat",
           \E e \in AbsentRespErr : on_dat(h.n, h.dataid, h.last, e) /\ ~failed',
           got' = [got EXCEPT ![h.n] = Append(@, h.data)],
           UNCHANGED <<byp, g5, syncing, accesses>>
    PROVE  PeerSimInv'
<1> USE DEF PeerSimInv
<1>1. PICK n : n = h.n
  OBVIOUS
<1>2. /\ DatOK(h) /\ h.dataid = hnf[n].beats
      /\ UNCHANGED <<req, failed>> /\ hnf' \in [Txns -> HnfEntries]
      /\ \A x \in Txns : x # n => hnf'[x] = hnf[x]
      /\ hnf'[n].beats = hnf[n].beats + 1
      /\ hnf'[n].phase = hnf[n].phase /\ hnf'[n].dbid = hnf[n].dbid
      /\ hnf'[n].completed = IF h.last THEN 1 ELSE 0
  BY <1>1, DatStep
<1>3. /\ n \in Txns /\ Served1(n) /\ hnf[n].phase = "read" /\ hnf[n].completed = 0
      /\ h.dataid < beats_expected(req[n])
      /\ h.data = found[n][hnf[n].beats + 1]
      /\ h.last = (hnf[n].beats + 1 = beats_expected(req[n]))
  BY <1>1, <1>2 DEF DatOK
<1>4. n \in Accesses /\ n \notin Pkts /\ n \in performed /\ ~Busy(n)
  BY <1>3, PeerAssumption DEF Accesses, Served1
<1>5. AccessInv(n) /\ EntryInv(n) /\ req[n] \in Requests /\ hnf[n].beats \in Nat
      /\ DOMAIN got = Accesses
  BY <1>3, <1>4 DEF AccessInv, FrameOK, TypeOK, HnfTypeOK, HnfEntries
<1>6. beats_expected(req[n]) \in Nat
  BY <1>5, BeatsNat
<1>7. UNCHANGED <<bypass, byp, g5, syncing, accesses, mem, performed, found,
                  pending_mem, mem_id, writes, dbid, peer_pc, syncs, to_peer>>
  BY DEF TakesRest, peerVars
<1>8. /\ DOMAIN got' = Accesses /\ got'[n] = Append(got[n], h.data)
      /\ \A x \in Accesses : x # n => got'[x] = got[x]
  BY <1>1, <1>4, <1>5
<1>9. \A x \in Accesses : x # n => Same(x)
  BY <1>2, <1>7, <1>8 DEF Same
<1>10. Served1(n)' /\ ~Busy(n)'
  BY <1>3, <1>7 DEF Served1, Busy
<1>11. beats_expected(req[n])' = beats_expected(req[n])
  BY <1>2 DEF beats_expected
<1>12. Gem5Inv'
  <2>1. \A m \in Elems(to_gem5) : m.t \in Gem5Kinds /\ m.n # n => Same(m.n)
    BY <1>9, OthersSame
  <2>2. ASSUME NEW m \in Elems(to_gem5), m.t = "dat", m.n = n, hnf'[n].beats <= m.dataid
        PROVE  DatOK(m)'
    <3>1. DatOK(m)
      BY <2>2 DEF Gem5Inv, Gem5MsgOK
    <3>2. hnf[n].beats + 1 # beats_expected(req[n])
      BY <1>2, <1>5, <1>6, <2>2, <3>1 DEF DatOK
    <3>3. hnf'[n].completed = 0
      BY <1>2, <1>3, <3>2
    <3>4. /\ m.n \in Txns /\ m.dataid \in Nat /\ m.dataid < beats_expected(req[m.n])
          /\ m.data = found[m.n][m.dataid + 1]
      BY <3>1 DEF DatOK
    <3>5. m.last = (m.dataid + 1 = beats_expected(req[m.n]))
      BY <3>1 DEF DatOK
    <3>6. m.last = (m.dataid + 1 = beats_expected(req[m.n]))'
      BY <1>11, <2>2, <3>5
    <3> QED
      BY <1>2, <1>3, <1>7, <1>10, <1>11, <2>2, <3>3, <3>4, <3>6 DEF DatOK
  <2> QED
    BY <1>1, <1>2, <1>5, <2>1, <2>2, Gem5InvBeat
<1>13. got'[n] = [i \in 1 .. hnf'[n].beats |-> found'[n][i]]
  <2>1. got[n] = [i \in 1 .. hnf[n].beats |-> found[n][i]]
    BY <1>5 DEF EntryInv
  <2>2. got'[n] = Append(got[n], found[n][hnf[n].beats + 1])
    BY <1>3, <1>8
  <2>3. got'[n] = [i \in 1 .. hnf[n].beats + 1 |-> found[n][i]]
    <3>1. PICK f : f = found[n]
      OBVIOUS
    <3>2. PICK b \in Nat : b = hnf[n].beats
      BY <1>5
    <3>3. PICK s : s = got[n]
      OBVIOUS
    <3>4. PICK r : r = got'[n]
      OBVIOUS
    <3>5. s = [i \in 1 .. b |-> f[i]] /\ r = Append(s, f[b + 1])
      BY <2>1, <2>2, <3>1, <3>2, <3>3, <3>4
    <3>6. r = [i \in 1 .. b + 1 |-> f[i]]
      BY <3>5, OneBeatMore
    <3> QED
      BY <3>1, <3>2, <3>4, <3>6
  <2> QED
    BY <1>2, <1>7, <2>3
<1>14. AccessInv(n)'
  <2>1. CallbackInv(n)'
    BY <1>10 DEF CallbackInv, Busy
  <2>2. FoundInv(n)'
    <3>1. Burst(n)' = Burst(n)
      BY <1>2, <1>7 DEF Burst, blocks_asked, bytes_asked, beats_expected
    <3> QED
      BY <1>5, <1>7, <3>1 DEF AccessInv, FoundInv
  <2>3. req[n].op = "read"
    <3>1. req[n].op \in {"read", "write", "other"}
      BY <1>5, RequestsAssumption
    <3> QED
      BY <1>3, <1>5, <3>1 DEF EntryInv
  <2>4. hnf'[n].completed = 1 => got'[n] = found'[n]
    <3> SUFFICES ASSUME hnf'[n].completed = 1 PROVE got'[n] = found'[n]
      OBVIOUS
    <3>1. hnf[n].beats + 1 = beats_expected(req[n])
      <4>1. hnf'[n].completed = IF h.last THEN 1 ELSE 0
        BY <1>2
      <4>2. h.last
        BY <4>1
      <4> QED
        BY <1>3, <4>2
    <3>2. found[n] = [i \in 1 .. beats_expected(req[n]) |-> found[n][i]]
      BY <1>3, <1>4, <1>5, <2>3, BurstBeats DEF AccessInv, FoundInv
    <3> QED
      BY <1>2, <1>7, <1>13, <3>1, <3>2
  <2>5. hnf'[n].beats <= beats_expected(req[n])
    BY <1>2, <1>3, <1>5, <1>6
  <2>6. EntryInv(n)'
    <3>1. /\ req'[n] = req[n] /\ writes' = writes
          /\ performed' = performed /\ found'[n] = found[n]
      BY <1>2, <1>7
    <3>2. hnf'[n].phase = "read" /\ hnf'[n].completed \in {0, 1}
      BY <1>2, <1>3
    <3> QED
      BY <1>4, <1>10, <1>11, <1>13, <2>3, <2>4, <2>5, <3>1, <3>2 DEF EntryInv
  <2> QED
    BY <1>4, <2>1, <2>2, <2>6 DEF AccessInv
<1>15. \A m \in Elems(to_peer) : m.t \in PeerKinds => Subject(m) # n
  BY <1>3, <1>4, NotToPeer
<1>16. /\ byp' \in [Pkts -> {"unsent", "sent", "done"}]
       /\ UNCHANGED <<req, failed, g5, syncing, accesses>> /\ hnf' \in [Txns -> HnfEntries]
  BY <1>2, <1>7 DEF FrameOK, TypeOK
<1> QED
  BY <1>4, <1>8, <1>9, <1>12, <1>14, <1>15, <1>16, TakeAnswerInv

LEMMA TakeBypassRespInv ==
    ASSUME PeerSimInv, to_gem5 # << >>, to_gem5' = Tail(to_gem5), TakesRest,
           NEW h, h = Head(to_gem5), h.t = "bypass_resp",
           byp' = [byp EXCEPT ![h.n] = "done"], got' = [got EXCEPT ![h.n] = h.data],
           UNCHANGED <<hnfVars, g5, syncing, accesses>>
    PROVE  PeerSimInv'
<1> USE DEF PeerSimInv
<1>1. PICK n : n = h.n
  OBVIOUS
<1>2. /\ n \in Pkts /\ byp[n] = "sent" /\ Served1(n) /\ h.data = found[n]
  BY <1>1, HeadOfGem5 DEF Gem5MsgOK
<1>3. n \in Accesses /\ n \notin Txns /\ n \in performed /\ ~Busy(n)
  BY <1>2, PeerAssumption DEF Accesses, Served1
<1>4. AccessInv(n) /\ byp \in [Pkts -> {"unsent", "sent", "done"}] /\ DOMAIN got = Accesses
  BY <1>3 DEF FrameOK, TypeOK
<1>5. UNCHANGED <<req, hnf, failed, bypass, g5, syncing, accesses, mem, performed, found,
                  pending_mem, mem_id, writes, dbid, peer_pc, syncs, to_peer>>
  BY DEF TakesRest, peerVars, hnfVars
<1>6. /\ DOMAIN got' = Accesses /\ got'[n] = found[n]
      /\ \A x \in Accesses : x # n => got'[x] = got[x]
      /\ byp' \in [Pkts -> {"unsent", "sent", "done"}] /\ byp'[n] = "done"
      /\ \A x \in Pkts : x # n => byp'[x] = byp[x]
  BY <1>1, <1>2, <1>3, <1>4
<1>7. \A x \in Accesses : x # n => Same(x)
  BY <1>5, <1>6 DEF Same
<1>8. Served1(n)' /\ ~Busy(n)'
  BY <1>2, <1>5 DEF Served1, Busy
<1>9. Gem5Inv'
  <2>1. \A m \in Elems(to_gem5) :
               m.t \in Gem5Kinds /\ ~(h.t \in Gem5Kinds /\ m.n = h.n) => Same(m.n)
    BY <1>1, <1>7, OthersSame DEF Gem5Kinds
  <2>2. h.t # "dat"
    OBVIOUS
  <2> QED
    BY <1>5, <2>1, <2>2, Gem5InvTail
<1>10. AccessInv(n)'
  <2>1. CallbackInv(n)'
    BY <1>8 DEF CallbackInv, Busy
  <2>2. FoundInv(n)'
    <3>1. Burst(n)' = Burst(n)
      BY <1>5 DEF Burst, blocks_asked, bytes_asked, beats_expected
    <3> QED
      BY <1>4, <1>5, <3>1 DEF AccessInv, FoundInv
  <2>3. PktInv(n)'
    BY <1>5, <1>6, <1>8 DEF PktInv
  <2> QED
    BY <1>3, <2>1, <2>2, <2>3 DEF AccessInv
<1>11. \A m \in Elems(to_peer) : m.t \in PeerKinds => Subject(m) # n
  BY <1>2, <1>3, NotToPeer
<1>12. /\ UNCHANGED <<req, failed, g5, syncing, accesses>> /\ hnf' \in [Txns -> HnfEntries]
  BY <1>5 DEF FrameOK, TypeOK, HnfTypeOK
<1> QED
  BY <1>3, <1>6, <1>7, <1>9, <1>10, <1>11, <1>12, TakeAnswerInv

LEMMA TakesInv ==
    ASSUME PeerSimInv, Gem5Takes
    PROVE  PeerSimInv'
<1>1. PICK h : h = Head(to_gem5)
  OBVIOUS
<1>2. to_gem5 # << >> /\ to_gem5' = Tail(to_gem5) /\ TakesRest
  BY DEF Gem5Takes, TakesRest
<1>3. g5 \in {"start", "hello", "run", "gone"} /\ syncing \in BOOLEAN
  BY DEF PeerSimInv, FrameOK, TypeOK
<1>4. CASE h.t = "hello_ack" /\ g5' = "run" /\ UNCHANGED <<hnfVars, byp, syncing, got, accesses>>
  BY <1>1, <1>2, <1>3, <1>4, TakeControlInv
<1>5. CASE h.t = "ack" /\ syncing' = FALSE /\ UNCHANGED <<hnfVars, byp, g5, got, accesses>>
  BY <1>1, <1>2, <1>3, <1>5, TakeControlInv
<1>6. CASE h.t = "bye" /\ g5' = "gone" /\ UNCHANGED <<hnfVars, byp, syncing, got, accesses>>
  BY <1>1, <1>2, <1>3, <1>6, TakeControlInv
<1>7. CASE /\ h.t = "mem" /\ accesses' = accesses \cup {h}
           /\ UNCHANGED <<hnfVars, byp, g5, syncing, got>>
  BY <1>1, <1>2, <1>7, TakeMemInv
<1>8. CASE /\ h.t = "rsp" /\ on_rsp(h.n, h.opcode, h.dbid)
           /\ UNCHANGED <<byp, g5, syncing, got, accesses>>
  <2>1. CASE h.opcode = "DBIDResp"
    BY <1>1, <1>2, <1>8, <2>1, TakeDbidInv
  <2>2. CASE h.opcode # "DBIDResp"
    BY <1>1, <1>2, <1>8, <2>2, TakeCompInv
  <2> QED
    BY <2>1, <2>2
<1>9. CASE /\ h.t = "dat"
           /\ \E e \in AbsentRespErr : on_dat(h.n, h.dataid, h.last, e) /\ ~failed'
           /\ got' = [got EXCEPT ![h.n] = Append(@, h.data)]
           /\ UNCHANGED <<byp, g5, syncing, accesses>>
  BY <1>1, <1>2, <1>9, TakeDatInv
<1>10. CASE /\ h.t = "bypass_resp" /\ byp' = [byp EXCEPT ![h.n] = "done"]
            /\ got' = [got EXCEPT ![h.n] = h.data]
            /\ UNCHANGED <<hnfVars, g5, syncing, accesses>>
  BY <1>1, <1>2, <1>10, TakeBypassRespInv
<1> QED
  BY <1>1, <1>4, <1>5, <1>6, <1>7, <1>8, <1>9, <1>10 DEF Gem5Takes

-------------------------------------------------------------------------------
LEMMA InitInv == Init => PeerSimInv
<1> SUFFICES ASSUME Init PROVE PeerSimInv
  OBVIOUS
<1>1. /\ to_peer = << >> /\ to_gem5 = << >> /\ accesses = {} /\ performed = {}
      /\ found = [n \in Accesses |-> << >>] /\ got = [n \in Accesses |-> << >>]
      /\ DOMAIN writes = {} /\ DOMAIN pending_mem = {}
      /\ byp = [p \in Pkts |-> "unsent"]
  BY DEF Init, NoFun
<1>2. /\ req \in [Txns -> Requests] /\ failed = FALSE
      /\ hnf = [t \in Txns |->
                  [phase |-> "unsent", dbid |-> 0, beats |-> 0, completed |-> 0]]
  BY DEF Init, HnfInit
<1>3. /\ Elems(to_peer) = {} /\ Elems(to_gem5) = {} /\ DOMAIN to_peer = {} /\ DOMAIN to_gem5 = {}
      /\ to_peer \in Seq(Elems(to_peer)) /\ to_gem5 \in Seq(Elems(to_gem5))
  BY <1>1, ListEmpty DEF Elems
<1>4. PeerInv /\ Gem5Inv /\ MemInv
  BY <1>1, <1>3 DEF PeerInv, PeerApart, Gem5Inv, Gem5Apart, BeatsInOrder, MemInv
<1>5. ASSUME NEW n \in Accesses PROVE AccessInv(n)
  <2>1. Untouched(n) /\ ~Busy(n)
    BY <1>1 DEF Untouched, Busy
  <2>2. CallbackInv(n) /\ FoundInv(n)
    BY <1>1 DEF CallbackInv, FoundInv
  <2>3. ASSUME n \in Txns PROVE EntryInv(n)
    <3>1. /\ hnf[n].phase = "unsent" /\ hnf[n].beats = 0 /\ hnf[n].completed = 0
          /\ req[n] \in Requests
      BY <1>2, <2>3
    <3>2. req[n].op \in {"read", "write", "other"} /\ beats_expected(req[n]) \in Nat
      BY <3>1, RequestsAssumption, BeatsNat
    <3>3. got[n] = [i \in 1 .. 0 |-> found[n][i]]
      BY <1>1, EmptyList
    <3>4. got[n] = [i \in 1 .. hnf[n].beats |-> found[n][i]]
      BY <3>1, <3>3
    <3>5. n \notin DOMAIN writes /\ n \notin performed
      BY <1>1
    <3>6. hnf[n].beats <= beats_expected(req[n])
      BY <3>1, <3>2
    <3>7. hnf[n].phase \notin {"wait_data", "wait_comp"} /\ hnf[n].completed # 1
      BY <3>1
    <3>8. (CASE req[n].op = "read"  -> hnf[n].phase \in {"unsent", "read"}
             [] req[n].op = "write" ->
                    hnf[n].phase \in {"unsent", "wait_dbid", "wait_data", "wait_comp"}
             [] req[n].op = "other" -> hnf[n].phase \in {"unsent", "other"})
      BY <3>1, <3>2
    <3>9. hnf[n].completed \in {0, 1} /\ ~(hnf[n].beats # 0)
      BY <3>1
    <3> QED
      BY <2>1, <3>4, <3>5, <3>6, <3>7, <3>8, <3>9 DEF EntryInv
  <2>4. ASSUME n \in Pkts PROVE PktInv(n)
    BY <1>1, <2>1, <2>4 DEF PktInv
  <2> QED
    BY <2>2, <2>3, <2>4 DEF AccessInv
<1>6. FrameOK
  <2>1. HnfTypeOK
    BY <1>2 DEF HnfTypeOK, HnfEntries, Phases
  <2>2. /\ DOMAIN writes \subseteq Txns /\ Range(writes) \subseteq 1 .. MaxDbid
        /\ DOMAIN pending_mem \subseteq 1 .. mem_id - 1
        /\ Range(pending_mem) \subseteq Callbacks
    BY <1>1 DEF Range
  <2>3. dbid \in 0 .. MaxDbid /\ mem_id \in Nat \ {0} /\ syncs \in 0 .. MaxSyncs
        /\ syncs < MaxSyncs
    BY PeerAssumption DEF Init
  <2>4. TypeOK
    BY <1>1, <2>1, <2>2, <2>3 DEF Init, TypeOK
  <2> QED
    BY <1>1, <1>2, <1>3, <2>3, <2>4 DEF FrameOK
<1> QED
  BY <1>4, <1>5, <1>6 DEF PeerSimInv

LEMMA StepInv == PeerSimInv /\ [Next]_vars /\ ~Gem5Refuses => PeerSimInv'
<1> SUFFICES ASSUME PeerSimInv, [Next]_vars, ~Gem5Refuses PROVE PeerSimInv'
  OBVIOUS
<1>1. CASE PeerHello
  BY <1>1, HelloInv
<1>2. CASE PeerHandles
  BY <1>2, HandlesInv
<1>3. CASE Breaks
  BY <1>3, EndsInv DEF Breaks
<1>4. CASE PeerTimeout
  BY <1>4, EndsInv DEF PeerTimeout
<1>5. CASE Gem5Starts
  BY <1>5, StartsInv
<1>6. CASE Gem5Sync
  BY <1>6, SyncInv
<1>7. CASE Gem5Leaves
  BY <1>7, LeavesInv
<1>8. CASE Gem5Takes
  BY <1>8, TakesInv
<1>9. ASSUME NEW t \in Txns, Gem5Flit(t) PROVE PeerSimInv'
  BY <1>9, SendReqInv, SendDatInv DEF Gem5Flit
<1>10. ASSUME NEW p \in Pkts, Gem5Bypass(p) PROVE PeerSimInv'
  BY <1>10, SendBypassInv
<1>11. ASSUME NEW m \in accesses, Gem5Performs(m) PROVE PeerSimInv'
  BY <1>11, PerformsInv
<1>12. CASE UNCHANGED vars
  <2>1. PeerQuiet /\ Gem5Quiet
    BY <1>12 DEF vars, PeerQuiet, Gem5Quiet
  <2>2. StateSame /\ accesses' = accesses
    BY <1>12 DEF StateSame, vars, peerVars, ddrVars, g5Vars, hnfVars
  <2>3. peer_pc' = peer_pc /\ syncs' = syncs /\ g5' = g5 /\ syncing' = syncing
    BY <1>12 DEF vars, peerVars, g5Vars
  <2>4. /\ peer_pc' \in {"hello", "serve", "exit0", "exit1", "broken"}
        /\ syncs' \in 0 .. MaxSyncs /\ (PeerUp' => syncs' < MaxSyncs)
        /\ g5' \in {"start", "hello", "run", "gone"} /\ syncing' \in BOOLEAN
    BY <2>3 DEF PeerSimInv, FrameOK, TypeOK, PeerUp
  <2> QED
    BY <2>1, <2>2, <2>4, QuietStep
<1> QED
  BY <1>1, <1>2, <1>3, <1>4, <1>5, <1>6, <1>7, <1>8, <1>9, <1>10, <1>11, <1>12 DEF Next

(***************************************************************************)
(* A gem5 that wants respErr ends over a CompData beat, which is the one   *)
(* it expects in all but that.          From then on nothing it has or had *)
(* changes, and the peer can only end.                                     *)
(***************************************************************************)
Refused == {} \in AbsentRespErr /\ failed /\ g5 = "gone" /\ TypeOK

LEMMA RefusesStep ==
    ASSUME PeerSimInv, Gem5Refuses
    PROVE  /\ Refused' /\ RefusesRespErr
           /\ UNCHANGED <<req, hnf, bypass, byp, mem, performed, found, got>>
<1>1. PICK h : h = Head(to_gem5)
  OBVIOUS
<1>2. /\ to_gem5 # << >> /\ failed' /\ g5' = "gone"
      /\ UNCHANGED <<peer_pc, dbid, writes, pending_mem, mem_id, syncs>>
      /\ UNCHANGED <<bypass, byp, mem, performed, found, got, syncing>>
  BY DEF Gem5Refuses, peerVars
<1>3. TypeOK /\ HnfTypeOK /\ ~failed
  BY DEF PeerSimInv, FrameOK, TypeOK
<1>4. h.t = "rsp" => ~on_rsp(h.n, h.opcode, h.dbid)
  BY <1>1, <1>2, <1>3, DbidStep, CompStep
<1>5. PICK e \in AbsentRespErr : h.t = "dat" /\ on_dat(h.n, h.dataid, h.last, e)
  BY <1>1, <1>4 DEF Gem5Refuses
<1>6. h.n \in Txns /\ DatAccepted(hnf[h.n], req[h.n], h.dataid, h.last, {0})
  BY <1>1, <1>2, <1>5, DatExpected
<1>7. ~DatAccepted(hnf[h.n], req[h.n], h.dataid, h.last, e)
      /\ UNCHANGED <<req, hnf>>
  BY <1>2, <1>3, <1>5 DEF on_dat
<1>8. e = {}
  BY <1>6, <1>7, PeerAssumption
<1>9. failed' \in BOOLEAN
  BY <1>2, <1>5 DEF on_dat
<1>10. TypeOK'
  BY <1>2, <1>3, <1>7, <1>9 DEF TypeOK, HnfTypeOK
<1> QED
  BY <1>1, <1>2, <1>5, <1>6, <1>7, <1>8, <1>10 DEF Refused, RefusesRespErr

LEMMA RefusedStep ==
    ASSUME Refused, [Next]_vars
    PROVE  /\ Refused'
           /\ UNCHANGED <<req, hnf, failed, bypass, byp, mem, performed, found, got>>
<1>1. /\ failed /\ g5 = "gone" /\ {} \in AbsentRespErr /\ HnfTypeOK
      /\ peer_pc \in {"hello", "serve", "exit0", "exit1", "broken"}
      /\ dbid \in 0 .. MaxDbid /\ mem_id \in Nat \ {0} /\ syncs \in 0 .. MaxSyncs
      /\ DOMAIN writes \subseteq Txns /\ Range(writes) \subseteq 1 .. MaxDbid
      /\ DOMAIN pending_mem \subseteq 1 .. mem_id - 1
      /\ Range(pending_mem) \subseteq Callbacks
      /\ bypass \in [Pkts -> Bypasses] /\ byp \in [Pkts -> {"unsent", "sent", "done"}]
      /\ syncing \in BOOLEAN
  BY DEF Refused, TypeOK
<1>2. \A ms : Answer(ms) => ms = << >>
  BY <1>1 DEF Answer
<1>3. ASSUME NEW b PROVE <<b>> # << >>
  OBVIOUS
<1>4. ASSUME NEW b, NEW c PROVE <<b, c>> # << >>
  OBVIOUS
<1>5. CASE PeerHello \/ Breaks \/ PeerTimeout \/ UNCHANGED vars
  <2>1. /\ UNCHANGED <<req, hnf, failed, bypass, byp, mem, performed, found, got>>
        /\ UNCHANGED <<g5, syncing, dbid, writes, pending_mem, mem_id, syncs>>
        /\ peer_pc' \in {"hello", "serve", "exit0", "exit1", "broken"}
    BY <1>1, <1>2, <1>3, <1>5 DEF PeerHello, Breaks, PeerTimeout, PeerEnds, memoryless,
       vars, peerVars, ddrVars, g5Vars, hnfVars
  <2> QED
    BY <1>1, <2>1 DEF Refused, TypeOK, HnfTypeOK
<1>6. CASE PeerHandles
  <2>1. /\ UNCHANGED <<req, hnf, failed, bypass, byp, mem, performed, found, got>>
        /\ UNCHANGED <<g5, syncing>>
    BY <1>6 DEF PeerHandles, ddrVars, g5Vars, hnfVars
  <2>2. ~on_sync
    BY <1>2, <1>3, <1>4 DEF on_sync
  <2>3. \A n, c : ~mem_access(n, c)
    BY <1>2, <1>3 DEF mem_access
  <2>4. /\ UNCHANGED <<dbid, mem_id, syncs>>
        /\ peer_pc' \in {"hello", "serve", "exit0", "exit1", "broken"}
        /\ \/ UNCHANGED <<writes, pending_mem>>
           \/ \E m : deliver_mem(m)
    <3>1. PICK h : h = Head(to_peer)
      OBVIOUS
    <3>2. CASE on_req_flit(h.n) /\ UNCHANGED <<peer_pc, syncs>>
      <4>1. \A d : ~Answer(<<[t |-> "rsp", n |-> h.n, opcode |-> "DBIDResp", dbid |-> d]>>)
        BY <1>2, <1>3
      <4> QED
        BY <1>1, <2>3, <3>2, <4>1 DEF on_req_flit
    <3>3. CASE on_dat_flit(h.n) /\ UNCHANGED <<peer_pc, syncs>>
      BY <1>1, <2>3, <3>3 DEF on_dat_flit, mem_access
    <3>4. ~on_bypass(h.n)
      BY <2>3 DEF on_bypass
    <3>5. CASE deliver_mem(h) /\ UNCHANGED <<peer_pc, syncs>>
      BY <1>1, <3>5 DEF deliver_mem
    <3>6. CASE on_end /\ memoryless /\ UNCHANGED syncs
      BY <1>1, <3>6 DEF on_end, memoryless
    <3> QED
      BY <1>6, <2>2, <3>1, <3>2, <3>3, <3>4, <3>5, <3>6 DEF PeerHandles
  <2>5. /\ DOMAIN writes' \subseteq Txns /\ Range(writes') \subseteq 1 .. MaxDbid
        /\ DOMAIN pending_mem' \subseteq 1 .. mem_id - 1
        /\ Range(pending_mem') \subseteq Callbacks
    BY <1>1, <2>4 DEF deliver_mem, Restrict, Range
  <2> QED
    BY <1>1, <2>1, <2>4, <2>5 DEF Refused, TypeOK, HnfTypeOK
<1>7. ~(Gem5Starts \/ Gem5Sync \/ Gem5Leaves \/ Gem5Takes \/ Gem5Refuses)
  BY <1>1 DEF Gem5Starts, Gem5Sync, Gem5Leaves, Gem5Takes, Gem5Refuses, Gem5Sends
<1>8. /\ \A t \in Txns : ~Gem5Flit(t)
      /\ \A p \in Pkts : ~Gem5Bypass(p)
      /\ \A m \in accesses : ~Gem5Performs(m)
  BY <1>1 DEF Gem5Flit, Gem5Bypass, Gem5Performs, Gem5Sends
<1> QED
  BY <1>5, <1>6, <1>7, <1>8 DEF Next

\* Each access is in the one place its state calls for, as a request, a
\* callback, a memory access, a reply or an answer, unless gem5 has ended over
\* a respErr.
THEOREM PeerInvariant == Spec => [](PeerSimInv \/ Refused)
<1>1. (PeerSimInv \/ Refused) /\ [Next]_vars => (PeerSimInv \/ Refused)'
  BY StepInv, RefusesStep, RefusedStep
<1> QED
  BY InitInv, <1>1, PTL DEF Spec

(***************************************************************************)
(* Every variable of the peer keeps its type, a dbid is never 0, and each  *)
(* pending callback has an id already handed out: next_dbid, mem_read,     *)
(* mem_write and deliver_mem of tb_peer_sim.py.                            *)
(***************************************************************************)
THEOREM PeerTypes == Spec => []TypeOK
<1>1. PeerSimInv \/ Refused => TypeOK
  BY DEF PeerSimInv, FrameOK, Refused
<1> QED
  BY <1>1, PeerInvariant, PTL

(***************************************************************************)
(* A gem5 that reads a respErr that is not there as 0 never raises a       *)
(* ContractError at the peer's flits: each DBIDResp and Comp and each beat *)
(* is the one its home node expects.                                       *)
(***************************************************************************)
THEOREM GemFailsOverRespErr == Spec => [](failed => {} \in AbsentRespErr)
<1>1. PeerSimInv \/ Refused => (failed => {} \in AbsentRespErr)
  BY DEF PeerSimInv, FrameOK, Refused
<1> QED
  BY <1>1, PeerInvariant, PTL

-------------------------------------------------------------------------------
(***************************************************************************)
(* TbPeerSim implements SnfPort, step by step.                             *)
(***************************************************************************)
LEMMA StageIs ==
    ASSUME ~failed, NEW t \in Txns
    PROVE  /\ hnf[t].completed = 1 => StageOf(t) = "done"
           /\ hnf[t].completed = 0 =>
                 /\ hnf[t].phase = "unsent" => StageOf(t) = "idle"
                 /\ hnf[t].phase = "wait_data" => StageOf(t) = "granted"
                 /\ hnf[t].phase = "wait_comp" => StageOf(t) = "sent"
                 /\ hnf[t].phase \notin {"unsent", "wait_data", "wait_comp"} => StageOf(t) = "asked"
BY DEF StageOf

LEMMA PortStutter ==
    ASSUME UNCHANGED <<req, hnf, failed>>
    PROVE  UNCHANGED Port!portVars
<1>1. \A t \in Txns : StageOf(t)' = StageOf(t)
  BY DEF StageOf
<1>2. \A t \in Txns : beats_expected(req[t])' = beats_expected(req[t])
  OBVIOUS
<1> QED
  BY <1>1, <1>2 DEF Port!portVars

\* Steps that change the home node's entry of u only.
LEMMA PortMove ==
    ASSUME req' = req, NEW u \in Txns, \A t \in Txns : t # u => hnf'[t] = hnf[t],
           ~failed, ~failed', NEW from, NEW to, StageOf(u) = from, StageOf(u)' = to
    PROVE  Port!Move(u, from, to)
<1>1. \A t \in Txns : t # u => StageOf(t)' = StageOf(t)
  BY DEF StageOf
<1>2. \A t \in Txns : beats_expected(req[t])' = beats_expected(req[t])
  OBVIOUS
<1> QED
  BY <1>1, <1>2 DEF Port!Move

LEMMA PortSeesInit == Init => Port!Init
<1> SUFFICES ASSUME Init PROVE Port!Init
  OBVIOUS
<1>1. /\ req \in [Txns -> Requests] /\ ~failed
      /\ \A t \in Txns : hnf[t].phase = "unsent" /\ hnf[t].completed = 0 /\ hnf[t].beats = 0
  BY DEF Init, HnfInit
<1>2. ASSUME NEW t \in Txns
      PROVE  req[t].op \in {"read", "write", "other"} /\ beats_expected(req[t]) \in Nat
  BY <1>1, RequestsAssumption, BeatsNat
<1>3. ASSUME NEW t \in Txns PROVE StageOf(t) = "idle"
  BY <1>1, StageIs
<1> QED
  BY <1>1, <1>2, <1>3 DEF Port!Init

\* What the home node knows of t, before a flit about it.
LEMMA EntryFacts ==
    ASSUME PeerSimInv, NEW t \in Txns
    PROVE  /\ EntryInv(t) /\ ~failed /\ HnfTypeOK
           /\ req[t].op \in {"read", "write", "other"}
           /\ hnf[t].beats \in Nat
           /\ hnf[t].phase \in {"unsent", "wait_dbid", "wait_data"} => hnf[t].completed = 0
<1>1. EntryInv(t) /\ ~failed /\ HnfTypeOK
  BY DEF PeerSimInv, AccessInv, FrameOK, TypeOK, Accesses
<1>2. req[t].op \in {"read", "write", "other"} /\ hnf[t].beats \in Nat
  BY <1>1, RequestsAssumption DEF HnfTypeOK, HnfEntries
<1>3. hnf[t].phase \in {"unsent", "wait_dbid", "wait_data"} => hnf[t].completed = 0
  BY <1>1 DEF EntryInv, Untouched, Served1
<1> QED
  BY <1>1, <1>2, <1>3

LEMMA PortSeesTakes ==
    ASSUME PeerSimInv, PeerSimInv', Gem5Takes
    PROVE  [Port!Next]_(Port!portVars)
<1>1. PICK h : h = Head(to_gem5)
  OBVIOUS
<1>2. to_gem5 # << >>
  BY DEF Gem5Takes
<1>3. ~failed /\ ~failed'
  BY DEF PeerSimInv, FrameOK
<1>4. CASE UNCHANGED hnfVars
  BY <1>4, PortStutter DEF hnfVars
<1>5. CASE h.t = "rsp" /\ on_rsp(h.n, h.opcode, h.dbid) /\ h.opcode = "DBIDResp"
  <2>1. PICK u : u = h.n
    OBVIOUS
  <2>2. /\ u \in Txns /\ hnf[u].phase = "wait_dbid" /\ req' = req
        /\ \A x \in Txns : x # u => hnf'[x] = hnf[x]
        /\ hnf'[u].phase = "wait_data" /\ hnf'[u].beats = hnf[u].beats
        /\ hnf'[u].completed = hnf[u].completed
    BY <1>1, <1>2, <1>5, <2>1, DbidStep
  <2>3. hnf[u].completed = 0 /\ req[u].op = "write"
    BY <2>2, EntryFacts DEF EntryInv
  <2>4. StageOf(u) = "asked"
    BY <1>3, <2>2, <2>3, StageIs
  <2>5. StageOf(u)' = "granted"
    BY <1>3, <2>2, <2>3 DEF StageOf
  <2>6. Port!Move(u, "asked", "granted")
    BY <1>3, <2>2, <2>4, <2>5, PortMove
  <2>7. \A x \in Txns : hnf'[x].beats = hnf[x].beats
    BY <2>2
  <2>8. Port!DBIDResp(u)
    BY <2>2, <2>3, <2>6, <2>7 DEF Port!DBIDResp
  <2> QED
    BY <2>2, <2>8 DEF Port!Next
<1>6. CASE h.t = "rsp" /\ on_rsp(h.n, h.opcode, h.dbid) /\ h.opcode # "DBIDResp"
  <2>1. PICK u : u = h.n
    OBVIOUS
  <2>2. /\ u \in Txns /\ hnf[u].phase = "wait_comp" /\ hnf[u].completed = 0 /\ req' = req
        /\ \A x \in Txns : x # u => hnf'[x] = hnf[x]
        /\ hnf'[u].phase = hnf[u].phase /\ hnf'[u].beats = hnf[u].beats
        /\ hnf'[u].completed = 1
    BY <1>1, <1>2, <1>6, <2>1, CompStep
  <2>3. StageOf(u) = "sent"
    BY <1>3, <2>2, StageIs
  <2>4. StageOf(u)' = "done"
    BY <1>3, <2>2 DEF StageOf
  <2>5. Port!Move(u, "sent", "done")
    BY <1>3, <2>2, <2>3, <2>4, PortMove
  <2>6. \A x \in Txns : hnf'[x].beats = hnf[x].beats
    BY <2>2
  <2>7. Port!Comp(u)
    BY <2>5, <2>6 DEF Port!Comp
  <2> QED
    BY <2>2, <2>7 DEF Port!Next
<1>7. CASE /\ h.t = "dat"
           /\ \E e \in AbsentRespErr : on_dat(h.n, h.dataid, h.last, e) /\ ~failed'
  <2>1. PICK u : u = h.n
    OBVIOUS
  <2>2. /\ DatOK(h) /\ h.dataid = hnf[u].beats /\ req' = req
        /\ \A x \in Txns : x # u => hnf'[x] = hnf[x]
        /\ hnf'[u].beats = hnf[u].beats + 1 /\ hnf'[u].phase = hnf[u].phase
        /\ hnf'[u].completed = IF h.last THEN 1 ELSE 0
    BY <1>1, <1>2, <1>3, <1>7, <2>1, DatStep
  <2>3. /\ u \in Txns /\ hnf[u].phase = "read" /\ hnf[u].completed = 0
        /\ h.last = (hnf[u].beats + 1 = beats_expected(req[u]))
    BY <2>1, <2>2 DEF DatOK
  <2>4. req[u].op = "read"
    BY <2>3, EntryFacts DEF EntryInv
  <2>5. StageOf(u) = "asked"
    BY <1>3, <2>3, StageIs
  <2>6. PICK x : x = IF hnf[u].beats + 1 = beats_expected(req[u]) THEN "done" ELSE "asked"
    OBVIOUS
  <2>7. StageOf(u)' = x
    <3>1. CASE h.last
      <4>1. hnf'[u].completed = 1
        BY <2>2, <3>1
      <4>2. x = "done"
        BY <2>3, <2>6, <3>1
      <4> QED
        BY <1>3, <4>1, <4>2 DEF StageOf
    <3>2. CASE ~h.last
      <4>1. hnf'[u].completed = 0 /\ hnf'[u].phase = "read"
        BY <2>2, <2>3, <3>2
      <4>2. x = "asked"
        BY <2>3, <2>6, <3>2
      <4> QED
        BY <1>3, <4>1, <4>2 DEF StageOf
    <3> QED
      BY <3>1, <3>2
  <2>8. Port!Move(u, "asked", x)
    BY <1>3, <2>2, <2>3, <2>5, <2>7, PortMove
  <2>9. [t \in Txns |-> hnf'[t].beats] = [[t \in Txns |-> hnf[t].beats] EXCEPT ![u] = @ + 1]
    BY <2>2
  <2>10. Port!CompData(u)
    BY <2>3, <2>4, <2>6, <2>8, <2>9 DEF Port!CompData
  <2> QED
    BY <2>3, <2>10 DEF Port!Next
<1> QED
  BY <1>1, <1>4, <1>5, <1>6, <1>7 DEF Gem5Takes

LEMMA PortSeesFlit ==
    ASSUME PeerSimInv, PeerSimInv', NEW u \in Txns, Gem5Flit(u)
    PROVE  Port!Ask(u) \/ Port!WriteData(u)
<1>1. ~failed /\ ~failed' /\ HnfTypeOK
  BY DEF PeerSimInv, FrameOK, TypeOK
<1>2. CASE expect(u)
  <2>1. /\ hnf[u].phase = "unsent" /\ req' = req
        /\ \A x \in Txns : x # u => hnf'[x] = hnf[x]
        /\ hnf'[u].phase \in {"read", "wait_dbid", "other"} /\ hnf'[u].beats = hnf[u].beats
        /\ hnf'[u].completed = hnf[u].completed
    BY <1>1, <1>2, ReqSent
  <2>2. hnf[u].completed = 0
    BY <2>1, EntryFacts
  <2>3. StageOf(u) = "idle"
    BY <1>1, <2>1, <2>2, StageIs
  <2>4. StageOf(u)' = "asked"
    BY <1>1, <2>1, <2>2 DEF StageOf
  <2>5. Port!Move(u, "idle", "asked")
    BY <1>1, <2>1, <2>3, <2>4, PortMove
  <2>6. \A x \in Txns : hnf'[x].beats = hnf[x].beats
    BY <2>1
  <2> QED
    BY <2>5, <2>6 DEF Port!Ask
<1>3. CASE send_write_data(u)
  <2>1. /\ hnf[u].phase = "wait_data" /\ req' = req
        /\ \A x \in Txns : x # u => hnf'[x] = hnf[x]
        /\ hnf'[u].phase = "wait_comp" /\ hnf'[u].beats = hnf[u].beats
        /\ hnf'[u].completed = hnf[u].completed
    BY <1>1, <1>3, DataSent
  <2>2. hnf[u].completed = 0
    BY <2>1, EntryFacts
  <2>3. StageOf(u) = "granted"
    BY <1>1, <2>1, <2>2, StageIs
  <2>4. StageOf(u)' = "sent"
    BY <1>1, <2>1, <2>2 DEF StageOf
  <2>5. Port!Move(u, "granted", "sent")
    BY <1>1, <2>1, <2>3, <2>4, PortMove
  <2>6. \A x \in Txns : hnf'[x].beats = hnf[x].beats
    BY <2>1
  <2> QED
    BY <2>5, <2>6 DEF Port!WriteData
<1> QED
  BY <1>2, <1>3 DEF Gem5Flit

\* Every other step leaves the home node alone.
LEMMA HnfAlone ==
    ASSUME [Next]_vars, ~Gem5Takes, ~Gem5Refuses, \A u \in Txns : ~Gem5Flit(u)
    PROVE  UNCHANGED hnfVars
BY DEF Next, PeerHello, PeerHandles, Breaks, PeerTimeout, PeerEnds, Gem5Starts, Gem5Sync,
       Gem5Leaves, Gem5Bypass, Gem5Performs, g5Vars, vars

(***************************************************************************)
(* The software peer is a correct SN-F (line 8 of tb_peer_sim.py) but for  *)
(* the respErr its CompData does not carry: whatever the order in which    *)
(* gem5's memory serves it, gem5 sees each request answered once, by the   *)
(* flits its kind calls for, in their order; or it refuses a beat that is  *)
(* right in all but that field.                                            *)
(***************************************************************************)
THEOREM PeerImplementsPort == Spec => ImplementsPortButRespErr
<1>1. (PeerSimInv \/ Refused) /\ (PeerSimInv \/ Refused)' /\ [Next]_vars
         => [Port!Next \/ RefusesRespErr]_(Port!portVars)
  <2> SUFFICES ASSUME PeerSimInv \/ Refused, [Next]_vars
               PROVE  [Port!Next \/ RefusesRespErr]_(Port!portVars)
    OBVIOUS
  <2>1. CASE Refused
    BY <2>1, RefusedStep, PortStutter
  <2>2. CASE PeerSimInv /\ Gem5Refuses
    BY <2>2, RefusesStep
  <2>3. CASE PeerSimInv /\ ~Gem5Refuses
    <3>1. PeerSimInv'
      BY <2>3, StepInv
    <3>2. CASE Gem5Takes
      BY <2>3, <3>1, <3>2, PortSeesTakes
    <3>3. ASSUME NEW u \in Txns, Gem5Flit(u) PROVE [Port!Next]_(Port!portVars)
      BY <2>3, <3>1, <3>3, PortSeesFlit DEF Port!Next
    <3>4. CASE ~Gem5Takes /\ \A u \in Txns : ~Gem5Flit(u)
      BY <2>3, <3>4, HnfAlone, PortStutter DEF hnfVars
    <3> QED
      BY <3>2, <3>3, <3>4
  <2> QED
    BY <2>1, <2>2, <2>3
<1> QED
  BY PortSeesInit, PeerInvariant, <1>1, PTL DEF Spec, ImplementsPortButRespErr

-------------------------------------------------------------------------------
(***************************************************************************)
(* TbPeerSim implements AxiMemory, step by step.                           *)
(***************************************************************************)
LEMMA AnsweredFound ==
    ASSUME PeerSimInv, NEW n \in Accesses
    PROVE  /\ Answered(n) => n \in performed /\ Asked(n) /\ got[n] = found[n]
           /\ Busy(n) \/ n \in performed => Asked(n)
<1>1. AccessInv(n) /\ Txns \cap Pkts = {}
  BY PeerAssumption DEF PeerSimInv
<1>2. CASE n \in Txns
  <2>1. EntryInv(n)
    BY <1>1, <1>2 DEF AccessInv
  <2>2. hnf[n].phase = "unsent" => ~Busy(n) /\ n \notin performed
    BY <2>1 DEF EntryInv, Untouched
  <2>3. hnf[n].completed \in {0, 1}
        /\ (hnf[n].completed = 1 => n \in performed /\ got[n] = found[n])
    BY <2>1 DEF EntryInv, Served1
  <2> QED
    BY <1>2, <2>2, <2>3 DEF Answered, Asked
<1>3. CASE n \notin Txns
  <2>1. n \in Pkts /\ PktInv(n)
    BY <1>1, <1>3 DEF AccessInv, Accesses
  <2> QED
    BY <1>3, <2>1 DEF Answered, Asked, PktInv, Served1, Untouched
<1> QED
  BY <1>2, <1>3

LEMMA AllAnsweredFound ==
    PeerSimInv =>
        \A x \in Accesses : Answered(x) => x \in performed /\ got[x] = found[x]
BY AnsweredFound

LEMMA BurstsFixed ==
    ASSUME UNCHANGED <<req, bypass>>
    PROVE  \A n : Burst(n)' = Burst(n)
BY DEF Burst, blocks_asked, bytes_asked, beats_expected

LEMMA MemorySeesInit == Init => Memory!Init
<1> SUFFICES ASSUME Init PROVE Memory!Init
  OBVIOUS
<1>1. /\ mem = [a \in Blocks |-> None] /\ performed = {}
      /\ found = [n \in Accesses |-> << >>] /\ byp = [p \in Pkts |-> "unsent"]
      /\ hnf = [t \in Txns |->
                  [phase |-> "unsent", dbid |-> 0, beats |-> 0, completed |-> 0]]
  BY DEF Init, HnfInit
<1>2. ASSUME NEW n \in Accesses PROVE ~Asked(n) /\ ~Answered(n)
  BY <1>1 DEF Asked, Answered, Accesses
<1>3. \A n \in Accesses : MemStage(n) = "idle"
  BY <1>1, <1>2 DEF MemStage
<1> QED
  BY <1>1, <1>2, <1>3 DEF Memory!Init, Memory!Bursts

\* A step that performs nothing and takes no request or answer back.
LEMMA MemoryEdge ==
    ASSUME PeerSimInv, PeerSimInv', UNCHANGED <<req, bypass, mem, performed, found>>,
           \A n \in Accesses : (Asked(n) => Asked(n)') /\ (Answered(n) => Answered(n)')
    PROVE  Memory!Edge
<1>1. ASSUME NEW n \in Accesses
      PROVE  /\ Answered(n) => n \in performed
             /\ Answered(n)' => n \in performed /\ got'[n] = found[n]
  <2>1. Answered(n) => n \in performed
    BY AnsweredFound
  <2>2. (PeerSimInv => \A x \in Accesses : Answered(x) => x \in performed /\ got[x] = found[x])'
    BY AllAnsweredFound, PTL
  <2> QED
    BY <2>1, <2>2
<1>2. ASSUME NEW n \in Accesses
      PROVE  /\ MemStage(n)' \in {"idle", "issued", "performed", "answered"}
             /\ \/ MemStage(n)' = MemStage(n)
                \/ MemStage(n) = "idle" /\ MemStage(n)' = "issued"
                \/ MemStage(n) = "performed" /\ MemStage(n)' = "answered"
             /\ MemStage(n)' = "answered" <=> Answered(n)'
  <2>1. CASE n \in performed
    BY <1>1, <2>1 DEF MemStage
  <2>2. CASE n \notin performed
    BY <1>1, <2>2 DEF MemStage
  <2> QED
    BY <2>1, <2>2
<1>3. [n \in Accesses |-> Burst(n)]' = [n \in Accesses |-> Burst(n)]
  BY BurstsFixed
<1>4. [n \in Accesses |-> IF Answered(n) THEN got[n] ELSE << >>]'
        = [n \in Accesses |-> IF MemStage(n)' = "answered" THEN found[n] ELSE << >>]
  BY <1>1, <1>2
<1> QED
  BY <1>2, <1>3, <1>4 DEF Memory!Edge, Memory!Bursts, Memory!Moves

LEMMA MemoryPerforms ==
    ASSUME PeerSimInv, PeerSimInv', NEW m \in accesses, Gem5Performs(m)
    PROVE  m.n \in Accesses /\ Memory!Perform(m.n)
<1>1. PICK n : n = m.n
  OBVIOUS
<1>2. n \in Accesses /\ Busy(n) /\ n \notin performed
  BY <1>1, AloneAtMemory
<1>3. UNCHANGED <<req, hnf, failed, bypass, byp, got>> /\ performed' = performed \cup {n}
  BY <1>1 DEF Gem5Performs, g5Vars, hnfVars
<1>4. \A x \in Accesses : (Asked(x)' <=> Asked(x)) /\ (Answered(x)' <=> Answered(x))
  BY <1>3 DEF Asked, Answered
<1>5. Asked(n) /\ ~Answered(n)
  BY <1>2, AnsweredFound
<1>6. MemStage(n) = "issued" /\ MemStage(n)' = "performed"
  BY <1>2, <1>3, <1>4, <1>5 DEF MemStage
<1>7. \A x \in Accesses : x # n => MemStage(x)' = MemStage(x)
  BY <1>3, <1>4 DEF MemStage
<1>8. [x \in Accesses |-> MemStage(x)]'
        = [[x \in Accesses |-> MemStage(x)] EXCEPT ![n] = "performed"]
  BY <1>2, <1>6, <1>7
<1>9. /\ [x \in Accesses |-> Burst(x)]' = [x \in Accesses |-> Burst(x)]
      /\ [x \in Accesses |-> IF Answered(x) THEN got[x] ELSE << >>]'
            = [x \in Accesses |-> IF Answered(x) THEN got[x] ELSE << >>]
  BY <1>3, <1>4, BurstsFixed
<1>10. \A i \in DOMAIN Burst(n).strb : Burst(n).strb[i] = TRUE
  <2>1. CASE n \in Txns
    BY <2>1 DEF Burst
  <2>2. CASE n \notin Txns
    <3>1. Burst(n).strb = <<TRUE>>
      BY <2>2 DEF Burst
    <3>2. DOMAIN <<TRUE>> = {1} /\ <<TRUE>>[1] = TRUE
      BY ListOne
    <3> QED
      BY <3>1, <3>2
  <2> QED
    BY <2>1, <2>2
<1>11. \/ Burst(n).kind = "write" /\ mem' = Stored(n) /\ UNCHANGED found
       \/ /\ Burst(n).kind = "read"
          /\ found' = [found EXCEPT ![n] = Fetched(n)] /\ UNCHANGED mem
  BY <1>1 DEF Gem5Performs
<1>12. Stored(n) = Memory!Stored(mem, n)
  BY <1>2, <1>10 DEF Stored, Memory!Stored
<1>13. Fetched(n) = Memory!Fetched(mem, n)
  BY <1>2 DEF Fetched, Memory!Fetched
<1>14. Memory!Perform(n)
  BY <1>2, <1>6, <1>8, <1>9, <1>11, <1>12, <1>13 DEF Memory!Perform
<1> QED
  BY <1>1, <1>2, <1>14

\* gem5 takes no request and no answer back.
LEMMA TakesKeeps ==
    ASSUME PeerSimInv, Gem5Takes
    PROVE  /\ UNCHANGED <<req, bypass, mem, performed, found>>
           /\ \A n \in Accesses : (Asked(n) => Asked(n)') /\ (Answered(n) => Answered(n)')
<1>1. PICK h : h = Head(to_gem5)
  OBVIOUS
<1>2. PICK u : u = h.n
  OBVIOUS
<1>3. to_gem5 # << >> /\ UNCHANGED <<bypass, mem, performed, found>>
  BY DEF Gem5Takes
<1>4. CASE UNCHANGED hnfVars /\ byp' = byp
  BY <1>3, <1>4 DEF hnfVars, Asked, Answered
<1>5. CASE h.t = "rsp" /\ on_rsp(h.n, h.opcode, h.dbid) /\ byp' = byp
  <2>1. /\ u \in Txns /\ req' = req /\ \A x \in Txns : x # u => hnf'[x] = hnf[x]
        /\ hnf'[u].phase # "unsent"
        /\ hnf'[u].completed \in {hnf[u].completed, hnf[u].completed + 1}
    BY <1>1, <1>2, <1>3, <1>5, DbidStep, CompStep
  <2>2. hnf[u].completed \in {0, 1}
    BY <2>1, EntryFacts DEF EntryInv
  <2> QED
    BY <1>3, <1>5, <2>1, <2>2 DEF Asked, Answered
<1>6. CASE /\ h.t = "dat" /\ byp' = byp
           /\ \E e \in AbsentRespErr : on_dat(h.n, h.dataid, h.last, e) /\ ~failed'
  <2>1. /\ DatOK(h) /\ req' = req /\ \A x \in Txns : x # u => hnf'[x] = hnf[x]
        /\ hnf'[u].phase = hnf[u].phase
    BY <1>1, <1>2, <1>3, <1>6, DatStep
  <2>2. u \in Txns /\ hnf[u].completed = 0 /\ hnf[u].phase = "read"
    BY <1>2, <2>1 DEF DatOK
  <2> QED
    BY <1>3, <1>6, <2>1, <2>2 DEF Asked, Answered
<1>7. CASE h.t = "bypass_resp" /\ byp' = [byp EXCEPT ![h.n] = "done"] /\ UNCHANGED hnfVars
  <2>1. byp \in [Pkts -> {"unsent", "sent", "done"}]
    BY DEF PeerSimInv, FrameOK, TypeOK
  <2>2. \A p \in Pkts : byp'[p] = byp[p] \/ byp'[p] = "done"
    BY <1>7, <2>1
  <2> QED
    BY <1>3, <1>7, <2>2 DEF hnfVars, Asked, Answered, Accesses
<1> QED
  BY <1>1, <1>4, <1>5, <1>6, <1>7 DEF Gem5Takes

LEMMA MemoryStutter ==
    ASSUME UNCHANGED <<req, hnf, bypass, byp, mem, performed, found, got>>
    PROVE  UNCHANGED Memory!memVars
<1>1. \A n : Burst(n)' = Burst(n)
  BY DEF Burst, blocks_asked, bytes_asked
<1>2. \A n : Asked(n)' = Asked(n) /\ Answered(n)' = Answered(n)
  BY DEF Asked, Answered
<1>3. \A n : MemStage(n)' = MemStage(n)
  BY <1>2 DEF MemStage
<1> QED
  BY <1>1, <1>2, <1>3 DEF Memory!memVars

LEMMA FlitKeeps ==
    ASSUME PeerSimInv, NEW u \in Txns, Gem5Flit(u)
    PROVE  /\ UNCHANGED <<req, bypass, mem, performed, found>>
           /\ \A n \in Accesses : (Asked(n) => Asked(n)') /\ (Answered(n) => Answered(n)')
<1>1. UNCHANGED <<bypass, byp, mem, performed, found>> /\ HnfTypeOK
  BY DEF Gem5Flit, ddrVars, PeerSimInv, FrameOK, TypeOK
<1>2. /\ req' = req /\ \A x \in Txns : x # u => hnf'[x] = hnf[x]
      /\ hnf'[u].phase # "unsent" /\ hnf'[u].completed = hnf[u].completed
  BY <1>1, ReqSent, DataSent DEF Gem5Flit
<1> QED
  BY <1>1, <1>2 DEF Asked, Answered

LEMMA RestKeeps ==
    ASSUME PeerSimInv, [Next]_vars, ~Gem5Takes, ~Gem5Refuses,
           \A u \in Txns : ~Gem5Flit(u), \A m \in accesses : ~Gem5Performs(m)
    PROVE  /\ UNCHANGED <<req, bypass, mem, performed, found>>
           /\ \A n \in Accesses : (Asked(n) => Asked(n)') /\ (Answered(n) => Answered(n)')
<1>1. UNCHANGED hnfVars
  BY HnfAlone
<1>2. CASE UNCHANGED <<bypass, byp, mem, performed, found>>
  BY <1>1, <1>2 DEF hnfVars, Asked, Answered
<1>3. ASSUME NEW p \in Pkts, Gem5Bypass(p)
      PROVE  /\ UNCHANGED <<req, bypass, mem, performed, found>>
             /\ \A n \in Accesses : (Asked(n) => Asked(n)') /\ (Answered(n) => Answered(n)')
  <2>1. /\ UNCHANGED <<req, hnf, bypass, mem, performed, found>>
        /\ byp[p] = "unsent" /\ byp' = [byp EXCEPT ![p] = "sent"]
    BY <1>3 DEF Gem5Bypass, ddrVars, hnfVars
  <2>2. byp \in [Pkts -> {"unsent", "sent", "done"}]
    BY DEF PeerSimInv, FrameOK, TypeOK
  <2>3. \A x \in Pkts : byp'[x] = byp[x] \/ (byp[x] = "unsent" /\ byp'[x] = "sent")
    BY <2>1, <2>2
  <2> QED
    BY <2>1, <2>3 DEF Asked, Answered, Accesses
<1>4. CASE \A p \in Pkts : ~Gem5Bypass(p)
  <2>1. UNCHANGED <<bypass, byp, mem, performed, found>>
    BY <1>4 DEF Next, PeerHello, PeerHandles, Breaks, PeerTimeout, PeerEnds, Gem5Starts,
                Gem5Sync, Gem5Leaves, g5Vars, ddrVars, vars
  <2> QED
    BY <1>2, <2>1
<1> QED
  BY <1>3, <1>4

(***************************************************************************)
(* Requests and bypass packets, through the peer, see one memory: each     *)
(* access takes effect at one moment between its request and its answer,   *)
(* and a read is answered with what it found then, beat for beat.          *)
(***************************************************************************)
THEOREM PeerImplementsMemory == Spec => ImplementsMemory
<1>1. PeerSimInv /\ PeerSimInv' /\ [Next]_vars /\ ~Gem5Refuses => Memory!Next
  <2> SUFFICES ASSUME PeerSimInv, PeerSimInv', [Next]_vars, ~Gem5Refuses
               PROVE  Memory!Next
    OBVIOUS
  <2>1. CASE Gem5Takes
    BY <2>1, TakesKeeps, MemoryEdge DEF Memory!Next
  <2>2. ASSUME NEW u \in Txns, Gem5Flit(u) PROVE Memory!Next
    BY <2>2, FlitKeeps, MemoryEdge DEF Memory!Next
  <2>3. ASSUME NEW m \in accesses, Gem5Performs(m) PROVE Memory!Next
    <3>1. m.n \in Accesses /\ Memory!Perform(m.n)
      BY <2>3, MemoryPerforms
    <3> QED
      BY <3>1 DEF Memory!Next, Memory!Bursts
  <2>4. CASE /\ ~Gem5Takes /\ \A u \in Txns : ~Gem5Flit(u)
             /\ \A m \in accesses : ~Gem5Performs(m)
    BY <2>4, RestKeeps, MemoryEdge DEF Memory!Next
  <2> QED
    BY <2>1, <2>2, <2>3, <2>4
<1>2. UNCHANGED <<req, hnf, bypass, byp, mem, performed, found, got>>
         => UNCHANGED Memory!memVars
  BY MemoryStutter
<1>3. (PeerSimInv \/ Refused) /\ [Next]_vars => [Memory!Next]_(Memory!memVars)
  BY <1>1, <1>2, StepInv, RefusesStep, RefusedStep
<1> QED
  BY MemorySeesInit, PeerInvariant, <1>3, PTL DEF Spec, ImplementsMemory, Memory!Spec
===============================================================================
