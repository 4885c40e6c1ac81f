--------------------------- MODULE CosimBarrierProofs -------------------------
(***************************************************************************)
(* What is proved about CosimBarrier, for every scenario, quantum length   *)
(* and number of barriers: gem5 and the DUT advance in lockstep, a quantum *)
(* starts with everything gem5 sent routed and every memory access of the  *)
(* quanta before answered, and, without a barrier budget, a test whose     *)
(* peer saw a contract violation does not pass.                            *)
(*                                                                         *)
(* The barrier is a token: a sync on its way, a sync the testbench has     *)
(* routed, a running quantum, or an ack on its way.  Token says that there *)
(* is at most one and what the two cycle counts are wherever it is;        *)
(* MemInv follows a memory access once around with it.                     *)
(***************************************************************************)
EXTENDS CosimBarrier, SequenceTheorems, TLAPS

EndTypes == {"bye", "peer_closed"}

\* The messages of each direction.
ToTb ==
    [t : {"hello", "peer_closed"}]
    \cup [t : {"flit_req", "flit_dat", "bypass", "mem_data"}, txn : Txns]
    \cup [t : {"bye"}, reason : {"contract", "workload exit"}]
    \cup [t : {"sync"}, cycle : Int]

ToGem5 ==
    [t : {"hello_ack"}]
    \cup [t : {"dbid", "mem_read", "good", "bad"}, txn : Txns]
    \cup [t : {"bye"}, reason : {"tb"}]
    \cup [t : {"ack"}, cycle : Int]

TypeInv ==
    /\ TypeOK
    /\ scenario \in Scenarios
    /\ to_tb \in Seq(ToTb) /\ to_gem5 \in Seq(ToGem5)
    /\ asked_at \in [Txns -> Nat]
    /\ outbox \in Seq([t : {"flit_req", "bypass"}, txn : Txns])
    /\ pending_write_data \in Seq(Txns)
    /\ quantum_msgs \in Seq([t : {"mem_data"}, txn : Txns])

\* Message m is in s; one of type t is; only types T are; only types T come
\* after one of type t.
In(s, m) == \E i \in DOMAIN s : s[i] = m
Has(s, t) == \E i \in DOMAIN s : s[i].t = t
Only(s, T) == \A i \in DOMAIN s : s[i].t \in T
OnlyAfter(s, t, T) == \A i, j \in DOMAIN s : i < j /\ s[i].t = t => s[j].t \in T

SyncSent == Has(to_tb, "sync")
AckSent == Has(to_gem5, "ack")
SyncRouted == tb_pc = "park" /\ sync_seen /\ ~done
Running == tb_pc = "quantum"

TbLive == tb_pc \in {"handshake", "park", "quantum"}

Start ==
    /\ tb_pc = "handshake" =>
          /\ g_pc \in {"accept", "hello"} \/ G5Gone
          /\ to_gem5 = << >>
          /\ sync_seen => done
          /\ OnlyAfter(to_tb, "hello", EndTypes)
    /\ g_pc = "accept" => tb_pc \in {"handshake", "raised"} /\ to_tb = << >>
    /\ g_pc \in {"accept", "hello"} \/ tb_pc = "handshake" =>
          Only(to_tb, {"hello", "bye", "peer_closed"})
    /\ tb_pc \notin {"handshake", "raised"} => ~Has(to_tb, "hello")

Token ==
    /\ SyncSent \/ SyncRouted \/ Running \/ AckSent =>
          (g_pc = "wait_ack" \/ G5Gone) /\ tb_pc # "handshake"
    /\ SyncSent => ~SyncRouted /\ ~Running /\ ~AckSent
    /\ AckSent => ~SyncRouted /\ ~Running
    /\ Running /\ sync_seen => done
    /\ SyncSent \/ SyncRouted \/ g_pc \in {"accept", "hello", "send"} =>
          cycles_run = g_cycle
    /\ Running => cycles_run = g_cycle + Quantum - cyc
    /\ AckSent \/ g_pc = "reply" => cycles_run = g_cycle + Quantum
    /\ cycles_run \in g_cycle .. g_cycle + Quantum

\* Nothing but the end of the run follows a sync, nothing but bye an ack; and
\* when the next thing to come is a sync, no bypass access is on its way.
Streams ==
    /\ OnlyAfter(to_tb, "sync", EndTypes) /\ OnlyAfter(to_gem5, "ack", {"bye"})
    /\ SyncRouted \/ Running => Only(to_tb, EndTypes)
    /\ ~G5Gone => ~Has(to_tb, "bye") /\ ~Has(to_tb, "peer_closed")
    /\ tb_pc \in {"closing", "closed"} => done
    /\ TbLive /\ (g_pc \in {"send", "reply"} \/ AckSent) => ~Has(to_tb, "bypass")

BarrierInv == Start /\ Token /\ Streams

\* x is in memory since the quantum before.
InMem(x) == work[x] = "mem"
Old(x) == InMem(x) /\ asked_at[x] # syncs_acked
Answered(x, s) == In(s, About("mem_data", x))
Asked(x) == In(to_gem5, About("mem_read", x))

MemOf(x) ==
    /\ asked_at[x] <= syncs_acked
    /\ g_pc \in {"accept", "hello"} => ~InMem(x)
    /\ SyncRouted \/ Running => ~Old(x)
    /\ SyncSent /\ Old(x) => Answered(x, to_tb)
    /\ g_pc = "send" /\ InMem(x) => Old(x) /\ (readable => Answered(x, to_tb))
    /\ g_pc = "reply" /\ InMem(x) => Old(x) /\ Answered(x, quantum_msgs)
    /\ g_pc = "wait_ack" /\ InMem(x) /\ (~Old(x) \/ AckSent) =>
          Asked(x) \/ Answered(x, quantum_msgs)
    /\ AckSent /\ InMem(x) => Old(x)

MemInv == TbLive => \A x \in Txns : MemOf(x)

\* The first message in s that ends the run, if there is one, is m.
FirstEnd(s, m) ==
    \A i \in DOMAIN s :
        /\ s[i].t \in EndTypes
        /\ \A j \in DOMAIN s : j < i => s[j].t \notin EndTypes
        => s[i] = m

\* A contract violation is the first thing that ends the run.
ContractInv ==
    /\ ~G5Gone => ~done /\ ~failed
    /\ failed => tb_pc # "handshake"
    /\ failed /\ done => exit_reason = "contract"
    /\ failed /\ ~done => FirstEnd(to_tb, Bye("contract"))

-------------------------------------------------------------------------------
(***************************************************************************)
(* What the three operations on a stream do to what is in it.              *)
(***************************************************************************)
LEMMA TailElements ==
    ASSUME NEW M, NEW s \in Seq(M), s # << >>
    PROVE  /\ Len(s) \in Nat /\ Len(s) > 0 /\ DOMAIN s = 1 .. Len(s)
           /\ DOMAIN Tail(s) = 1 .. Len(s) - 1 /\ Tail(s) \in Seq(M)
           /\ Head(s) = s[1] /\ Head(s) \in M
           /\ \A i \in 1 .. Len(s) - 1 : Tail(s)[i] = s[i + 1]
<1>1. /\ Head(s) \in M /\ Tail(s) \in Seq(M) /\ Len(Tail(s)) = Len(s) - 1
      /\ \A i \in 1 .. Len(s) - 1 : Tail(s)[i] = s[i + 1]
  BY HeadTailProperties
<1>2. DOMAIN Tail(s) = 1 .. Len(s) - 1
  BY <1>1, LenProperties
<1>3. Len(s) \in Nat /\ Len(s) > 0 /\ DOMAIN s = 1 .. Len(s)
  BY LenProperties, EmptySeq
<1>4. Head(s) = s[1]
  OBVIOUS
<1> QED
  BY <1>1, <1>2, <1>3, <1>4

LEMMA TailHas ==
    ASSUME NEW M, NEW s \in Seq(M), s # << >>, NEW t, NEW T
    PROVE  /\ Has(Tail(s), t) => Has(s, t)
           /\ Has(s, t) => Head(s).t = t \/ Has(Tail(s), t)
           /\ Only(s, T) => Only(Tail(s), T) /\ Head(s).t \in T
           /\ OnlyAfter(s, t, T) => OnlyAfter(Tail(s), t, T)
           /\ OnlyAfter(s, t, T) /\ Head(s).t = t => Only(Tail(s), T)
<1>1. /\ Len(s) \in Nat /\ Len(s) > 0
      /\ DOMAIN s = 1 .. Len(s) /\ DOMAIN Tail(s) = 1 .. Len(s) - 1
      /\ Head(s) = s[1] /\ \A i \in 1 .. Len(s) - 1 : Tail(s)[i] = s[i + 1]
  BY TailElements
<1>2. \A i \in DOMAIN s :
        i # 1 => i - 1 \in DOMAIN Tail(s) /\ Tail(s)[i - 1] = s[i]
  <2> SUFFICES ASSUME NEW i \in DOMAIN s, i # 1
               PROVE  i - 1 \in DOMAIN Tail(s) /\ Tail(s)[i - 1] = s[i]
    OBVIOUS
  <2>1. i \in 1 .. Len(s) /\ Len(s) \in Nat
    BY <1>1
  <2>2. i - 1 \in 1 .. Len(s) - 1 /\ (i - 1) + 1 = i
    BY <2>1
  <2> QED
    BY <1>1, <2>2
<1>3. \A i \in DOMAIN Tail(s) : i + 1 \in DOMAIN s /\ Tail(s)[i] = s[i + 1] /\ 1 < i + 1
  BY <1>1
<1>4. 1 \in DOMAIN s /\ \A i, j \in DOMAIN Tail(s) : i < j => i + 1 < j + 1
  BY <1>1
<1>5. Has(Tail(s), t) => Has(s, t)
  BY <1>3 DEF Has
<1>6. Has(s, t) => Head(s).t = t \/ Has(Tail(s), t)
  BY <1>1, <1>2 DEF Has
<1>7. Only(s, T) => Only(Tail(s), T) /\ Head(s).t \in T
  BY <1>1, <1>3, <1>4 DEF Only
<1>8. OnlyAfter(s, t, T) => OnlyAfter(Tail(s), t, T)
  BY <1>3, <1>4 DEF OnlyAfter
<1>9. OnlyAfter(s, t, T) /\ Head(s).t = t => Only(Tail(s), T)
  BY <1>1, <1>3, <1>4 DEF OnlyAfter, Only
<1> QED
  BY <1>5, <1>6, <1>7, <1>8, <1>9

LEMMA TailIn ==
    ASSUME NEW M, NEW s \in Seq(M), s # << >>, NEW m, In(s, m)
    PROVE  Head(s) = m \/ In(Tail(s), m)
<1>1. /\ Len(s) \in Nat /\ DOMAIN s = 1 .. Len(s) /\ DOMAIN Tail(s) = 1 .. Len(s) - 1
      /\ Head(s) = s[1] /\ \A i \in 1 .. Len(s) - 1 : Tail(s)[i] = s[i + 1]
  BY TailElements
<1>2. \A i \in DOMAIN s :
        i # 1 => i - 1 \in DOMAIN Tail(s) /\ Tail(s)[i - 1] = s[i]
  <2> SUFFICES ASSUME NEW i \in DOMAIN s, i # 1
               PROVE  i - 1 \in DOMAIN Tail(s) /\ Tail(s)[i - 1] = s[i]
    OBVIOUS
  <2>1. i \in 1 .. Len(s) /\ Len(s) \in Nat
    BY <1>1
  <2>2. i - 1 \in 1 .. Len(s) - 1 /\ (i - 1) + 1 = i
    BY <2>1
  <2> QED
    BY <1>1, <2>2
<1> QED
  BY <1>1, <1>2 DEF In

LEMMA ConcatHas ==
    ASSUME NEW M, NEW s \in Seq(M), NEW u \in Seq(M), NEW t, NEW T
    PROVE  /\ Has(s \o u, t) <=> Has(s, t) \/ Has(u, t)
           /\ Only(s \o u, T) <=> Only(s, T) /\ Only(u, T)
           /\ OnlyAfter(s, t, T) /\ Only(u, T) => OnlyAfter(s \o u, t, T)
           /\ ~Has(s, t) /\ OnlyAfter(u, t, T) => OnlyAfter(s \o u, t, T)
<1> DEFINE w == s \o u
<1>1. /\ Len(s) \in Nat /\ Len(u) \in Nat
      /\ DOMAIN s = 1 .. Len(s) /\ DOMAIN u = 1 .. Len(u)
      /\ DOMAIN w = 1 .. Len(s) + Len(u)
      /\ \A i \in 1 .. Len(s) + Len(u) :
           w[i] = IF i <= Len(s) THEN s[i] ELSE u[i - Len(s)]
  BY ConcatProperties, LenProperties
<1> HIDE DEF w
<1>2. \A i \in DOMAIN w : \/ i \in DOMAIN s /\ w[i] = s[i]
                          \/ i - Len(s) \in DOMAIN u /\ w[i] = u[i - Len(s)]
                             /\ i > Len(s)
  BY <1>1
<1>3. \A i \in DOMAIN s : i \in DOMAIN w /\ w[i] = s[i]
  BY <1>1
<1>4. \A i \in DOMAIN u : i + Len(s) \in DOMAIN w /\ w[i + Len(s)] = u[i]
  BY <1>1
<1>5. Has(w, t) <=> Has(s, t) \/ Has(u, t)
  BY <1>2, <1>3, <1>4 DEF Has
<1>6. Only(w, T) <=> Only(s, T) /\ Only(u, T)
  BY <1>2, <1>3, <1>4 DEF Only
<1>7. OnlyAfter(s, t, T) /\ Only(u, T) => OnlyAfter(w, t, T)
  <2> SUFFICES ASSUME OnlyAfter(s, t, T), Only(u, T), NEW i \in DOMAIN w, NEW j \in DOMAIN w,
                      i < j, w[i].t = t
               PROVE  w[j].t \in T
    BY DEF OnlyAfter
  <2>1. CASE j \in DOMAIN s /\ w[j] = s[j]
    BY <1>1, <1>3, <2>1 DEF OnlyAfter
  <2>2. CASE j - Len(s) \in DOMAIN u /\ w[j] = u[j - Len(s)]
    BY <2>2 DEF Only
  <2> QED
    BY <1>2, <2>1, <2>2
<1>8. ~Has(s, t) /\ OnlyAfter(u, t, T) => OnlyAfter(w, t, T)
  <2> SUFFICES ASSUME ~Has(s, t), OnlyAfter(u, t, T), NEW i \in DOMAIN w, NEW j \in DOMAIN w,
                      i < j, w[i].t = t
               PROVE  w[j].t \in T
    BY DEF OnlyAfter
  <2>1. i - Len(s) \in DOMAIN u /\ w[i] = u[i - Len(s)] /\ i > Len(s)
    BY <1>2 DEF Has
  <2>2. j - Len(s) \in DOMAIN u /\ w[j] = u[j - Len(s)] /\ i - Len(s) < j - Len(s)
    BY <1>1, <2>1
  <2> QED
    BY <2>1, <2>2 DEF OnlyAfter
<1> QED
  BY <1>5, <1>6, <1>7, <1>8 DEF w

LEMMA ConcatIn ==
    ASSUME NEW M, NEW s \in Seq(M), NEW u \in Seq(M), NEW m
    PROVE  In(s, m) \/ In(u, m) => In(s \o u, m)
<1> DEFINE w == s \o u
<1>1. /\ Len(s) \in Nat /\ Len(u) \in Nat
      /\ DOMAIN s = 1 .. Len(s) /\ DOMAIN u = 1 .. Len(u)
      /\ DOMAIN w = 1 .. Len(s) + Len(u)
      /\ \A i \in 1 .. Len(s) + Len(u) :
           w[i] = IF i <= Len(s) THEN s[i] ELSE u[i - Len(s)]
  BY ConcatProperties, LenProperties
<1> HIDE DEF w
<1>2. \A i \in DOMAIN s : i \in DOMAIN w /\ w[i] = s[i]
  BY <1>1
<1>3. \A i \in DOMAIN u : i + Len(s) \in DOMAIN w /\ w[i + Len(s)] = u[i]
  BY <1>1
<1>4. In(s, m) \/ In(u, m) => In(w, m)
  BY <1>2, <1>3 DEF In
<1> QED
  BY <1>4 DEF w

LEMMA AppendHas ==
    ASSUME NEW M, NEW s \in Seq(M), NEW e \in M, NEW t, NEW T
    PROVE  /\ Has(Append(s, e), t) <=> Has(s, t) \/ e.t = t
           /\ Only(Append(s, e), T) <=> Only(s, T) /\ e.t \in T
           /\ OnlyAfter(s, t, T) /\ e.t \in T => OnlyAfter(Append(s, e), t, T)
           /\ ~Has(s, t) => OnlyAfter(Append(s, e), t, T)
<1>1. Append(s, e) = s \o <<e>> /\ <<e>> \in Seq(M)
  BY AppendIsConcat
<1>2. Has(<<e>>, t) <=> e.t = t
  BY DEF Has
<1>3. Only(<<e>>, T) <=> e.t \in T
  BY DEF Only
<1>4. OnlyAfter(<<e>>, t, T)
  BY DEF OnlyAfter
<1>5. /\ Has(s \o <<e>>, t) <=> Has(s, t) \/ Has(<<e>>, t)
      /\ Only(s \o <<e>>, T) <=> Only(s, T) /\ Only(<<e>>, T)
      /\ OnlyAfter(s, t, T) /\ Only(<<e>>, T) => OnlyAfter(s \o <<e>>, t, T)
      /\ ~Has(s, t) /\ OnlyAfter(<<e>>, t, T) => OnlyAfter(s \o <<e>>, t, T)
  BY <1>1, ConcatHas, Zenon
<1> QED
  BY <1>1, <1>2, <1>3, <1>4, <1>5

LEMMA AppendIn ==
    ASSUME NEW M, NEW s \in Seq(M), NEW e \in M, NEW m
    PROVE  In(s, m) \/ e = m => In(Append(s, e), m)
<1>1. Append(s, e) = s \o <<e>> /\ <<e>> \in Seq(M)
  BY AppendIsConcat
<1>2. In(<<e>>, e)
  BY DEF In
<1> QED
  BY <1>1, <1>2, ConcatIn

\* What LoseUnflushed leaves.
LEMMA PrefixHas ==
    ASSUME NEW M, NEW s \in Seq(M), NEW n \in 0 .. Len(s), NEW t, NEW T
    PROVE  /\ SubSeq(s, 1, n) \in Seq(M)
           /\ Has(SubSeq(s, 1, n), t) => Has(s, t)
           /\ OnlyAfter(s, t, T) => OnlyAfter(SubSeq(s, 1, n), t, T)
<1> DEFINE w == SubSeq(s, 1, n)
<1>1. Len(s) \in Nat /\ DOMAIN s = 1 .. Len(s)
  BY LenProperties
<1>2. /\ w \in Seq(M) /\ DOMAIN w = 1 .. n
      /\ \A i \in 1 .. n : w[i] = s[i]
  <2>1. \A i \in 1 .. n : s[i] \in M
    BY <1>1, ElementOfSeq
  <2>2. /\ w \in Seq(M) /\ Len(w) = (IF 1 <= n THEN n - 1 + 1 ELSE 0)
        /\ \A i \in 1 .. n - 1 + 1 : w[i] = s[1 + i - 1]
    BY <1>1, <2>1, SubSeqProperties
  <2> HIDE DEF w
  <2>3. Len(w) = n
    BY <1>1, <2>2
  <2> QED
    BY <1>1, <2>2, <2>3, LenProperties
<1> HIDE DEF w
<1>3. \A i \in DOMAIN w : i \in DOMAIN s /\ w[i] = s[i]
  BY <1>1, <1>2
<1> QED
  BY <1>2, <1>3 DEF Has, OnlyAfter, w

-------------------------------------------------------------------------------
(***************************************************************************)
(* Types.                                                                  *)
(***************************************************************************)
LEMMA Messages ==
    /\ Msg("hello") \in ToTb /\ Msg("peer_closed") \in ToTb
    /\ Bye("contract") \in ToTb /\ Bye("workload exit") \in ToTb
    /\ \A x \in Txns : About("flit_dat", x) \in ToTb
    /\ \A c \in Int : AtCycle("sync", c) \in ToTb /\ AtCycle("ack", c) \in ToGem5
    /\ Msg("hello_ack") \in ToGem5 /\ Bye("tb") \in ToGem5
    /\ \A x \in Txns : \A t \in {"dbid", "mem_read", "good", "bad"} :
          About(t, x) \in ToGem5
BY DEF Msg, Bye, About, AtCycle, ToTb, ToGem5

\* What a message's type says of its fields.
LEMMA Fields ==
    /\ \A m \in ToTb :
         /\ m.t \in {"hello", "peer_closed", "flit_req", "flit_dat", "bypass",
                     "mem_data", "bye", "sync"}
         /\ m.t \in {"flit_req", "flit_dat", "bypass", "mem_data"} => m.txn \in Txns
         /\ m.t = "bye" => m.reason \in {"contract", "workload exit"}
         /\ m.t = "sync" => m.cycle \in Int
    /\ \A m \in ToGem5 :
         m.t \in {"dbid", "mem_read", "good", "bad"} => m.txn \in Txns
BY DEF ToTb, ToGem5

LEMMA TypeInit == Init => TypeInv
<1> SUFFICES ASSUME Init PROVE TypeInv
  OBVIOUS
<1>1. /\ sync_cycle \in Int /\ cyc \in 0 .. Quantum
      /\ syncs_acked \in Nat /\ cycles_run \in Nat /\ g_cycle \in Nat /\ syncs \in Nat
  <2>1. /\ sync_cycle = -1 /\ cyc = 0 /\ syncs_acked = 0 /\ cycles_run = 0
        /\ g_cycle = 0 /\ syncs = 0
    BY DEF Init
  <2> QED
    BY <2>1, BarrierAssumption
<1>2. /\ sync_seen \in BOOLEAN /\ done \in BOOLEAN
      /\ failed \in BOOLEAN /\ readable \in BOOLEAN
  BY DEF Init
<1>3. work \in [Txns -> {"none", "accepted", "granted", "data", "mem", "fetched",
                         "answered"}]
  BY DEF Init
<1>4. TypeOK
  BY <1>1, <1>2, <1>3 DEF Init, TypeOK
<1>5. asked_at \in [Txns -> Nat]
  BY DEF Init
<1>6. /\ to_tb = << >> /\ to_gem5 = << >> /\ outbox = << >>
      /\ pending_write_data = << >> /\ quantum_msgs = << >> /\ scenario \in Scenarios
  BY DEF Init
<1> QED
  BY <1>4, <1>5, <1>6 DEF TypeInv

\* Sent puts messages at the end of to_tb, or loses them.
LEMMA SentTypes ==
    ASSUME TypeInv, NEW msgs \in Seq(ToTb), Sent(msgs)
    PROVE  to_tb' \in Seq(ToTb)
<1>1. to_tb \in Seq(ToTb)
  BY DEF TypeInv
<1>2. to_tb \o msgs \in Seq(ToTb)
  BY <1>1, ConcatProperties
<1> QED
  BY <1>1, <1>2 DEF Sent

LEMMA RouteTypes ==
    ASSUME TypeInv, to_tb # << >>, route(Head(to_tb))
    PROVE  /\ to_tb' \in Seq(ToTb) /\ to_gem5' \in Seq(ToGem5)
           /\ work' \in [Txns -> {"none", "accepted", "granted", "data", "mem",
                                  "fetched", "answered"}]
           /\ asked_at' \in [Txns -> Nat] /\ sync_cycle' \in Int
           /\ sync_seen' \in BOOLEAN /\ done' \in BOOLEAN
           /\ exit_reason' \in {"", "budget", "contract", "workload exit",
                                "gem5 peer closed"}
<1> DEFINE m == Head(to_tb)
<1>1. to_tb \in Seq(ToTb) /\ to_gem5 \in Seq(ToGem5) /\ m \in ToTb /\ Tail(to_tb) \in Seq(ToTb)
  BY TailElements DEF TypeInv
<1>2. /\ work \in [Txns -> {"none", "accepted", "granted", "data", "mem",
                            "fetched", "answered"}]
      /\ asked_at \in [Txns -> Nat] /\ syncs_acked \in Nat /\ sync_cycle \in Int
      /\ sync_seen \in BOOLEAN /\ done \in BOOLEAN
      /\ exit_reason \in {"", "budget", "contract", "workload exit",
                          "gem5 peer closed"}
  BY DEF TypeInv, TypeOK
<1>3. /\ m.t \in {"flit_req", "flit_dat", "bypass", "mem_data"} => m.txn \in Txns
      /\ m.t = "bye" => m.reason \in {"contract", "workload exit"}
      /\ m.t = "sync" => m.cycle \in Int
  BY <1>1, Fields
<1>4. to_tb' = Tail(to_tb)
  BY DEF route
<1> HIDE DEF m
<1>5. route(m)
  BY DEF m
<1>6. CASE m.t \in {"flit_req", "flit_dat"}
  BY <1>1, <1>2, <1>3, <1>4, <1>5, <1>6 DEF route
<1>7. CASE m.t = "bypass"
  <2>1. Append(to_gem5, About("mem_read", m.txn)) \in Seq(ToGem5)
    BY <1>1, <1>3, <1>7, Messages, AppendProperties
  <2> QED
    BY <1>1, <1>2, <1>3, <1>4, <1>5, <1>7, <2>1, ZenonT(40) DEF route
<1>8. CASE m.t = "mem_data"
  BY <1>1, <1>2, <1>3, <1>4, <1>5, <1>8 DEF route, deliver
<1>9. CASE m.t = "sync"
  BY <1>1, <1>2, <1>3, <1>4, <1>5, <1>9 DEF route, dutVars
<1>10. CASE m.t \in {"bye", "peer_closed"}
  <2>1. reason(m) \in {"contract", "workload exit", "gem5 peer closed"}
    BY <1>3, <1>10 DEF reason
  <2> QED
    BY <1>1, <1>2, <1>4, <1>5, <1>10, <2>1 DEF route, dutVars
<1> QED
  BY <1>5, <1>6, <1>7, <1>8, <1>9, <1>10 DEF route

LEMMA QuantumTypes ==
    ASSUME TypeInv
    PROVE  /\ Outgoing \in Seq(ToTb) /\ quantum_msgs \in Seq(ToTb)
           /\ outbox \in Seq(ToTb) /\ WriteData \in Seq(ToTb)
           /\ AtCycle("sync", g_cycle) \in ToTb /\ Only(quantum_msgs, {"mem_data"})
<1>1. outbox \in Seq(ToTb)
  <2>1. [t : {"flit_req", "bypass"}, txn : Txns] \subseteq ToTb
    BY DEF ToTb
  <2> QED
    BY <2>1, SeqMonotonic DEF TypeInv
<1>2. quantum_msgs \in Seq(ToTb)
  <2>1. [t : {"mem_data"}, txn : Txns] \subseteq ToTb
    BY DEF ToTb
  <2> QED
    BY <2>1, SeqMonotonic DEF TypeInv
<1>3. WriteData \in Seq(ToTb)
  <2>1. pending_write_data \in Seq(Txns)
    BY DEF TypeInv
  <2>2. /\ Len(pending_write_data) \in Nat
        /\ DOMAIN pending_write_data = 1 .. Len(pending_write_data)
        /\ \A i \in 1 .. Len(pending_write_data) : pending_write_data[i] \in Txns
    BY <2>1, LenProperties, ElementOfSeq
  <2>3. \A i \in 1 .. Len(pending_write_data) :
          About("flit_dat", pending_write_data[i]) \in ToTb
    BY <2>2, Messages
  <2> QED
    BY <2>2, <2>3 DEF WriteData
<1>4. AtCycle("sync", g_cycle) \in ToTb
  <2>1. g_cycle \in Nat
    BY DEF TypeInv, TypeOK
  <2>2. g_cycle \in Int
    BY <2>1
  <2> QED
    BY <2>2, Messages, Zenon
<1>5. outbox \o WriteData \in Seq(ToTb) /\ <<AtCycle("sync", g_cycle)>> \in Seq(ToTb)
  BY <1>1, <1>3, <1>4, ConcatProperties
<1>6. Outgoing \in Seq(ToTb)
  BY <1>5, ConcatProperties DEF Outgoing
<1>7. Only(quantum_msgs, {"mem_data"})
  <2>1. quantum_msgs \in Seq([t : {"mem_data"}, txn : Txns])
    BY DEF TypeInv
  <2>2. \A i \in DOMAIN quantum_msgs : quantum_msgs[i] \in [t : {"mem_data"}, txn : Txns]
    BY <2>1, ElementOfSeq, LenProperties
  <2> QED
    BY <2>2 DEF Only
<1> QED
  BY <1>1, <1>2, <1>3, <1>4, <1>6, <1>7

LEMMA TypeStep == TypeInv /\ [Next]_vars => TypeInv'
<1> SUFFICES ASSUME TypeInv, [Next]_vars PROVE TypeInv'
  OBVIOUS
<1>a. Txns' = Txns /\ ToTb' = ToTb /\ ToGem5' = ToGem5
  <2>1. scenario' = scenario
    BY DEF vars, envVars, Next, Dispatch, Handshake, Unpark, ClockCycle, SendAck,
           Shutdown, HelloTimeout, ParkTimeout, Raise, DutStep, serve, HelloAck,
           SendQuantum, handle, Reply, RecvClosed, G5Timeout, Vanish, Garble
  <2> QED
    BY <2>1 DEF Txns, ToTb, ToGem5
<1>b. /\ to_tb \in Seq(ToTb) /\ to_gem5 \in Seq(ToGem5)
      /\ cycles_run \in Nat /\ syncs_acked \in Nat /\ g_cycle \in Nat /\ syncs \in Nat
      /\ cyc \in 0 .. Quantum /\ sync_cycle \in Int
      /\ asked_at \in [Txns -> Nat] /\ completed \subseteq Txns
      /\ work \in [Txns -> {"none", "accepted", "granted", "data", "mem",
                            "fetched", "answered"}]
  BY DEF TypeInv, TypeOK
<1>c. <<Msg("peer_closed")>> \in Seq(ToTb) /\ <<Msg("hello")>> \in Seq(ToTb)
  <2>1. Msg("peer_closed") \in ToTb /\ Msg("hello") \in ToTb
    BY Messages
  <2> QED
    BY <2>1
<1>d. \A msgs \in Seq(ToTb) :
        /\ Append(msgs, Msg("peer_closed")) \in Seq(ToTb)
        /\ Append(msgs, Bye("contract")) \in Seq(ToTb)
        /\ Append(msgs, Bye("workload exit")) \in Seq(ToTb)
        /\ Append(Append(msgs, Bye("contract")), Msg("peer_closed")) \in Seq(ToTb)
  BY Messages, AppendProperties
<1>e. /\ Crash => to_tb' \in Seq(ToTb)
      /\ \A pc : \A msgs \in Seq(ToTb) : ExitWith(pc, msgs) => to_tb' \in Seq(ToTb)
      /\ \A msgs \in Seq(ToTb) : FailContract(msgs) => to_tb' \in Seq(ToTb)
  BY <1>c, <1>d, SentTypes DEF Crash, ExitWith, FailContract
<1>f. << >> \in Seq(ToTb) /\ quantum_msgs \in Seq(ToTb)
  BY QuantumTypes
<1>1. CASE UNCHANGED vars
  <2>1. TypeOK'
    BY <1>a, <1>1, ZenonT(40) DEF vars, envVars, tbVars, loopVars, dutVars, g5Vars, TypeInv, TypeOK
  <2> QED
    BY <1>a, <1>1, <2>1 DEF vars, envVars, chanVars, tbVars, dutVars, g5Vars, TypeInv
<1>2. CASE Dispatch
  <2>1. to_tb # << >> /\ route(Head(to_tb))
    BY <1>2 DEF Dispatch
  <2> QED
    BY <1>a, <1>2, <2>1, RouteTypes DEF Dispatch, envVars, g5Vars, TypeInv, TypeOK
<1>3. CASE Handshake
  <2>1. CASE Head(to_tb).t = "hello"
    <3>1. to_tb' \in Seq(ToTb)
      BY <1>3, <1>b, <2>1, TailElements DEF Handshake, route
    <3>2. Append(to_gem5, Msg("hello_ack")) \in Seq(ToGem5)
      BY <1>b, Messages, AppendProperties
    <3>3. /\ to_gem5' = Append(to_gem5, Msg("hello_ack")) /\ tb_pc' = "park"
          /\ UNCHANGED <<sync_cycle, sync_seen, done, exit_reason, dutVars>>
      BY <1>3, <2>1 DEF Handshake
    <3> QED
      BY <1>a, <1>3, <3>1, <3>2, <3>3 DEF Handshake, envVars, dutVars, g5Vars, TypeInv,
                                           TypeOK
  <2>2. CASE Head(to_tb).t # "hello"
    <3>1. to_tb # << >> /\ route(Head(to_tb)) /\ tb_pc' = tb_pc
      BY <1>3, <2>2 DEF Handshake
    <3> QED
      BY <1>a, <1>3, <3>1, RouteTypes DEF Handshake, envVars, g5Vars, TypeInv, TypeOK
  <2> QED
    BY <2>1, <2>2
<1>4. CASE Unpark
  <2>1. Append(to_gem5, Bye("tb")) \in Seq(ToGem5)
    BY <1>b, Messages, AppendProperties
  <2>2. /\ to_gem5' \in Seq(ToGem5) /\ tb_pc' \in {"closing", "quantum"}
        /\ cyc' \in {cyc, Quantum} /\ sync_seen' \in BOOLEAN
    BY <1>4, <1>b, <2>1 DEF Unpark, Finish, TakeSync
  <2>3. cyc' \in 0 .. Quantum
    BY <1>b, <2>2, BarrierAssumption
  <2> QED
    BY <1>a, <1>4, <2>2, <2>3 DEF Unpark, envVars, dutVars, g5Vars, TypeInv, TypeOK
<1>5. CASE ClockCycle
  <2>1. cyc > 0 /\ cyc' = cyc - 1 /\ cycles_run' = cycles_run + 1
    BY <1>5 DEF ClockCycle, ClockRuns
  <2>2. cyc' \in 0 .. Quantum /\ cycles_run' \in Nat
    BY <1>b, <2>1, BarrierAssumption
  <2> QED
    <3>1. TypeOK'
      BY <1>a, <1>5, <2>2, ZenonT(40) DEF ClockCycle, envVars, dutVars, g5Vars, TypeInv, TypeOK
    <3> QED
      BY <1>a, <1>5, <3>1 DEF ClockCycle, envVars, chanVars, dutVars, g5Vars, TypeInv
<1>6. CASE SendAck
  <2> DEFINE ack == AtCycle("ack", sync_cycle)
  <2>1. ack \in ToGem5 /\ Bye("tb") \in ToGem5
    BY <1>b, Messages
  <2>2. to_gem5 \o <<ack, Bye("tb")>> \in Seq(ToGem5) /\ Append(to_gem5, ack) \in Seq(ToGem5)
    <3> HIDE DEF ack
    <3>1. <<ack, Bye("tb")>> \in Seq(ToGem5)
      BY <2>1
    <3> QED
      BY <1>b, <2>1, <3>1, ConcatProperties, AppendProperties
  <2>3. /\ to_gem5' \in Seq(ToGem5) /\ tb_pc' \in {"closing", "park"}
        /\ exit_reason' \in {exit_reason, "budget"} /\ done' \in {done, TRUE}
    BY <1>6, <2>2 DEF SendAck
  <2>4. syncs_acked' \in Nat
    <3>1. syncs_acked' = syncs_acked + 1
      BY <1>6 DEF SendAck
    <3> QED
      BY <1>b, <3>1
  <2> QED
    BY <1>a, <1>6, <2>3, <2>4 DEF SendAck, envVars, dutVars, g5Vars, TypeInv, TypeOK
<1>7. CASE Shutdown \/ HelloTimeout \/ ParkTimeout
  <2>1. tb_pc' \in {"closed", "raised"} /\ LoseUnflushed
    BY <1>7 DEF Shutdown, HelloTimeout, ParkTimeout, Raise
  <2>2. to_gem5' \in Seq(ToGem5)
    BY <1>b, <2>1, PrefixHas DEF LoseUnflushed
  <2> QED
    BY <1>a, <1>7, <2>1, <2>2 DEF Shutdown, HelloTimeout, ParkTimeout, Raise, envVars,
                             dutVars, g5Vars, TypeInv, TypeOK
<1>8. ASSUME NEW x \in Txns, DutStep(x) PROVE TypeInv'
  <2>1. to_gem5' \in Seq(ToGem5)
    <3>1. PICK t \in {"dbid", "mem_read", "good", "bad"} :
            to_gem5' = Append(to_gem5, About(t, x))
      BY <1>8 DEF DutStep
    <3>2. About(t, x) \in ToGem5
      BY <1>8, Messages
    <3> QED
      BY <1>b, <3>1, <3>2, AppendProperties
  <2>2. /\ asked_at' \in [Txns -> Nat]
        /\ work' \in [Txns -> {"none", "accepted", "granted", "data", "mem",
                               "fetched", "answered"}]
    BY <1>8, <1>b DEF DutStep
  <2> QED
    <3>1. UNCHANGED <<envVars, to_tb, loopVars, g5Vars>>
      BY <1>8 DEF DutStep
    <3>2. TypeOK'
      BY <1>a, <2>2, <3>1, ZenonT(40) DEF envVars, loopVars, g5Vars, TypeInv, TypeOK
    <3> QED
      BY <1>a, <2>1, <2>2, <3>1, <3>2 DEF envVars, g5Vars, TypeInv
<1>9. CASE serve
  <2>1. to_tb' \in Seq(ToTb)
    BY <1>9, <1>c, <1>e, SentTypes DEF serve
  <2>2. g_pc' \in {"crashed", "hello"}
    BY <1>9 DEF serve, Crash
  <2> QED
    BY <1>a, <1>9, <2>1, <2>2 DEF serve, envVars, tbVars, loopVars, dutVars, TypeInv, TypeOK
<1>10. CASE HelloAck
  <2>1. to_tb' \in Seq(ToTb)
    BY <1>10, <1>b, <1>e, <1>f DEF HelloAck
  <2>2. g_pc' \in {"send", "exit1"}
    BY <1>10 DEF HelloAck, ExitWith
  <2>3. to_gem5' \in Seq(ToGem5)
    BY <1>10, <1>b, TailElements DEF HelloAck
  <2>4. outbox' \in Seq([t : {"flit_req", "bypass"}, txn : Txns])
    <3>1. scenario \in Seq({"read", "write", "bypass"})
      BY BarrierAssumption DEF TypeInv
    <3>2. Len(scenario) \in Nat /\ Txns = 1 .. Len(scenario)
      BY <3>1, LenProperties DEF Txns
    <3>3. \A x \in Txns :
            About(IF scenario[x] = "bypass" THEN "bypass" ELSE "flit_req", x)
              \in [t : {"flit_req", "bypass"}, txn : Txns]
      BY DEF About
    <3>4. run_scenario \in Seq([t : {"flit_req", "bypass"}, txn : Txns])
      BY <3>2, <3>3 DEF run_scenario
    <3> QED
      BY <1>10, <3>4 DEF HelloAck, TypeInv
  <2> QED
    BY <1>a, <1>10, <2>1, <2>2, <2>3, <2>4
       DEF HelloAck, envVars, tbVars, loopVars, dutVars, TypeInv, TypeOK
<1>11. CASE SendQuantum
  <2>1. to_tb' \in Seq(ToTb)
    BY <1>11, <1>e, QuantumTypes, SentTypes DEF SendQuantum
  <2>2. g_pc' \in {"crashed", "wait_ack"}
    BY <1>11 DEF SendQuantum, Crash
  <2> QED
    <3>1. /\ UNCHANGED <<envVars, to_gem5, tbVars, completed, g_cycle, syncs, failed>>
          /\ outbox' = << >> /\ pending_write_data' = << >> /\ quantum_msgs' = << >>
      BY <1>11 DEF SendQuantum
    <3>2. TypeOK'
      BY <1>a, <2>2, <3>1 DEF envVars, tbVars, loopVars, dutVars, TypeInv, TypeOK
    <3> QED
      BY <1>a, <2>1, <3>1, <3>2 DEF envVars, tbVars, dutVars, TypeInv
<1>12. CASE handle
  <2> DEFINE m == Head(to_gem5)
  <2>1. m \in ToGem5 /\ to_gem5' \in Seq(ToGem5)
    BY <1>12, <1>b, TailElements DEF handle
  <2>2. m.t \in {"dbid", "mem_read", "good", "bad"} => m.txn \in Txns
    BY <2>1, Fields
  <2>3. to_tb' \in Seq(ToTb)
    BY <1>12, <1>b, <1>e, <1>f DEF handle
  <2>4. /\ g_pc' \in {g_pc, "exit1", "reply"} /\ failed' \in {failed, TRUE}
    BY <1>12 DEF handle, FailContract, ExitWith
  <2>5. completed' \subseteq Txns
    BY <1>12, <1>b, <2>2 DEF handle
  <2>6. pending_write_data' \in Seq(Txns)
    <3>1. \/ pending_write_data' = pending_write_data
          \/ m.t = "dbid" /\ pending_write_data' = Append(pending_write_data, m.txn)
      BY <1>12 DEF handle
    <3>2. pending_write_data \in Seq(Txns)
      BY DEF TypeInv
    <3> QED
      BY <2>2, <3>1, <3>2, AppendProperties
  <2>7. quantum_msgs' \in Seq([t : {"mem_data"}, txn : Txns])
    <3> DEFINE R == [t : {"mem_data"}, txn : Txns]
    <3>1. m.t = "mem_read" => About("mem_data", m.txn) \in R
      BY <2>2 DEF About
    <3>2. \/ quantum_msgs' = quantum_msgs
          \/ /\ m.t = "mem_read"
             /\ quantum_msgs' = Append(quantum_msgs, About("mem_data", m.txn))
      BY <1>12 DEF handle
    <3>3. quantum_msgs \in Seq(R)
      BY DEF TypeInv
    <3> HIDE DEF R
    <3>4. m.t = "mem_read" => Append(quantum_msgs, About("mem_data", m.txn)) \in Seq(R)
      BY <3>1, <3>3, AppendProperties
    <3>5. quantum_msgs' \in Seq(R)
      BY <3>2, <3>3, <3>4
    <3> QED
      BY <3>5 DEF R
  <2> QED
    BY <1>a, <1>12, <2>1, <2>3, <2>4, <2>5, <2>6, <2>7, ZenonT(40)
       DEF handle, envVars, tbVars, loopVars, dutVars, TypeInv, TypeOK
<1>13. CASE Reply
  <2>1. to_tb' \in Seq(ToTb)
    BY <1>13, <1>d, <1>e, <1>f, SentTypes DEF Reply
  <2>2. g_pc' \in {"crashed", "exit1", "exit0", "send"} /\ failed' \in {failed, TRUE}
    BY <1>13 DEF Reply, Crash, ExitWith, FailContract
  <2>3. g_cycle' \in Nat /\ syncs' \in Nat
    <3>1. \/ g_cycle' = g_cycle /\ syncs' = syncs
          \/ g_cycle' = g_cycle + Quantum /\ syncs' = syncs + 1
      BY <1>13 DEF Reply
    <3> QED
      BY <1>b, <3>1, BarrierAssumption
  <2> QED
    <3>1. UNCHANGED <<envVars, to_gem5, tbVars, outbox, pending_write_data,
                      quantum_msgs, completed>>
      BY <1>13 DEF Reply
    <3>2. TypeOK'
      BY <1>a, <2>2, <2>3, <3>1, ZenonT(40) DEF envVars, tbVars, loopVars, dutVars, TypeInv, TypeOK
    <3> QED
      BY <1>a, <2>1, <3>1, <3>2 DEF envVars, tbVars, dutVars, TypeInv
<1>14. CASE RecvClosed
  <2>1. to_tb' \in Seq(ToTb)
    BY <1>14, <1>b, <1>e, <1>f DEF RecvClosed
  <2>2. g_pc' \in {g_pc, "crashed", "exit1"}
    BY <1>14 DEF RecvClosed, Crash, ExitWith
  <2> QED
    BY <1>a, <1>14, <2>1, <2>2, ZenonT(40)
       DEF RecvClosed, envVars, tbVars, loopVars, dutVars, TypeInv, TypeOK
<1>15. CASE G5Timeout
  <2>1. to_tb' \in Seq(ToTb)
    BY <1>15, <1>e, <1>f DEF G5Timeout
  <2>2. g_pc' = "exit1" /\ failed' \in {failed, TRUE}
    BY <1>15 DEF G5Timeout, FailContract, ExitWith
  <2> QED
    BY <1>a, <1>15, <2>1, <2>2
       DEF G5Timeout, envVars, tbVars, loopVars, dutVars, TypeInv, TypeOK
<1>16. CASE Vanish
  <2>1. to_tb' \in Seq(ToTb) /\ g_pc' = "vanished"
    BY <1>16, <1>e, <1>f DEF Vanish, ExitWith
  <2> QED
    BY <1>a, <1>16, <2>1 DEF Vanish, envVars, tbVars, loopVars, dutVars, TypeInv, TypeOK
<1>17. CASE Garble
  BY <1>a, <1>17, ZenonT(40) DEF Garble, chanVars, tbVars, loopVars, dutVars, g5Vars, TypeInv, TypeOK
<1> QED
  BY <1>1, <1>2, <1>3, <1>4, <1>5, <1>6, <1>7, <1>8, <1>9, <1>10, <1>11, <1>12,
     <1>13, <1>14, <1>15, <1>16, <1>17 DEF Next

(***************************************************************************)
(* Every reachable state of the barrier is well typed.                     *)
(***************************************************************************)
THEOREM BarrierTypes == Spec => []TypeOK
<1>1. TypeInv => TypeOK
  BY DEF TypeInv
<1> QED
  BY <1>1, TypeInit, TypeStep, PTL DEF Spec

-------------------------------------------------------------------------------
(***************************************************************************)
(* The barrier.  gem5 sends: what comes out of to_tb later.                *)
(***************************************************************************)
LEMMA SentHas ==
    ASSUME TypeInv, NEW msgs \in Seq(ToTb), Sent(msgs), NEW t, NEW T
    PROVE  /\ Has(to_tb, t)' => Has(to_tb, t) \/ Has(msgs, t)
           /\ Has(to_tb, t) => Has(to_tb, t)'
           /\ Only(to_tb, T) /\ Only(msgs, T) => Only(to_tb, T)'
           /\ OnlyAfter(to_tb, t, T) /\ Only(msgs, T) => OnlyAfter(to_tb, t, T)'
           /\ ~Has(to_tb, t) /\ OnlyAfter(msgs, t, T) => OnlyAfter(to_tb, t, T)'
<1>1. to_tb \in Seq(ToTb)
  BY DEF TypeInv
<1>2. CASE to_tb' = to_tb
  <2>1. ~Has(to_tb, t) => OnlyAfter(to_tb, t, T)
    BY DEF Has, OnlyAfter
  <2> QED
    BY <1>2, <2>1 DEF Has, Only, OnlyAfter
<1>3. CASE to_tb' = to_tb \o msgs
  <2> DEFINE w == to_tb \o msgs
  <2>1. /\ Has(w, t) <=> Has(to_tb, t) \/ Has(msgs, t)
        /\ Only(w, T) <=> Only(to_tb, T) /\ Only(msgs, T)
        /\ OnlyAfter(to_tb, t, T) /\ Only(msgs, T) => OnlyAfter(w, t, T)
        /\ ~Has(to_tb, t) /\ OnlyAfter(msgs, t, T) => OnlyAfter(w, t, T)
    BY <1>1, ConcatHas
  <2>2. /\ Has(to_tb, t)' <=> Has(w, t)
        /\ Only(to_tb, T)' <=> Only(w, T)
        /\ OnlyAfter(to_tb, t, T)' <=> OnlyAfter(w, t, T)
    BY <1>3 DEF Has, Only, OnlyAfter
  <2> HIDE DEF w
  <2> QED
    BY <2>1, <2>2
<1> QED
  BY <1>2, <1>3 DEF Sent

\* gem5 reads: what is left in to_gem5.
LEMMA PoppedHas ==
    ASSUME TypeInv, to_gem5 # << >>, to_gem5' = Tail(to_gem5)
    PROVE  /\ AckSent' => AckSent
           /\ OnlyAfter(to_gem5, "ack", {"bye"}) => OnlyAfter(to_gem5, "ack", {"bye"})'
           /\ Head(to_gem5).t = "ack" => AckSent
           /\ Head(to_gem5).t = "ack" /\ OnlyAfter(to_gem5, "ack", {"bye"}) =>
                Only(to_gem5, {"bye"})' /\ ~AckSent'
           /\ Head(to_gem5).t # "ack" => (AckSent' <=> AckSent)
<1>1. to_gem5 \in Seq(ToGem5)
  BY DEF TypeInv
<1>2. /\ Has(Tail(to_gem5), "ack") => Has(to_gem5, "ack")
      /\ Has(to_gem5, "ack") => Head(to_gem5).t = "ack" \/ Has(Tail(to_gem5), "ack")
      /\ OnlyAfter(to_gem5, "ack", {"bye"}) => OnlyAfter(Tail(to_gem5), "ack", {"bye"})
      /\ OnlyAfter(to_gem5, "ack", {"bye"}) /\ Head(to_gem5).t = "ack" =>
            Only(Tail(to_gem5), {"bye"})
  BY <1>1, TailHas
<1>3. Head(to_gem5).t = "ack" => Has(to_gem5, "ack")
  BY <1>1, TailElements DEF Has
<1>4. Only(Tail(to_gem5), {"bye"}) => ~Has(Tail(to_gem5), "ack")
  BY DEF Only, Has
<1>5. /\ AckSent' <=> Has(Tail(to_gem5), "ack")
      /\ OnlyAfter(to_gem5, "ack", {"bye"})' <=> OnlyAfter(Tail(to_gem5), "ack", {"bye"})
      /\ Only(to_gem5, {"bye"})' <=> Only(Tail(to_gem5), {"bye"})
  BY DEF AckSent, Has, Only, OnlyAfter
<1> QED
  BY <1>2, <1>3, <1>4, <1>5 DEF AckSent

\* gem5 leaves, with nothing but messages that end the run.
LEMMA BarrierLeave ==
    ASSUME TypeInv, BarrierInv, NEW msgs \in Seq(ToTb), Sent(msgs), Only(msgs, EndTypes),
           G5Gone', UNCHANGED <<tbVars, g_cycle>>,
           to_gem5' = to_gem5 \/ (to_gem5 # << >> /\ to_gem5' = Tail(to_gem5))
    PROVE  BarrierInv'
<1>1. ~Has(msgs, "sync") /\ ~Has(msgs, "hello") /\ ~Has(msgs, "bypass")
      /\ Only(msgs, {"hello", "bye", "peer_closed"})
  BY DEF Only, Has, EndTypes
<1>2. /\ SyncSent' => SyncSent
      /\ Has(to_tb, "hello")' => Has(to_tb, "hello")
      /\ Has(to_tb, "bypass")' => Has(to_tb, "bypass")
      /\ Only(to_tb, EndTypes) => Only(to_tb, EndTypes)'
      /\ Only(to_tb, {"hello", "bye", "peer_closed"}) =>
            Only(to_tb, {"hello", "bye", "peer_closed"})'
      /\ OnlyAfter(to_tb, "sync", EndTypes) => OnlyAfter(to_tb, "sync", EndTypes)'
      /\ OnlyAfter(to_tb, "hello", EndTypes) => OnlyAfter(to_tb, "hello", EndTypes)'
  BY <1>1, SentHas DEF SyncSent
<1>3. /\ AckSent' => AckSent
      /\ OnlyAfter(to_gem5, "ack", {"bye"})'
      /\ to_gem5 = << >> => to_gem5' = << >>
  BY PoppedHas DEF AckSent, Has, OnlyAfter, BarrierInv, Streams
<1>4. UNCHANGED <<tb_pc, sync_seen, done, cycles_run, cyc>>
  BY DEF tbVars, loopVars
<1>5. g_pc' \notin {"accept", "hello", "send", "reply"}
  BY DEF G5Gone
<1>6. Start'
  BY <1>2, <1>3, <1>4, <1>5 DEF BarrierInv, Start
<1>7. /\ SyncRouted' <=> SyncRouted
      /\ Running' <=> Running
      /\ TbLive' <=> TbLive
  BY <1>4 DEF SyncRouted, Running, TbLive
<1>8. Token'
  BY <1>2, <1>3, <1>4, <1>5, <1>7 DEF BarrierInv, Token
<1>9. Streams'
  BY <1>2, <1>3, <1>4, <1>5, <1>7 DEF BarrierInv, Streams
<1> QED
  BY <1>6, <1>8, <1>9 DEF BarrierInv

\* What gem5's last messages are.
Farewells == {<<Msg("peer_closed")>>, <<Bye("contract"), Msg("peer_closed")>>,
              <<Bye("workload exit"), Msg("peer_closed")>>}

LEMMA FarewellsEnd == \A u \in Farewells : u \in Seq(ToTb) /\ Only(u, EndTypes)
<1>1. /\ Msg("peer_closed") \in ToTb /\ Bye("contract") \in ToTb
      /\ Bye("workload exit") \in ToTb
  BY Messages
<1>2. /\ Msg("peer_closed").t = "peer_closed" /\ Bye("contract").t = "bye"
      /\ Bye("workload exit").t = "bye"
  BY DEF Msg, Bye
<1>3. ASSUME NEW a \in ToTb, a.t \in EndTypes
      PROVE  <<a>> \in Seq(ToTb) /\ Only(<<a>>, EndTypes)
  BY <1>3 DEF Only
<1>4. ASSUME NEW a \in ToTb, NEW b \in ToTb, a.t \in EndTypes, b.t \in EndTypes
      PROVE  <<a, b>> \in Seq(ToTb) /\ Only(<<a, b>>, EndTypes)
  <2> DEFINE u == <<a, b>>
  <2>1. DOMAIN u = {1, 2} /\ u[1] = a /\ u[2] = b
    OBVIOUS
  <2>2. Only(u, EndTypes)
    <3> HIDE DEF u
    <3> QED
      BY <1>4, <2>1 DEF Only
  <2> QED
    BY <2>2
<1> QED
  BY <1>1, <1>2, <1>3, <1>4 DEF Farewells, EndTypes

LEMMA FarewellsSent ==
    ASSUME NEW msgs \in Seq(ToTb)
    PROVE  /\ \A pc : ExitWith(pc, msgs) => Sent(msgs \o <<Msg("peer_closed")>>)
           /\ FailContract(msgs) => Sent(msgs \o <<Bye("contract"), Msg("peer_closed")>>)
           /\ \A pc : ExitWith(pc, Append(msgs, Bye("workload exit"))) =>
                Sent(msgs \o <<Bye("workload exit"), Msg("peer_closed")>>)
<1>1. /\ Msg("peer_closed") \in ToTb /\ Bye("contract") \in ToTb
      /\ Bye("workload exit") \in ToTb
  BY Messages
<1>2. ASSUME NEW a \in ToTb
      PROVE  Append(msgs, a) = msgs \o <<a>> /\ Append(msgs, a) \in Seq(ToTb)
  BY AppendIsConcat, AppendProperties
<1>3. ASSUME NEW a \in ToTb, NEW b \in ToTb
      PROVE  Append(Append(msgs, a), b) = msgs \o <<a, b>>
  <2>1. Append(Append(msgs, a), b) = (msgs \o <<a>>) \o <<b>>
    BY <1>2, AppendIsConcat
  <2>2. (msgs \o <<a>>) \o <<b>> = msgs \o (<<a>> \o <<b>>)
    <3>1. <<a>> \in Seq(ToTb) /\ <<b>> \in Seq(ToTb)
      OBVIOUS
    <3> QED
      BY <3>1, ConcatAssociative
  <2>3. <<a>> \o <<b>> = <<a, b>>
    <3> DEFINE u == <<a>>
               v == <<b>>
               w == <<a, b>>
    <3>1. /\ u \in Seq(ToTb) /\ v \in Seq(ToTb) /\ w \in Seq(ToTb)
          /\ Len(u) = 1 /\ Len(v) = 1 /\ Len(w) = 2
          /\ u[1] = a /\ v[1] = b /\ w[1] = a /\ w[2] = b
      OBVIOUS
    <3> HIDE DEF u, v, w
    <3>2. /\ u \o v \in Seq(ToTb) /\ Len(u \o v) = 2
          /\ (u \o v)[1] = a /\ (u \o v)[2] = b
      <4>1. /\ u \o v \in Seq(ToTb) /\ Len(u \o v) = Len(u) + Len(v)
            /\ \A i \in 1 .. Len(u) + Len(v) :
                 (u \o v)[i] = IF i <= Len(u) THEN u[i] ELSE v[i - Len(u)]
        BY <3>1, ConcatProperties
      <4> DEFINE z == u \o v
      <4>2. /\ z \in Seq(ToTb) /\ Len(z) = 2
            /\ \A i \in 1 .. 2 : z[i] = IF i <= 1 THEN u[i] ELSE v[i - 1]
        BY <3>1, <4>1
      <4> HIDE DEF z
      <4>3. z[1] = u[1] /\ z[2] = v[1]
        BY <4>2
      <4> QED
        BY <3>1, <4>2, <4>3 DEF z
    <3>3. \A i \in 1 .. 2 : (u \o v)[i] = w[i]
      BY <3>1, <3>2
    <3>4. u \o v = w
      BY <3>1, <3>2, <3>3, SeqEqual
    <3> QED
      BY <3>4 DEF u, v, w
  <2> QED
    BY <2>1, <2>2, <2>3
<1> QED
  BY <1>1, <1>2, <1>3 DEF ExitWith, FailContract

LEMMA LeaveSends ==
    ASSUME \/ Crash
           \/ \E pc \in {"exit0", "exit1", "vanished"} : ExitWith(pc, << >>)
           \/ FailContract(<< >>)
    PROVE  G5Gone' /\ \E u \in Farewells : Sent(u)
<1>1. G5Gone'
  BY DEF Crash, ExitWith, FailContract, G5Gone
<1>2. << >> \in Seq(ToTb) /\ \A u \in Seq(ToTb) : << >> \o u = u
  BY ConcatEmptySeq
<1>3. \/ Sent(<<Msg("peer_closed")>>)
      \/ Sent(<< >> \o <<Msg("peer_closed")>>)
      \/ Sent(<< >> \o <<Bye("contract"), Msg("peer_closed")>>)
  BY <1>2, FarewellsSent DEF Crash
<1> QED
  BY <1>1, <1>2, <1>3, FarewellsEnd DEF Farewells

\* gem5 crashes, times out, vanishes or gives up between two barriers.
LEMMA BarrierGone ==
    ASSUME TypeInv, BarrierInv, UNCHANGED <<tbVars, g_cycle>>,
           to_gem5' = to_gem5 \/ (to_gem5 # << >> /\ to_gem5' = Tail(to_gem5)),
           \/ Crash
           \/ \E pc \in {"exit0", "exit1", "vanished"} : ExitWith(pc, << >>)
           \/ FailContract(<< >>)
    PROVE  BarrierInv'
BY LeaveSends, FarewellsEnd, BarrierLeave

\* The testbench routes a message.
LEMMA BarrierRoute ==
    ASSUME TypeInv, BarrierInv, to_tb # << >>, route(Head(to_tb)),
           Head(to_tb).t # "hello", tb_pc \notin {"closed", "raised"},
           tb_pc = "handshake" \/ ~done,
           UNCHANGED <<tb_pc, cycles_run, cyc, g_pc, g_cycle>>
    PROVE  BarrierInv'
<1> DEFINE m == Head(to_tb)
<1>1. to_tb \in Seq(ToTb) /\ m \in ToTb /\ to_tb' = Tail(to_tb) /\ to_gem5 \in Seq(ToGem5)
  BY TailElements DEF TypeInv, route
<1>2. /\ SyncSent' => SyncSent
      /\ SyncSent => m.t = "sync" \/ SyncSent'
      /\ Has(to_tb, "hello")' => Has(to_tb, "hello")
      /\ Has(to_tb, "bypass")' => Has(to_tb, "bypass")
      /\ Has(to_tb, "bye")' => Has(to_tb, "bye")
      /\ Has(to_tb, "peer_closed")' => Has(to_tb, "peer_closed")
      /\ Only(to_tb, EndTypes) => Only(to_tb, EndTypes)' /\ m.t \in EndTypes
      /\ Only(to_tb, {"hello", "bye", "peer_closed"}) =>
            Only(to_tb, {"hello", "bye", "peer_closed"})' /\ m.t \in EndTypes
      /\ OnlyAfter(to_tb, "sync", EndTypes) => OnlyAfter(to_tb, "sync", EndTypes)'
      /\ OnlyAfter(to_tb, "hello", EndTypes) => OnlyAfter(to_tb, "hello", EndTypes)'
      /\ OnlyAfter(to_tb, "sync", EndTypes) /\ m.t = "sync" => Only(to_tb, EndTypes)'
  <2>1. \A t : /\ Has(to_tb, t)' <=> Has(Tail(to_tb), t)
               /\ \A T : Only(to_tb, T)' <=> Only(Tail(to_tb), T)
               /\ \A T : OnlyAfter(to_tb, t, T)' <=> OnlyAfter(Tail(to_tb), t, T)
    BY <1>1 DEF Has, Only, OnlyAfter
  <2>2. ASSUME NEW t, NEW T
        PROVE  /\ Has(Tail(to_tb), t) => Has(to_tb, t)
               /\ Has(to_tb, t) => m.t = t \/ Has(Tail(to_tb), t)
               /\ Only(to_tb, T) => Only(Tail(to_tb), T) /\ m.t \in T
               /\ OnlyAfter(to_tb, t, T) => OnlyAfter(Tail(to_tb), t, T)
               /\ OnlyAfter(to_tb, t, T) /\ m.t = t => Only(Tail(to_tb), T)
    BY <1>1, TailHas
  <2> QED
    BY <2>1, <2>2 DEF SyncSent, EndTypes
<1>3. /\ m.t \in {"peer_closed", "flit_req", "flit_dat", "bypass", "mem_data", "bye",
                  "sync"}
      /\ m.t \in {"bypass"} => m.txn \in Txns
      /\ m.t = "sync" => SyncSent
      /\ m.t = "bypass" => Has(to_tb, "bypass")
      /\ m.t = "bye" => Has(to_tb, "bye")
      /\ m.t = "peer_closed" => Has(to_tb, "peer_closed")
  <2>1. m = to_tb[1] /\ 1 \in DOMAIN to_tb
    BY <1>1, TailElements
  <2>2. /\ m.t = "sync" => SyncSent
        /\ m.t = "bypass" => Has(to_tb, "bypass")
        /\ m.t = "bye" => Has(to_tb, "bye")
        /\ m.t = "peer_closed" => Has(to_tb, "peer_closed")
    BY <2>1 DEF SyncSent, Has
  <2> QED
    BY <1>1, <2>2, Fields
<1> HIDE DEF m
<1>4. route(m)
  BY DEF m
<1>5. Only(to_tb, EndTypes)' => ~SyncSent'
  BY DEF Only, SyncSent, Has, EndTypes
<1>6. /\ G5Gone' <=> G5Gone
      /\ Running' <=> Running
      /\ TbLive' <=> TbLive
      /\ TbLive
  BY DEF G5Gone, Running, TbLive, TypeInv, TypeOK, BarrierInv, Streams
<1>7. CASE m.t \in {"flit_req", "flit_dat", "mem_data", "bypass"}
  <2>1. /\ UNCHANGED <<sync_seen, done>>
        /\ \/ to_gem5' = to_gem5
           \/ /\ m.t = "bypass"
              /\ to_gem5' = Append(to_gem5, About("mem_read", m.txn))
    BY <1>4, <1>7 DEF route
  <2>2. /\ tb_pc # "handshake"
        /\ ~(SyncRouted \/ Running)
        /\ g_pc \notin {"accept", "hello"}
    BY <1>2, <1>7 DEF BarrierInv, Start, Streams, EndTypes
  <2>3. (SyncRouted' <=> SyncRouted) /\ (SyncSent' <=> SyncSent)
    BY <1>2, <1>7, <2>1 DEF SyncRouted
  <2>4. (AckSent' <=> AckSent) /\ OnlyAfter(to_gem5, "ack", {"bye"})'
    <3>1. CASE to_gem5' = to_gem5
      BY <3>1 DEF AckSent, Has, OnlyAfter, BarrierInv, Streams
    <3>2. CASE m.t = "bypass" /\ to_gem5' = Append(to_gem5, About("mem_read", m.txn))
      <4> DEFINE e == About("mem_read", m.txn)
      <4>1. e \in ToGem5 /\ e.t = "mem_read"
        BY <1>3, <3>2, Messages DEF About
      <4>2. ~AckSent
        BY <1>3, <1>6, <3>2 DEF BarrierInv, Streams
      <4> HIDE DEF e
      <4>3. /\ Has(Append(to_gem5, e), "ack") <=> Has(to_gem5, "ack") \/ e.t = "ack"
            /\ ~Has(to_gem5, "ack") => OnlyAfter(Append(to_gem5, e), "ack", {"bye"})
        BY <1>1, <4>1, AppendHas
      <4>4. /\ AckSent' <=> Has(Append(to_gem5, e), "ack")
            /\ OnlyAfter(to_gem5, "ack", {"bye"})'
                 <=> OnlyAfter(Append(to_gem5, e), "ack", {"bye"})
        BY <3>2 DEF AckSent, Has, OnlyAfter, e
      <4> QED
        BY <4>1, <4>2, <4>3, <4>4 DEF AckSent
    <3> QED
      BY <2>1, <3>1, <3>2
  <2>6. Start'
    BY <1>2, <1>6, <2>1, <2>2 DEF BarrierInv, Start
  <2>7. Token'
    BY <1>6, <2>1, <2>2, <2>3, <2>4 DEF BarrierInv, Token
  <2>8. Streams'
    BY <1>2, <1>6, <2>1, <2>2, <2>3, <2>4 DEF BarrierInv, Streams
  <2> QED
    BY <2>6, <2>7, <2>8 DEF BarrierInv
<1>8. CASE m.t = "sync"
  <2>1. sync_seen' = TRUE /\ UNCHANGED <<to_gem5, done>>
    BY <1>4, <1>8 DEF route
  <2>2. /\ SyncSent /\ tb_pc # "handshake" /\ ~done
        /\ ~SyncRouted /\ ~Running /\ ~AckSent
        /\ g_pc = "wait_ack" \/ G5Gone
        /\ cycles_run = g_cycle
        /\ Only(to_tb, EndTypes)' /\ ~SyncSent'
    BY <1>2, <1>3, <1>5, <1>8 DEF BarrierInv, Token, Streams
  <2>3. AckSent' <=> AckSent
    BY <2>1 DEF AckSent, Has
  <2>4. OnlyAfter(to_gem5, "ack", {"bye"})'
    BY <2>1 DEF BarrierInv, Streams, OnlyAfter
  <2>5. Start'
    BY <1>2, <1>6, <2>1, <2>2 DEF BarrierInv, Start, G5Gone
  <2>6. g_cycle' \in Nat /\ cycles_run' \in Nat /\ Quantum \in Nat
    BY BarrierAssumption DEF TypeInv, TypeOK
  <2>7. Token'
    BY <1>6, <2>1, <2>2, <2>3, <2>6 DEF BarrierInv, Token, SyncRouted, G5Gone
  <2>8. Streams'
    BY <1>2, <1>6, <2>1, <2>2, <2>3, <2>4 DEF BarrierInv, Streams
  <2> QED
    BY <2>5, <2>7, <2>8 DEF BarrierInv
<1>9. CASE m.t \in EndTypes
  <2>1. done' = TRUE /\ sync_seen' = TRUE /\ UNCHANGED to_gem5
    BY <1>4, <1>9 DEF route, EndTypes
  <2>2. G5Gone /\ ~SyncRouted'
    BY <1>3, <1>9, <2>1 DEF BarrierInv, Streams, EndTypes, SyncRouted
  <2>3. AckSent' <=> AckSent
    BY <2>1 DEF AckSent, Has
  <2>4. OnlyAfter(to_gem5, "ack", {"bye"})'
    BY <2>1 DEF BarrierInv, Streams, OnlyAfter
  <2>5. Start'
    BY <1>2, <1>6, <2>1, <2>2 DEF BarrierInv, Start, G5Gone
  <2>6. Token'
    BY <1>2, <1>6, <2>1, <2>2, <2>3 DEF BarrierInv, Token, G5Gone
  <2>7. Streams'
    BY <1>2, <1>6, <2>1, <2>2, <2>3, <2>4 DEF BarrierInv, Streams
  <2> QED
    BY <2>5, <2>6, <2>7 DEF BarrierInv
<1> QED
  BY <1>3, <1>7, <1>8, <1>9 DEF EndTypes

\* Steps that change nothing the barrier depends on.
LEMMA BarrierFrame ==
    ASSUME BarrierInv,
           UNCHANGED <<to_tb, to_gem5, tb_pc, sync_seen, done, cycles_run, cyc, g_pc,
                       g_cycle>>
    PROVE  BarrierInv'
<1>1. Start'
  BY DEF BarrierInv, Start, G5Gone, Has, Only, OnlyAfter
<1>2. Token'
  BY DEF BarrierInv, Token, SyncSent, SyncRouted, Running, AckSent, G5Gone, Has
<1>3. Streams'
  BY DEF BarrierInv, Streams, SyncRouted, Running, AckSent, G5Gone, TbLive, Has, Only,
         OnlyAfter
<1> QED
  BY <1>1, <1>2, <1>3 DEF BarrierInv

\* The end of the handshake.
LEMMA BarrierHello ==
    ASSUME TypeInv, BarrierInv, Handshake, Head(to_tb).t = "hello"
    PROVE  BarrierInv'
<1>1. /\ tb_pc = "handshake" /\ tb_pc' = "park" /\ to_tb # << >> /\ to_tb' = Tail(to_tb)
      /\ to_gem5' = Append(to_gem5, Msg("hello_ack"))
      /\ UNCHANGED <<sync_seen, done, cycles_run, cyc, g_pc, g_cycle>>
  BY DEF Handshake, g5Vars, route
<1>2. /\ g_pc \in {"hello"} \/ G5Gone
      /\ to_gem5 = << >> /\ (sync_seen => done) /\ OnlyAfter(to_tb, "hello", EndTypes)
  BY <1>1 DEF BarrierInv, Start
<1>3. Only(Tail(to_tb), EndTypes)
  BY <1>1, <1>2, TailHas DEF TypeInv
<1>4. /\ Only(to_tb, EndTypes)' /\ ~SyncSent' /\ ~Has(to_tb, "hello")'
      /\ ~Has(to_tb, "bypass")' /\ Only(to_tb, {"hello", "bye", "peer_closed"})'
      /\ OnlyAfter(to_tb, "sync", EndTypes)'
  BY <1>1, <1>3 DEF Only, SyncSent, Has, OnlyAfter, EndTypes
<1>5. /\ Has(to_tb, "bye")' => Has(to_tb, "bye")
      /\ Has(to_tb, "peer_closed")' => Has(to_tb, "peer_closed")
  <2>1. /\ Has(Tail(to_tb), "bye") => Has(to_tb, "bye")
        /\ Has(Tail(to_tb), "peer_closed") => Has(to_tb, "peer_closed")
    BY <1>1, TailHas DEF TypeInv
  <2> QED
    BY <1>1, <2>1 DEF Has
<1>6. ~AckSent' /\ OnlyAfter(to_gem5, "ack", {"bye"})'
  <2>1. to_gem5' = <<Msg("hello_ack")>>
    BY <1>1, <1>2
  <2> QED
    BY <2>1 DEF AckSent, Has, OnlyAfter, Msg
<1>7. ~SyncRouted' /\ ~Running' /\ (G5Gone' <=> G5Gone)
  BY <1>1, <1>2 DEF SyncRouted, Running, G5Gone
<1>8. Start'
  BY <1>1, <1>2, <1>4 DEF BarrierInv, Start, G5Gone
<1>9. Token'
  BY <1>1, <1>2, <1>4, <1>6, <1>7 DEF BarrierInv, Token, G5Gone
<1>10. Streams'
  BY <1>1, <1>2, <1>4, <1>5, <1>6, <1>7 DEF BarrierInv, Streams
<1> QED
  BY <1>8, <1>9, <1>10 DEF BarrierInv

\* What the testbench appends to to_gem5.
LEMMA QueuedHas ==
    ASSUME TypeInv, BarrierInv, NEW e \in ToGem5, to_gem5' = Append(to_gem5, e)
    PROVE  /\ AckSent' <=> AckSent \/ e.t = "ack"
           /\ e.t = "bye" \/ ~AckSent => OnlyAfter(to_gem5, "ack", {"bye"})'
<1>1. to_gem5 \in Seq(ToGem5) /\ OnlyAfter(to_gem5, "ack", {"bye"})
  BY DEF TypeInv, BarrierInv, Streams
<1>2. /\ Has(Append(to_gem5, e), "ack") <=> Has(to_gem5, "ack") \/ e.t = "ack"
      /\ e.t \in {"bye"} => OnlyAfter(Append(to_gem5, e), "ack", {"bye"})
      /\ ~Has(to_gem5, "ack") => OnlyAfter(Append(to_gem5, e), "ack", {"bye"})
  BY <1>1, AppendHas
<1>3. /\ AckSent' <=> Has(Append(to_gem5, e), "ack")
      /\ OnlyAfter(to_gem5, "ack", {"bye"})'
            <=> OnlyAfter(Append(to_gem5, e), "ack", {"bye"})
  BY DEF AckSent, Has, OnlyAfter
<1> QED
  BY <1>2, <1>3 DEF AckSent

\* barrier_loop leaves its park.
LEMMA BarrierUnpark ==
    ASSUME TypeInv, BarrierInv, Unpark
    PROVE  BarrierInv'
<1>1. /\ tb_pc = "park" /\ (sync_seen \/ done) /\ sync_seen' = FALSE
      /\ UNCHANGED <<to_tb, done, cycles_run, g_pc, g_cycle>>
  BY DEF Unpark, TakeSync, g5Vars
<1>2. \A t, T : /\ Has(to_tb, t)' <=> Has(to_tb, t)
                /\ Only(to_tb, T)' <=> Only(to_tb, T)
                /\ OnlyAfter(to_tb, t, T)' <=> OnlyAfter(to_tb, t, T)
  BY <1>1 DEF Has, Only, OnlyAfter
<1>3. ~SyncRouted' /\ (G5Gone' <=> G5Gone) /\ (SyncSent' <=> SyncSent)
  BY <1>1, <1>2 DEF SyncRouted, SyncSent, G5Gone
<1>4. CASE done /\ Finish /\ UNCHANGED cyc
  <2>1. tb_pc' = "closing" /\ to_gem5' = Append(to_gem5, Bye("tb"))
    BY <1>4 DEF Finish
  <2>2. (AckSent' <=> AckSent) /\ OnlyAfter(to_gem5, "ack", {"bye"})'
    BY <2>1, QueuedHas, Messages DEF Bye
  <2>3. Start'
    BY <1>1, <1>2, <1>3, <2>1 DEF BarrierInv, Start
  <2>4. Token'
    BY <1>1, <1>3, <2>1, <2>2 DEF BarrierInv, Token, Running
  <2>5. Streams'
    BY <1>1, <1>2, <1>3, <1>4, <2>1, <2>2 DEF BarrierInv, Streams, Running, TbLive
  <2> QED
    BY <2>3, <2>4, <2>5 DEF BarrierInv
<1>5. CASE ~done /\ tb_pc' = "quantum" /\ cyc' = Quantum /\ UNCHANGED to_gem5
  <2>1. SyncRouted
    BY <1>1, <1>5 DEF SyncRouted
  <2>2. /\ AckSent' <=> AckSent
        /\ OnlyAfter(to_gem5, "ack", {"bye"})'
    BY <1>5 DEF AckSent, Has, OnlyAfter, BarrierInv, Streams
  <2>3. Start'
    BY <1>1, <1>2, <1>3, <1>5 DEF BarrierInv, Start
  <2>4. g_cycle \in Nat /\ Quantum \in Nat
    BY BarrierAssumption DEF TypeInv, TypeOK
  <2>5. Token'
    BY <1>1, <1>3, <1>5, <2>1, <2>2, <2>4 DEF BarrierInv, Token, Running
  <2>6. Streams'
    BY <1>1, <1>2, <1>3, <1>5, <2>1, <2>2 DEF BarrierInv, Streams, Token, TbLive
  <2> QED
    BY <2>3, <2>5, <2>6 DEF BarrierInv
<1> QED
  BY <1>4, <1>5 DEF Unpark

\* The quantum runs, and ends with an ack.
LEMMA BarrierClock ==
    ASSUME TypeInv, BarrierInv, ClockCycle
    PROVE  BarrierInv'
<1>1. /\ tb_pc = "quantum" /\ cyc > 0 /\ cyc' = cyc - 1 /\ cycles_run' = cycles_run + 1
      /\ UNCHANGED <<to_tb, to_gem5, tb_pc, sync_seen, done, g_pc, g_cycle>>
  BY DEF ClockCycle, ClockRuns, chanVars, g5Vars
<1>2. Start'
  BY <1>1 DEF BarrierInv, Start, G5Gone, Has, Only, OnlyAfter
<1>3. Streams'
  BY <1>1 DEF BarrierInv, Streams, SyncRouted, Running, AckSent, G5Gone, TbLive, Has, Only,
              OnlyAfter
<1>4. /\ SyncSent' <=> SyncSent
      /\ AckSent' <=> AckSent
      /\ Running' /\ Running /\ ~SyncRouted' /\ (G5Gone' <=> G5Gone)
  BY <1>1 DEF SyncSent, AckSent, Running, SyncRouted, G5Gone, Has
<1>5. /\ g_cycle \in Nat /\ cycles_run \in Nat /\ Quantum \in Nat /\ cyc \in 0 .. Quantum
  BY BarrierAssumption DEF TypeInv, TypeOK
<1>6. /\ g_pc = "wait_ack" \/ G5Gone
      /\ ~SyncSent /\ ~AckSent /\ cycles_run = g_cycle + Quantum - cyc
  BY <1>4 DEF BarrierInv, Token
<1>7. cycles_run' = g_cycle + Quantum - cyc' /\ cycles_run' \in g_cycle .. g_cycle + Quantum
  BY <1>1, <1>5, <1>6
<1>8. Token'
  BY <1>1, <1>4, <1>6, <1>7 DEF BarrierInv, Token, G5Gone
<1> QED
  BY <1>2, <1>3, <1>8 DEF BarrierInv

LEMMA BarrierAck ==
    ASSUME TypeInv, BarrierInv, SendAck
    PROVE  BarrierInv'
<1> DEFINE ack == AtCycle("ack", sync_cycle)
<1>1. /\ tb_pc = "quantum" /\ cyc = 0
      /\ UNCHANGED <<to_tb, sync_seen, cycles_run, cyc, g_pc, g_cycle>>
      /\ \/ tb_pc' = "closing" /\ done' = TRUE /\ to_gem5' = to_gem5 \o <<ack, Bye("tb")>>
         \/ tb_pc' = "park" /\ done' = done /\ to_gem5' = Append(to_gem5, ack)
  BY DEF SendAck, g5Vars
<1>2. Running
  BY <1>1 DEF Running
<1>3. /\ g_pc = "wait_ack" \/ G5Gone
      /\ ~SyncSent /\ ~AckSent /\ cycles_run = g_cycle + Quantum - cyc
      /\ Only(to_tb, EndTypes) /\ (sync_seen => done)
  BY <1>2 DEF BarrierInv, Token, Streams
<1>4. \A t, T : /\ Has(to_tb, t)' <=> Has(to_tb, t)
                /\ Only(to_tb, T)' <=> Only(to_tb, T)
                /\ OnlyAfter(to_tb, t, T)' <=> OnlyAfter(to_tb, t, T)
  BY <1>1 DEF Has, Only, OnlyAfter
<1>5. ack \in ToGem5 /\ Bye("tb") \in ToGem5 /\ ack.t = "ack" /\ Bye("tb").t = "bye"
  BY Messages DEF TypeInv, TypeOK, AtCycle, Bye
<1>6. AckSent' /\ OnlyAfter(to_gem5, "ack", {"bye"})'
  <2> HIDE DEF ack
  <2>1. CASE to_gem5' = Append(to_gem5, ack)
    BY <1>3, <1>5, <2>1, QueuedHas
  <2>2. CASE to_gem5' = to_gem5 \o <<ack, Bye("tb")>>
    <3> DEFINE u == <<ack, Bye("tb")>>
    <3>1. u \in Seq(ToGem5) /\ to_gem5 \in Seq(ToGem5)
      BY <1>5 DEF TypeInv
    <3>2. Has(u, "ack") /\ OnlyAfter(u, "ack", {"bye"})
      <4>1. DOMAIN u = {1, 2} /\ u[1] = ack /\ u[2] = Bye("tb")
        OBVIOUS
      <4> QED
        BY <1>5, <4>1 DEF Has, OnlyAfter
    <3> HIDE DEF u
    <3>3. /\ Has(to_gem5 \o u, "ack") <=> Has(to_gem5, "ack") \/ Has(u, "ack")
          /\ ~Has(to_gem5, "ack") /\ OnlyAfter(u, "ack", {"bye"}) =>
                OnlyAfter(to_gem5 \o u, "ack", {"bye"})
      BY <3>1, ConcatHas
    <3>4. /\ AckSent' <=> Has(to_gem5 \o u, "ack")
          /\ OnlyAfter(to_gem5, "ack", {"bye"})' <=> OnlyAfter(to_gem5 \o u, "ack", {"bye"})
      BY <2>2 DEF AckSent, Has, OnlyAfter, u
    <3> QED
      BY <1>3, <3>2, <3>3, <3>4 DEF AckSent
  <2> QED
    BY <1>1, <2>1, <2>2
<1>7. ~SyncRouted' /\ ~Running' /\ ~SyncSent' /\ (G5Gone' <=> G5Gone)
  BY <1>1, <1>3, <1>4 DEF SyncRouted, Running, SyncSent, G5Gone
<1>8. g_cycle \in Nat /\ cycles_run \in Nat /\ Quantum \in Nat /\ cyc = 0
  BY <1>1, BarrierAssumption DEF TypeInv, TypeOK
<1>9. cycles_run' = g_cycle' + Quantum /\ cycles_run' \in g_cycle' .. g_cycle' + Quantum
  BY <1>1, <1>3, <1>8
<1>10. ~Has(to_tb, "bypass")
  BY <1>3 DEF Only, Has, EndTypes
<1>11. Start'
  BY <1>1, <1>3, <1>4 DEF BarrierInv, Start, G5Gone
<1>12. Token'
  BY <1>1, <1>3, <1>6, <1>7, <1>9 DEF Token, G5Gone
<1>13. Streams'
  BY <1>1, <1>3, <1>4, <1>6, <1>7, <1>10 DEF BarrierInv, Streams
<1> QED
  BY <1>11, <1>12, <1>13 DEF BarrierInv

\* The testbench ends: what was not flushed is lost.
LEMMA BarrierTbEnds ==
    ASSUME TypeInv, BarrierInv, Shutdown \/ HelloTimeout \/ ParkTimeout
    PROVE  BarrierInv'
<1>1. /\ tb_pc' \in {"closed", "raised"} /\ LoseUnflushed
      /\ tb_pc' = "closed" => tb_pc = "closing"
      /\ tb_pc \in {"closing", "handshake", "park"}
      /\ UNCHANGED <<to_tb, sync_seen, done, cycles_run, cyc, g_pc, g_cycle>>
  BY DEF Shutdown, HelloTimeout, ParkTimeout, Raise, g5Vars
<1>2. PICK n \in 0 .. Len(to_gem5) : to_gem5' = SubSeq(to_gem5, 1, n)
  BY <1>1 DEF LoseUnflushed
<1>3. /\ Has(SubSeq(to_gem5, 1, n), "ack") => Has(to_gem5, "ack")
      /\ OnlyAfter(to_gem5, "ack", {"bye"}) =>
            OnlyAfter(SubSeq(to_gem5, 1, n), "ack", {"bye"})
  BY PrefixHas DEF TypeInv
<1>4. (AckSent' => AckSent) /\ OnlyAfter(to_gem5, "ack", {"bye"})'
  <2>1. /\ AckSent' <=> Has(SubSeq(to_gem5, 1, n), "ack")
        /\ OnlyAfter(to_gem5, "ack", {"bye"})'
              <=> OnlyAfter(SubSeq(to_gem5, 1, n), "ack", {"bye"})
    BY <1>2 DEF AckSent, Has, OnlyAfter
  <2> QED
    BY <1>3, <2>1 DEF AckSent, BarrierInv, Streams
<1>5. \A t, T : /\ Has(to_tb, t)' <=> Has(to_tb, t)
                /\ Only(to_tb, T)' <=> Only(to_tb, T)
                /\ OnlyAfter(to_tb, t, T)' <=> OnlyAfter(to_tb, t, T)
  BY <1>1 DEF Has, Only, OnlyAfter
<1>6. /\ ~SyncRouted' /\ ~Running' /\ ~TbLive' /\ (G5Gone' <=> G5Gone)
      /\ SyncSent' <=> SyncSent
  BY <1>1, <1>5 DEF SyncRouted, Running, TbLive, G5Gone, SyncSent
<1>7. Start'
  BY <1>1, <1>5 DEF BarrierInv, Start
<1>8. Token'
  BY <1>1, <1>4, <1>6 DEF BarrierInv, Token
<1>9. Streams'
  BY <1>1, <1>4, <1>5, <1>6 DEF BarrierInv, Streams
<1> QED
  BY <1>7, <1>8, <1>9 DEF BarrierInv

\* The clocked side sends while the quantum runs.
LEMMA BarrierDut ==
    ASSUME TypeInv, BarrierInv, NEW x \in Txns, DutStep(x)
    PROVE  BarrierInv'
<1>1. /\ tb_pc = "quantum"
      /\ UNCHANGED <<to_tb, tb_pc, sync_seen, done, cycles_run, cyc, g_pc, g_cycle>>
  BY DEF DutStep, ClockRuns, loopVars, g5Vars
<1>2. PICK t \in {"dbid", "mem_read", "good", "bad"} :
         to_gem5' = Append(to_gem5, About(t, x))
  BY DEF DutStep
<1>3. About(t, x) \in ToGem5 /\ About(t, x).t = t
  BY Messages DEF About
<1>4. Running /\ ~AckSent
  BY <1>1 DEF Running, BarrierInv, Token
<1>5. ~AckSent' /\ OnlyAfter(to_gem5, "ack", {"bye"})'
  BY <1>2, <1>3, <1>4, QueuedHas
<1>6. \A u, T : /\ Has(to_tb, u)' <=> Has(to_tb, u)
                /\ Only(to_tb, T)' <=> Only(to_tb, T)
                /\ OnlyAfter(to_tb, u, T)' <=> OnlyAfter(to_tb, u, T)
  BY <1>1 DEF Has, Only, OnlyAfter
<1>7. /\ SyncRouted' <=> SyncRouted
      /\ Running' <=> Running
      /\ TbLive' <=> TbLive
      /\ G5Gone' <=> G5Gone
      /\ SyncSent' <=> SyncSent
  BY <1>1, <1>6 DEF SyncRouted, Running, TbLive, G5Gone, SyncSent
<1>8. Start'
  BY <1>1, <1>6, <1>7 DEF BarrierInv, Start
<1>9. Token'
  BY <1>1, <1>4, <1>5, <1>7 DEF BarrierInv, Token
<1>10. Streams'
  BY <1>1, <1>5, <1>6, <1>7 DEF BarrierInv, Streams
<1> QED
  BY <1>8, <1>9, <1>10 DEF BarrierInv

\* gem5 says hello, and starts when it is acknowledged.
LEMMA BarrierServe ==
    ASSUME TypeInv, BarrierInv, serve
    PROVE  BarrierInv'
<1>1. UNCHANGED <<to_gem5, tbVars, g_cycle>> /\ g_pc = "accept"
  BY DEF serve
<1>2. CASE Crash
  BY <1>1, <1>2, BarrierGone
<1>3. CASE g_pc' = "hello" /\ Sent(<<Msg("hello")>>)
  <2>1. to_tb = << >> /\ tb_pc \in {"handshake", "raised"}
    BY <1>1 DEF BarrierInv, Start
  <2>2. to_tb' = << >> \/ to_tb' = <<Msg("hello")>>
    BY <1>3, <2>1 DEF Sent
  <2>3. /\ ~SyncSent' /\ ~Has(to_tb, "bye")' /\ ~Has(to_tb, "peer_closed")'
        /\ Only(to_tb, {"hello", "bye", "peer_closed"})' /\ ~Has(to_tb, "bypass")'
        /\ OnlyAfter(to_tb, "hello", EndTypes)' /\ OnlyAfter(to_tb, "sync", EndTypes)'
    BY <2>2 DEF SyncSent, Has, Only, OnlyAfter, Msg
  <2>4. UNCHANGED <<tb_pc, sync_seen, done, cycles_run, cyc>>
    BY <1>1 DEF tbVars, loopVars
  <2>5. /\ AckSent' <=> AckSent
        /\ SyncRouted' <=> SyncRouted
        /\ Running' <=> Running
        /\ TbLive' <=> TbLive
        /\ OnlyAfter(to_gem5, "ack", {"bye"})'
    BY <1>1, <2>4 DEF AckSent, SyncRouted, Running, TbLive, Has, OnlyAfter, BarrierInv,
                      Streams
  <2>6. ~AckSent /\ ~SyncRouted /\ ~Running
    BY <1>1 DEF BarrierInv, Token, G5Gone
  <2>7. Start'
    BY <1>1, <1>3, <2>1, <2>3, <2>4 DEF BarrierInv, Start
  <2>8. Token'
    BY <1>1, <1>3, <2>3, <2>4, <2>5, <2>6 DEF BarrierInv, Token
  <2>9. Streams'
    BY <2>1, <2>3, <2>4, <2>5, <2>6 DEF BarrierInv, Streams
  <2> QED
    BY <2>7, <2>8, <2>9 DEF BarrierInv
<1> QED
  BY <1>2, <1>3 DEF serve

LEMMA BarrierHelloAck ==
    ASSUME TypeInv, BarrierInv, HelloAck
    PROVE  BarrierInv'
<1>1. /\ g_pc = "hello" /\ to_gem5 # << >> /\ to_gem5' = Tail(to_gem5)
      /\ UNCHANGED <<tbVars, g_cycle>>
  BY DEF HelloAck
<1>2. CASE ExitWith("exit1", << >>)
  BY <1>1, <1>2, BarrierGone
<1>3. CASE g_pc' = "send" /\ UNCHANGED to_tb
  <2>1. UNCHANGED <<tb_pc, sync_seen, done, cycles_run, cyc>> /\ tb_pc # "handshake"
    BY <1>1 DEF tbVars, loopVars, BarrierInv, Start
  <2>2. ~SyncSent /\ ~AckSent /\ ~SyncRouted /\ ~Running /\ cycles_run = g_cycle
    BY <1>1 DEF BarrierInv, Token, G5Gone
  <2>3. ~AckSent' /\ OnlyAfter(to_gem5, "ack", {"bye"})'
    BY <1>1, <2>2, PoppedHas DEF BarrierInv, Streams
  <2>4. \A t, T : /\ Has(to_tb, t)' <=> Has(to_tb, t)
                  /\ Only(to_tb, T)' <=> Only(to_tb, T)
                  /\ OnlyAfter(to_tb, t, T)' <=> OnlyAfter(to_tb, t, T)
    BY <1>3 DEF Has, Only, OnlyAfter
  <2>5. ~SyncSent' /\ ~SyncRouted' /\ ~Running'
    BY <2>1, <2>2, <2>4 DEF SyncSent, SyncRouted, Running
  <2>6. ~Has(to_tb, "bypass")
    BY <1>1 DEF BarrierInv, Start, Only, Has
  <2>7. Start'
    BY <1>1, <1>3, <2>1, <2>4 DEF BarrierInv, Start
  <2>8. Token'
    BY <1>1, <1>3, <2>1, <2>2, <2>3, <2>5 DEF BarrierInv, Token
  <2>9. Streams'
    BY <1>1, <2>1, <2>3, <2>4, <2>5, <2>6 DEF BarrierInv, Streams, G5Gone
  <2> QED
    BY <2>7, <2>8, <2>9 DEF BarrierInv
<1> QED
  BY <1>2, <1>3 DEF HelloAck

LEMMA BarrierSend ==
    ASSUME TypeInv, BarrierInv, SendQuantum
    PROVE  BarrierInv'
<1>1. g_pc = "send" /\ UNCHANGED <<to_gem5, tbVars, g_cycle>>
  BY DEF SendQuantum
<1>2. CASE Crash
  BY <1>1, <1>2, BarrierGone
<1>3. CASE ~TbGone /\ g_pc' = "wait_ack" /\ Sent(Outgoing)
  <2> DEFINE sync == AtCycle("sync", g_cycle)
             early == outbox \o WriteData
  <2>1. /\ outbox \in Seq(ToTb) /\ WriteData \in Seq(ToTb) /\ sync \in ToTb
        /\ early \in Seq(ToTb) /\ Outgoing \in Seq(ToTb)
        /\ Outgoing = Append(early, sync) /\ sync.t = "sync"
    BY QuantumTypes, ConcatProperties, AppendIsConcat DEF Outgoing, AtCycle
  <2>2. Only(outbox, {"flit_req", "bypass"}) /\ Only(WriteData, {"flit_dat"})
    <3>1. Only(outbox, {"flit_req", "bypass"})
      <4>1. outbox \in Seq([t : {"flit_req", "bypass"}, txn : Txns])
        BY DEF TypeInv
      <4>2. \A i \in DOMAIN outbox : outbox[i] \in [t : {"flit_req", "bypass"}, txn : Txns]
        BY <4>1, ElementOfSeq, LenProperties
      <4> QED
        BY <4>2 DEF Only
    <3>2. Only(WriteData, {"flit_dat"})
      BY DEF Only, WriteData, About
    <3> QED
      BY <3>1, <3>2
  <2>3. Only(early, {"flit_req", "bypass", "flit_dat"})
    <3>1. /\ Only(outbox, {"flit_req", "bypass", "flit_dat"})
          /\ Only(WriteData, {"flit_req", "bypass", "flit_dat"})
      BY <2>2 DEF Only
    <3> QED
      BY <2>1, <3>1, ConcatHas
  <2> HIDE DEF early, sync
  <2>4. /\ ~Has(early, "sync") /\ ~Has(early, "hello") /\ ~Has(early, "bye")
        /\ ~Has(early, "peer_closed")
    BY <2>3 DEF Only, Has
  <2>5. /\ OnlyAfter(Outgoing, "sync", EndTypes)
        /\ ~Has(Outgoing, "hello") /\ ~Has(Outgoing, "bye")
        /\ ~Has(Outgoing, "peer_closed")
    BY <2>1, <2>4, AppendHas
  <2>6. /\ ~SyncSent /\ ~SyncRouted /\ ~Running /\ ~AckSent /\ ~G5Gone
        /\ cycles_run = g_cycle /\ tb_pc # "handshake"
    BY <1>1 DEF BarrierInv, Token, Start, G5Gone
  <2>7. /\ OnlyAfter(to_tb, "sync", EndTypes)'
        /\ ~Has(to_tb, "bye")' /\ ~Has(to_tb, "peer_closed")'
        /\ Has(to_tb, "hello")' => Has(to_tb, "hello")
    BY <1>3, <2>1, <2>5, <2>6, SentHas DEF SyncSent, BarrierInv, Streams
  <2>8. UNCHANGED <<tb_pc, sync_seen, done, cycles_run, cyc>>
    BY <1>1 DEF tbVars, loopVars
  <2>9. /\ ~SyncRouted' /\ ~Running' /\ ~AckSent'
        /\ OnlyAfter(to_gem5, "ack", {"bye"})'
    BY <1>1, <2>6, <2>8 DEF SyncRouted, Running, AckSent, Has, OnlyAfter, BarrierInv, Streams
  <2>10. Start'
    BY <1>1, <1>3, <2>6, <2>7, <2>8 DEF BarrierInv, Start
  <2>11. Token'
    BY <1>1, <1>3, <2>6, <2>8, <2>9 DEF BarrierInv, Token
  <2>12. Streams'
    BY <1>1, <1>3, <2>7, <2>8, <2>9 DEF BarrierInv, Streams
  <2> QED
    BY <2>10, <2>11, <2>12 DEF BarrierInv
<1> QED
  BY <1>2, <1>3 DEF SendQuantum

\* gem5 handles one message of the quantum; the last is the ack.
LEMMA BarrierHandle ==
    ASSUME TypeInv, BarrierInv, handle
    PROVE  BarrierInv'
<1>1. /\ g_pc = "wait_ack" /\ to_gem5 # << >> /\ to_gem5' = Tail(to_gem5)
      /\ UNCHANGED <<tbVars, g_cycle>>
  BY DEF handle
<1>2. CASE FailContract(<< >>)
  BY <1>1, <1>2, BarrierGone
<1> DEFINE acked == Head(to_gem5).t = "ack"
<1>3. CASE UNCHANGED to_tb /\ g_pc' = (IF acked THEN "reply" ELSE g_pc)
  <2>1. UNCHANGED <<tb_pc, sync_seen, done, cycles_run, cyc>>
    BY <1>1 DEF tbVars, loopVars
  <2>2. \A t, T : /\ Has(to_tb, t)' <=> Has(to_tb, t)
                  /\ Only(to_tb, T)' <=> Only(to_tb, T)
                  /\ OnlyAfter(to_tb, t, T)' <=> OnlyAfter(to_tb, t, T)
    BY <1>3 DEF Has, Only, OnlyAfter
  <2>3. /\ SyncSent' <=> SyncSent
        /\ SyncRouted' <=> SyncRouted
        /\ Running' <=> Running
        /\ TbLive' <=> TbLive
    BY <2>1, <2>2 DEF SyncSent, SyncRouted, Running, TbLive
  <2>4. /\ OnlyAfter(to_gem5, "ack", {"bye"})'
        /\ acked => AckSent /\ ~AckSent'
        /\ ~acked => (AckSent' <=> AckSent)
    BY <1>1, PoppedHas DEF BarrierInv, Streams
  <2>5. g_pc' \in {"reply", "wait_ack"} /\ ~G5Gone' /\ ~G5Gone
    BY <1>1, <1>3 DEF G5Gone
  <2>6. tb_pc # "handshake"
    BY <1>1 DEF BarrierInv, Start, G5Gone
  <2> HIDE DEF acked
  <2>7. Start'
    BY <1>1, <2>1, <2>2, <2>5, <2>6 DEF BarrierInv, Start
  <2>8. acked => /\ g_pc' = "reply" /\ ~SyncSent /\ ~SyncRouted /\ ~Running
                 /\ cycles_run = g_cycle + Quantum
    BY <1>3, <2>4 DEF BarrierInv, Token
  <2>9. ~acked => g_pc' = "wait_ack"
    BY <1>1, <1>3
  <2>10. Token'
    <3>1. CASE acked
      BY <1>1, <2>1, <2>3, <2>4, <2>8, <3>1 DEF BarrierInv, Token
    <3>2. CASE ~acked
      BY <1>1, <2>1, <2>3, <2>4, <2>6, <2>9, <3>2 DEF BarrierInv, Token
    <3> QED
      BY <3>1, <3>2
  <2>11. Streams'
    <3>1. TbLive' /\ (g_pc' \in {"send", "reply"} \/ AckSent') => ~Has(to_tb, "bypass")'
      BY <2>2, <2>3, <2>4, <2>9 DEF BarrierInv, Streams
    <3> QED
      BY <2>1, <2>2, <2>3, <2>4, <2>5, <3>1 DEF BarrierInv, Streams
  <2> QED
    BY <2>7, <2>10, <2>11 DEF BarrierInv
<1> QED
  BY <1>2, <1>3 DEF handle

\* gem5's replies: either it goes on, or the run ends behind them.
LEMMA ReplySends ==
    ASSUME TypeInv, Reply, ~Crash
    PROVE  \/ g_pc' = "send" /\ Sent(quantum_msgs)
           \/ G5Gone' /\ \E u \in Farewells : Sent(quantum_msgs \o u)
<1>1. CASE \/ ExitWith("exit1", quantum_msgs) \/ ExitWith("exit0", quantum_msgs)
           \/ ExitWith("exit0", Append(quantum_msgs, Bye("workload exit")))
           \/ FailContract(quantum_msgs)
  <2>1. G5Gone'
    BY <1>1 DEF ExitWith, FailContract, G5Gone
  <2>2. quantum_msgs \in Seq(ToTb)
    BY QuantumTypes
  <2> QED
    BY <1>1, <2>1, <2>2, FarewellsSent DEF Farewells
<1> QED
  BY <1>1 DEF Reply

LEMMA BarrierReply ==
    ASSUME TypeInv, BarrierInv, Reply
    PROVE  BarrierInv'
<1>1. g_pc = "reply" /\ UNCHANGED <<to_gem5, tbVars>>
  BY DEF Reply
<1>2. CASE Crash
  <2>1. g_cycle' = g_cycle
    BY <1>1, <1>2 DEF Reply, Crash, ExitWith, FailContract
  <2> QED
    BY <1>1, <1>2, <2>1, BarrierGone
<1>3. CASE /\ g_cycle' = g_cycle + Quantum
           /\ \/ g_pc' = "send" /\ Sent(quantum_msgs)
              \/ G5Gone' /\ \E u \in Farewells : Sent(quantum_msgs \o u)
  <2>1. /\ quantum_msgs \in Seq(ToTb) /\ Only(quantum_msgs, {"mem_data"})
    BY QuantumTypes
  <2> DEFINE Goes(msgs) ==
               /\ Sent(msgs) /\ Only(msgs, {"mem_data", "bye", "peer_closed"})
               /\ \/ g_pc' = "send" /\ Only(msgs, {"mem_data"})
                  \/ G5Gone'
  <2>2. PICK msgs \in Seq(ToTb) : Goes(msgs)
    <3>1. Only(quantum_msgs, {"mem_data", "bye", "peer_closed"})
      BY <2>1 DEF Only
    <3>2. CASE g_pc' = "send" /\ Sent(quantum_msgs)
      BY <2>1, <3>1, <3>2
    <3>3. ASSUME G5Gone', NEW u \in Farewells, Sent(quantum_msgs \o u)
          PROVE  \E msgs \in Seq(ToTb) : Goes(msgs)
      <4>1. u \in Seq(ToTb) /\ Only(u, {"mem_data", "bye", "peer_closed"})
        BY FarewellsEnd DEF Only, EndTypes
      <4>2. /\ quantum_msgs \o u \in Seq(ToTb)
            /\ Only(quantum_msgs \o u, {"mem_data", "bye", "peer_closed"})
        BY <2>1, <3>1, <4>1, ConcatHas, ConcatProperties
      <4> QED
        BY <3>3, <4>2
    <3> QED
      BY <1>3, <3>2, <3>3
  <2>3. ~Has(msgs, "sync") /\ ~Has(msgs, "hello") /\ ~Has(msgs, "bypass")
    BY <2>2 DEF Only, Has
  <2>4. g_pc' = "send" => ~Has(msgs, "bye") /\ ~Has(msgs, "peer_closed")
    BY <2>2 DEF Only, Has, G5Gone
  <2>5. /\ ~SyncSent /\ ~SyncRouted /\ ~Running /\ ~AckSent /\ ~G5Gone
        /\ tb_pc # "handshake" /\ cycles_run = g_cycle + Quantum
    BY <1>1 DEF BarrierInv, Token, Start, G5Gone
  <2>6. /\ ~SyncSent'
        /\ Has(to_tb, "hello")' => Has(to_tb, "hello")
        /\ Has(to_tb, "bypass")' => Has(to_tb, "bypass")
        /\ g_pc' = "send" => ~Has(to_tb, "bye")' /\ ~Has(to_tb, "peer_closed")'
        /\ OnlyAfter(to_tb, "sync", EndTypes)'
    <3>1. /\ ~SyncSent'
          /\ Has(to_tb, "hello")' => Has(to_tb, "hello")
          /\ Has(to_tb, "bypass")' => Has(to_tb, "bypass")
          /\ g_pc' = "send" => ~Has(to_tb, "bye")' /\ ~Has(to_tb, "peer_closed")'
      BY <2>2, <2>3, <2>4, <2>5, SentHas DEF SyncSent, BarrierInv, Streams
    <3> QED
      BY <3>1 DEF SyncSent, Has, OnlyAfter
  <2>7. UNCHANGED <<tb_pc, sync_seen, done, cycles_run, cyc>>
    BY <1>1 DEF tbVars, loopVars
  <2>8. /\ ~SyncRouted' /\ ~Running' /\ ~AckSent' /\ (TbLive' <=> TbLive)
        /\ OnlyAfter(to_gem5, "ack", {"bye"})'
    BY <1>1, <2>5, <2>7 DEF SyncRouted, Running, AckSent, Has, OnlyAfter, TbLive, BarrierInv,
                            Streams
  <2>9. g_pc' = "send" \/ G5Gone'
    BY <2>2
  <2>10. cycles_run' = g_cycle' /\ cycles_run' \in g_cycle' .. g_cycle' + Quantum
    <3>1. g_cycle \in Nat /\ cycles_run \in Nat /\ Quantum \in Nat
      BY BarrierAssumption DEF TypeInv, TypeOK
    <3> QED
      BY <1>3, <2>5, <2>7, <3>1
  <2>11. Start'
    BY <1>1, <2>5, <2>6, <2>7, <2>9 DEF BarrierInv, Start, G5Gone
  <2>12. Token'
    BY <2>6, <2>8, <2>9, <2>10 DEF Token, G5Gone
  <2>13. Streams'
    BY <1>1, <2>5, <2>6, <2>7, <2>8, <2>9 DEF BarrierInv, Streams, G5Gone
  <2> QED
    BY <2>11, <2>12, <2>13 DEF BarrierInv
<1> QED
  BY <1>2, <1>3, ReplySends DEF Reply

LEMMA BarrierInit == Init => BarrierInv
<1> SUFFICES ASSUME Init PROVE BarrierInv
  OBVIOUS
<1>1. /\ to_tb = << >> /\ to_gem5 = << >> /\ tb_pc = "handshake" /\ g_pc = "accept"
      /\ sync_seen = FALSE /\ done = FALSE /\ cycles_run = 0 /\ g_cycle = 0
  BY DEF Init
<1>2. 0 \in 0 .. 0 + Quantum
  BY BarrierAssumption
<1>3. \A t, T : /\ ~Has(to_tb, t) /\ ~Has(to_gem5, t) /\ Only(to_tb, T)
                /\ OnlyAfter(to_tb, t, T) /\ OnlyAfter(to_gem5, t, T)
  BY <1>1 DEF Has, Only, OnlyAfter
<1>4. ~SyncSent /\ ~SyncRouted /\ ~Running /\ ~AckSent
  BY <1>1, <1>3 DEF SyncSent, SyncRouted, Running, AckSent
<1>5. Start
  BY <1>1, <1>3 DEF Start
<1>6. Token
  BY <1>1, <1>2, <1>4 DEF Token
<1>7. Streams
  BY <1>1, <1>3, <1>4 DEF Streams
<1> QED
  BY <1>5, <1>6, <1>7 DEF BarrierInv

LEMMA BarrierStep == TypeInv /\ BarrierInv /\ [Next]_vars => BarrierInv'
<1> SUFFICES ASSUME TypeInv, BarrierInv, [Next]_vars PROVE BarrierInv'
  OBVIOUS
<1>1. CASE UNCHANGED vars \/ Garble
  BY <1>1, BarrierFrame DEF vars, Garble, chanVars, tbVars, loopVars, g5Vars
<1>2. CASE Dispatch
  <2>1. /\ to_tb # << >> /\ route(Head(to_tb)) /\ ~done
        /\ tb_pc \notin {"handshake", "closed", "raised"}
        /\ UNCHANGED <<tb_pc, cycles_run, cyc, g_pc, g_cycle>>
    BY <1>2 DEF Dispatch, g5Vars
  <2>2. Head(to_tb).t # "hello"
    BY <2>1 DEF route
  <2> QED
    BY <2>1, <2>2, BarrierRoute
<1>3. CASE Handshake
  <2>1. CASE Head(to_tb).t # "hello"
    <3>1. /\ to_tb # << >> /\ route(Head(to_tb)) /\ tb_pc = "handshake"
          /\ UNCHANGED <<tb_pc, cycles_run, cyc, g_pc, g_cycle>>
      BY <1>3, <2>1 DEF Handshake, g5Vars
    <3> QED
      BY <2>1, <3>1, BarrierRoute
  <2> QED
    BY <1>3, <2>1, BarrierHello
<1>4. ASSUME NEW x \in Txns, DutStep(x) PROVE BarrierInv'
  BY <1>4, BarrierDut
<1>5. CASE RecvClosed
  <2>1. UNCHANGED <<to_gem5, tbVars, g_cycle>>
    BY <1>5 DEF RecvClosed
  <2>2. CASE UNCHANGED <<to_tb, g_pc>>
    BY <2>1, <2>2, BarrierFrame DEF tbVars, loopVars
  <2>3. CASE Crash \/ ExitWith("exit1", << >>)
    BY <2>1, <2>3, BarrierGone
  <2> QED
    BY <1>5, <2>2, <2>3 DEF RecvClosed
<1>6. CASE G5Timeout
  <2>1. UNCHANGED <<to_gem5, tbVars, g_cycle>>
    BY <1>6 DEF G5Timeout
  <2>2. ExitWith("exit1", << >>) \/ FailContract(<< >>)
    BY <1>6 DEF G5Timeout
  <2> QED
    BY <2>1, <2>2, BarrierGone
<1>7. CASE Vanish
  BY <1>7, BarrierGone DEF Vanish
<1> QED
  BY <1>1, <1>2, <1>3, <1>4, <1>5, <1>6, <1>7, BarrierUnpark, BarrierClock, BarrierAck,
     BarrierTbEnds, BarrierServe, BarrierHelloAck, BarrierSend, BarrierHandle,
     BarrierReply DEF Next

(***************************************************************************)
(* gem5 runs only while the DUT stands at its own cycle, and the DUT is    *)
(* never behind it nor more than a quantum ahead.                          *)
(***************************************************************************)
THEOREM LockstepKept == Spec => []Lockstep
<1>1. BarrierInv => Lockstep
  BY DEF BarrierInv, Token, Lockstep
<1> QED
  BY <1>1, TypeInit, TypeStep, BarrierInit, BarrierStep, PTL DEF Spec

(***************************************************************************)
(* When a quantum runs, everything gem5 sent before its sync was routed.   *)
(***************************************************************************)
THEOREM QuantaSeeAll == Spec => []QuantumSeesAll
<1>1. BarrierInv => QuantumSeesAll
  BY DEF BarrierInv, Streams, Running, Only, EndTypes, QuantumSeesAll
<1> QED
  BY <1>1, TypeInit, TypeStep, BarrierInit, BarrierStep, PTL DEF Spec

-------------------------------------------------------------------------------
(***************************************************************************)
(* Memory accesses.  What gem5 sends and reads leaves the accesses that    *)
(* are on their way where they are.                                        *)
(***************************************************************************)
LEMMA SentIn ==
    ASSUME TypeInv, NEW msgs \in Seq(ToTb), Sent(msgs), NEW m
    PROVE  /\ In(to_tb, m) => In(to_tb, m)'
           /\ readable /\ In(msgs, m) => In(to_tb, m)'
<1>1. to_tb \in Seq(ToTb)
  BY DEF TypeInv
<1>2. In(to_tb, m) \/ In(msgs, m) => In(to_tb \o msgs, m)
  BY <1>1, ConcatIn
<1>3. /\ to_tb' = to_tb => (In(to_tb, m)' <=> In(to_tb, m))
      /\ to_tb' = to_tb \o msgs => (In(to_tb, m)' <=> In(to_tb \o msgs, m))
  BY DEF In
<1> QED
  BY <1>2, <1>3 DEF Sent

\* gem5 leaves without another sync.
LEMMA MemLeave ==
    ASSUME TypeInv, BarrierInv, MemInv, NEW msgs \in Seq(ToTb), Sent(msgs),
           ~Has(msgs, "sync"), G5Gone', UNCHANGED <<scenario, tbVars>>,
           to_gem5' = to_gem5 \/ (to_gem5 # << >> /\ to_gem5' = Tail(to_gem5))
    PROVE  MemInv'
<1>1. UNCHANGED <<scenario, tb_pc, sync_seen, done, syncs_acked, work, asked_at>>
  BY DEF tbVars, loopVars, dutVars
<1>2. (TbLive' <=> TbLive) /\ (SyncRouted' <=> SyncRouted) /\ (Running' <=> Running)
  BY <1>1 DEF TbLive, SyncRouted, Running
<1>3. SyncSent' => SyncSent
  BY SentHas DEF SyncSent
<1>4. AckSent' => AckSent
  BY PoppedHas DEF AckSent, Has
<1>5. g_pc' \notin {"accept", "hello", "send", "reply", "wait_ack"}
  BY DEF G5Gone
<1>6. ASSUME TbLive', NEW x \in Txns PROVE MemOf(x)'
  <2>1. MemOf(x)
    BY <1>2, <1>6 DEF MemInv
  <2>2. (InMem(x)' <=> InMem(x)) /\ (Old(x)' <=> Old(x)) /\ asked_at'[x] <= syncs_acked'
    BY <1>1, <2>1 DEF InMem, Old, MemOf
  <2>3. Answered(x, to_tb) => Answered(x, to_tb)'
    <3>1. In(to_tb, About("mem_data", x)) => In(to_tb, About("mem_data", x))'
      BY SentIn
    <3> QED
      BY <3>1 DEF Answered
  <2> QED
    BY <1>2, <1>3, <1>4, <1>5, <2>1, <2>2, <2>3 DEF MemOf
<1> QED
  BY <1>1, <1>6 DEF MemInv, Txns

LEMMA MemGone ==
    ASSUME TypeInv, BarrierInv, MemInv, UNCHANGED <<scenario, tbVars>>,
           to_gem5' = to_gem5 \/ (to_gem5 # << >> /\ to_gem5' = Tail(to_gem5)),
           \/ Crash
           \/ \E pc \in {"exit0", "exit1", "vanished"} : ExitWith(pc, << >>)
           \/ FailContract(<< >>)
    PROVE  MemInv'
<1>1. PICK u \in Farewells : Sent(u) /\ G5Gone'
  BY LeaveSends
<1>2. u \in Seq(ToTb) /\ ~Has(u, "sync")
  BY <1>1, FarewellsEnd DEF Only, Has, EndTypes
<1> QED
  BY <1>1, <1>2, MemLeave

\* The testbench routes a message.
LEMMA MemRoute ==
    ASSUME TypeInv, BarrierInv, MemInv, to_tb # << >>, route(Head(to_tb)),
           Head(to_tb).t # "hello", tb_pc = "handshake" \/ ~done,
           UNCHANGED <<scenario, readable, tb_pc, syncs_acked, g_pc, quantum_msgs>>
    PROVE  MemInv'
<1> DEFINE m == Head(to_tb)
<1>1. to_tb \in Seq(ToTb) /\ m \in ToTb /\ to_tb' = Tail(to_tb) /\ to_gem5 \in Seq(ToGem5)
  BY TailElements DEF TypeInv, route
<1>2. /\ SyncSent' => SyncSent
      /\ Only(to_tb, {"hello", "bye", "peer_closed"}) => m.t \in {"hello", "bye", "peer_closed"}
      /\ OnlyAfter(to_tb, "sync", EndTypes) /\ m.t = "sync" => Only(Tail(to_tb), EndTypes)
  <2>1. SyncSent' <=> Has(Tail(to_tb), "sync")
    BY <1>1 DEF SyncSent, Has
  <2> QED
    BY <1>1, <2>1, TailHas DEF SyncSent
<1>3. /\ m.t \in {"peer_closed", "flit_req", "flit_dat", "bypass", "mem_data", "bye",
                  "sync"}
      /\ m.t \in {"flit_req", "flit_dat", "bypass", "mem_data"} => m.txn \in Txns
      /\ m.t = "sync" => SyncSent
      /\ m.t = "bypass" => Has(to_tb, "bypass")
  <2>1. m = to_tb[1] /\ 1 \in DOMAIN to_tb
    BY <1>1, TailElements
  <2>2. /\ m.t = "sync" => SyncSent
        /\ m.t = "bypass" => Has(to_tb, "bypass")
    BY <2>1 DEF SyncSent, Has
  <2> QED
    BY <1>1, <2>2, Fields
<1>4. \A x : Answered(x, to_tb) => m = About("mem_data", x) \/ Answered(x, to_tb)'
  <2>1. ASSUME NEW x, In(to_tb, About("mem_data", x))
        PROVE  m = About("mem_data", x) \/ In(Tail(to_tb), About("mem_data", x))
    BY <1>1, <2>1, TailIn
  <2>2. \A x : In(to_tb, About("mem_data", x))' <=> In(Tail(to_tb), About("mem_data", x))
    BY <1>1 DEF In
  <2> QED
    BY <2>1, <2>2 DEF Answered
<1>5. \A x : About("mem_data", x).t = "mem_data" /\ About("mem_data", x).txn = x
  BY DEF About
<1> HIDE DEF m
<1>6. route(m)
  BY DEF m
<1>7. /\ TbLive' <=> TbLive
      /\ Running' <=> Running
      /\ \A x : (Answered(x, quantum_msgs)' <=> Answered(x, quantum_msgs))
  BY DEF TbLive, Running, Answered, In
<1>8. /\ work \in [Txns -> {"none", "accepted", "granted", "data", "mem", "fetched",
                            "answered"}]
      /\ asked_at \in [Txns -> Nat] /\ syncs_acked \in Nat
  BY DEF TypeInv, TypeOK
<1>9. ASSUME TbLive', NEW x \in Txns PROVE MemOf(x)'
  <2>1. MemOf(x) /\ TbLive
    BY <1>7, <1>9 DEF MemInv
  <2>2. CASE m.t = "bypass"
    <3>1. /\ work' = [work EXCEPT ![m.txn] = "mem"]
          /\ asked_at' = [asked_at EXCEPT ![m.txn] = syncs_acked]
          /\ to_gem5' = Append(to_gem5, About("mem_read", m.txn))
          /\ UNCHANGED <<sync_seen, done>>
      BY <1>6, <2>2 DEF route
    <3>2. /\ g_pc \notin {"accept", "hello", "send", "reply"} /\ ~AckSent
      BY <1>2, <1>3, <2>1, <2>2 DEF BarrierInv, Start, Streams
    <3>3. SyncRouted' <=> SyncRouted
      BY <3>1 DEF SyncRouted
    <3>4. /\ ~AckSent'
          /\ Asked(x) => Asked(x)'
          /\ x = m.txn => Asked(x)'
      <4> DEFINE e == About("mem_read", m.txn)
      <4>1. e \in ToGem5 /\ e.t = "mem_read"
        BY <1>3, <2>2, Messages DEF About
      <4> HIDE DEF e
      <4>2. ~AckSent'
        <5>1. to_gem5' = Append(to_gem5, e)
          BY <3>1 DEF e
        <5> QED
          BY <3>2, <4>1, <5>1, QueuedHas
      <4>3. \A y : In(to_gem5, y) \/ e = y => In(Append(to_gem5, e), y)
        BY <1>1, <4>1, AppendIn
      <4>4. \A y : Asked(y)' <=> In(Append(to_gem5, e), About("mem_read", y))
        BY <3>1 DEF Asked, In, e
      <4> QED
        BY <4>2, <4>3, <4>4 DEF Asked, e
    <3>5. CASE x = m.txn
      <4>1. work'[x] = "mem" /\ asked_at'[x] = syncs_acked
        BY <1>8, <3>1, <3>5
      <4>2. ~Old(x)' /\ asked_at'[x] <= syncs_acked'
        BY <1>8, <4>1 DEF Old
      <4> QED
        BY <3>2, <3>4, <3>5, <4>1, <4>2 DEF MemOf
    <3>6. CASE x # m.txn
      <4>1. work'[x] = work[x] /\ asked_at'[x] = asked_at[x]
        BY <1>8, <3>1, <3>6
      <4>2. /\ Old(x)' <=> Old(x)
            /\ InMem(x)' <=> InMem(x)
            /\ asked_at'[x] <= syncs_acked'
        BY <2>1, <4>1 DEF Old, InMem, MemOf
      <4>3. Answered(x, to_tb) => Answered(x, to_tb)'
        BY <1>4, <1>5, <2>2
      <4> QED
        BY <1>2, <1>7, <2>1, <3>2, <3>3, <3>4, <4>2, <4>3 DEF MemOf
    <3> QED
      BY <3>5, <3>6
  <2>3. CASE m.t \in {"flit_req", "flit_dat", "mem_data"}
    <3>1. /\ UNCHANGED <<to_gem5, asked_at, sync_seen, done>>
          /\ \E v \in {"accepted", "data", "fetched", work[m.txn]} :
                work' = [work EXCEPT ![m.txn] = v]
          /\ m.t = "mem_data" => work'[m.txn] # "mem"
      BY <1>3, <1>6, <1>8, <2>3 DEF route, deliver
    <3>2. InMem(x)' => InMem(x)
      BY <1>8, <3>1 DEF InMem
    <3>3. /\ Old(x)' <=> Old(x) /\ InMem(x)'
          /\ asked_at'[x] <= syncs_acked'
      BY <2>1, <3>1, <3>2 DEF Old, InMem, MemOf
    <3>4. Answered(x, to_tb) /\ InMem(x)' => Answered(x, to_tb)'
      BY <1>4, <1>5, <3>1 DEF InMem
    <3>5. /\ SyncRouted' <=> SyncRouted
          /\ AckSent' <=> AckSent
          /\ Asked(x)' <=> Asked(x)
      BY <3>1 DEF SyncRouted, AckSent, Has, Asked, In
    <3> QED
      BY <1>2, <1>7, <2>1, <3>2, <3>3, <3>4, <3>5 DEF MemOf
  <2>4. CASE m.t \in {"sync", "bye", "peer_closed"}
    <3>1. /\ UNCHANGED <<to_gem5, work, asked_at>>
          /\ done' # done => done' = TRUE
          /\ m.t # "sync" => done' = TRUE
      BY <1>6, <2>4 DEF route, dutVars
    <3>2. /\ Old(x)' <=> Old(x)
          /\ InMem(x)' <=> InMem(x)
          /\ asked_at'[x] <= syncs_acked'
      BY <2>1, <3>1 DEF Old, InMem, MemOf
    <3>3. /\ AckSent' <=> AckSent
          /\ Asked(x)' <=> Asked(x)
      BY <3>1 DEF AckSent, Has, Asked, In
    <3>4. Answered(x, to_tb) => Answered(x, to_tb)'
      BY <1>4, <1>5, <2>4
    <3>5. SyncRouted' => ~Old(x)
      <4>1. CASE m.t = "sync"
        <5>1. SyncSent /\ Only(Tail(to_tb), EndTypes)
          BY <1>2, <1>3, <4>1 DEF BarrierInv, Streams
        <5>2. ~Answered(x, to_tb)'
          <6>1. ~In(Tail(to_tb), About("mem_data", x))
            BY <1>5, <5>1 DEF Only, In, EndTypes
          <6> QED
            BY <1>1, <6>1 DEF Answered, In
        <5> QED
          BY <2>1, <3>4, <5>1, <5>2 DEF MemOf
      <4>2. CASE m.t # "sync"
        BY <3>1, <4>2 DEF SyncRouted
      <4> QED
        BY <4>1, <4>2
    <3> QED
      BY <1>2, <1>7, <2>1, <3>2, <3>3, <3>4, <3>5 DEF MemOf
  <2> QED
    BY <1>3, <2>2, <2>3, <2>4
<1> QED
  BY <1>9 DEF MemInv, Txns

\* What the testbench appends to to_gem5 leaves an access asked for.
LEMMA QueuedIn ==
    ASSUME TypeInv, NEW u \in Seq(ToGem5), to_gem5' = to_gem5 \o u, NEW x
    PROVE  /\ Asked(x) => Asked(x)'
           /\ In(u, About("mem_read", x)) => Asked(x)'
<1>1. \A m : In(to_gem5, m) \/ In(u, m) => In(to_gem5 \o u, m)
  BY ConcatIn DEF TypeInv
<1>2. Asked(x)' <=> In(to_gem5 \o u, About("mem_read", x))
  BY DEF Asked, In
<1> QED
  BY <1>1, <1>2 DEF Asked

LEMMA MemAck ==
    ASSUME TypeInv, BarrierInv, MemInv, SendAck
    PROVE  MemInv'
<1> DEFINE ack == AtCycle("ack", sync_cycle)
<1>1. /\ tb_pc = "quantum" /\ tb_pc' \in {"closing", "park"}
      /\ tb_pc' = "park" => to_gem5' = Append(to_gem5, ack) /\ done' = done
      /\ syncs_acked' = syncs_acked + 1
      /\ UNCHANGED <<scenario, to_tb, sync_seen, work, asked_at, g_pc, quantum_msgs>>
  BY DEF SendAck, envVars, dutVars, g5Vars
<1>2. /\ Running /\ ~SyncSent /\ (g_pc = "wait_ack" \/ G5Gone) /\ (sync_seen => done)
  BY <1>1 DEF Running, BarrierInv, Token
<1>3. ASSUME tb_pc' = "park", NEW x \in Txns PROVE MemOf(x)'
  <2>1. MemOf(x)
    BY <1>1, <1>3 DEF MemInv, TbLive
  <2>2. asked_at[x] \in Nat /\ syncs_acked \in Nat
    BY DEF TypeInv, TypeOK
  <2>3. (InMem(x) => asked_at[x] = syncs_acked) /\ asked_at[x] <= syncs_acked
    BY <1>2, <2>1 DEF MemOf, Old
  <2>4. asked_at[x] # syncs_acked' /\ asked_at[x] <= syncs_acked'
    BY <1>1, <2>1, <2>2, <2>3 DEF MemOf
  <2>5. /\ InMem(x)' <=> InMem(x)
        /\ InMem(x)' => Old(x)' /\ ~Old(x)
        /\ asked_at'[x] <= syncs_acked'
    BY <1>1, <2>3, <2>4 DEF InMem, Old
  <2>6. ~SyncRouted' /\ ~Running' /\ ~SyncSent'
    BY <1>1, <1>2, <1>3 DEF SyncRouted, Running, SyncSent, Has
  <2>7. Asked(x) => Asked(x)'
    <3>1. ack \in ToGem5
      BY Messages DEF TypeInv, TypeOK
    <3> HIDE DEF ack
    <3>2. to_gem5 \in Seq(ToGem5) /\ to_gem5' = Append(to_gem5, ack)
      BY <1>1, <1>3 DEF TypeInv
    <3>3. to_gem5' = to_gem5 \o <<ack>> /\ <<ack>> \in Seq(ToGem5)
      BY <3>1, <3>2, AppendIsConcat
    <3> QED
      BY <3>3, QueuedIn
  <2>8. Answered(x, quantum_msgs)' <=> Answered(x, quantum_msgs)
    BY <1>1 DEF Answered, In
  <2> QED
    BY <1>1, <1>2, <2>1, <2>5, <2>6, <2>7, <2>8 DEF MemOf, G5Gone
<1> QED
  BY <1>1, <1>3 DEF MemInv, TbLive, Txns

LEMMA MemDut ==
    ASSUME TypeInv, BarrierInv, MemInv, NEW y \in Txns, DutStep(y)
    PROVE  MemInv'
<1>1. /\ tb_pc = "quantum"
      /\ UNCHANGED <<scenario, readable, to_tb, tb_pc, sync_seen, done, syncs_acked, g_pc,
                     quantum_msgs>>
  BY DEF DutStep, ClockRuns, envVars, loopVars, g5Vars
<1>2. PICK t \in {"dbid", "mem_read", "good", "bad"}, v \in {"granted", "mem", "answered"} :
        /\ to_gem5' = Append(to_gem5, About(t, y)) /\ work' = [work EXCEPT ![y] = v]
        /\ IF t = "mem_read"
             THEN v = "mem" /\ asked_at' = [asked_at EXCEPT ![y] = syncs_acked]
             ELSE v # "mem" /\ asked_at' = asked_at
  BY DEF DutStep
<1>3. About(t, y) \in ToGem5
  BY Messages
<1>4. to_gem5' = to_gem5 \o <<About(t, y)>> /\ <<About(t, y)>> \in Seq(ToGem5)
  BY <1>2, <1>3, AppendIsConcat DEF TypeInv
<1>5. Running /\ ~AckSent /\ ~SyncSent /\ (g_pc = "wait_ack" \/ G5Gone) /\ ~SyncRouted
  BY <1>1 DEF Running, BarrierInv, Token, SyncRouted
<1>6. /\ ~AckSent' /\ ~SyncRouted' /\ ~SyncSent'
  <2>1. About(t, y).t # "ack"
    BY DEF About
  <2> QED
    BY <1>1, <1>2, <1>3, <1>5, <2>1, QueuedHas DEF SyncRouted, SyncSent, Has
<1>7. /\ work \in [Txns -> {"none", "accepted", "granted", "data", "mem", "fetched",
                            "answered"}]
      /\ asked_at \in [Txns -> Nat] /\ syncs_acked \in Nat
  BY DEF TypeInv, TypeOK
<1>8. ASSUME NEW x \in Txns PROVE MemOf(x)'
  <2>1. MemOf(x)
    BY <1>1, <1>8 DEF MemInv, TbLive
  <2>2. Asked(x) => Asked(x)'
    BY <1>4, QueuedIn
  <2>3. Answered(x, quantum_msgs)' <=> Answered(x, quantum_msgs)
    BY <1>1 DEF Answered, In
  <2>4. CASE x = y /\ t = "mem_read"
    <3>1. asked_at'[x] = syncs_acked' /\ asked_at'[x] <= syncs_acked'
      BY <1>1, <1>2, <1>7, <2>4
    <3>2. Asked(x)'
      <4>1. In(<<About(t, y)>>, About("mem_read", x))
        BY <2>4 DEF In
      <4> QED
        BY <1>4, <4>1, QueuedIn
    <3> QED
      BY <1>1, <1>5, <1>6, <3>1, <3>2 DEF MemOf, Old, G5Gone
  <2>5. CASE ~(x = y /\ t = "mem_read")
    <3>1. asked_at'[x] = asked_at[x] /\ (work'[x] = "mem" => work[x] = "mem")
      BY <1>2, <1>7, <2>5
    <3>2. /\ InMem(x)' => InMem(x)
          /\ Old(x)' <=> Old(x) /\ InMem(x)'
          /\ asked_at'[x] <= syncs_acked'
      BY <1>1, <2>1, <3>1 DEF InMem, Old, MemOf
    <3> QED
      BY <1>1, <1>5, <1>6, <2>1, <2>2, <2>3, <3>2 DEF MemOf, G5Gone
  <2> QED
    BY <2>4, <2>5
<1> QED
  BY <1>1, <1>8 DEF MemInv, Txns

LEMMA MemSend ==
    ASSUME TypeInv, BarrierInv, MemInv, SendQuantum
    PROVE  MemInv'
<1>1. g_pc = "send" /\ UNCHANGED <<scenario, to_gem5, tbVars>>
  BY DEF SendQuantum, envVars
<1>2. CASE Crash
  BY <1>1, <1>2, MemGone
<1>3. CASE g_pc' = "wait_ack" /\ Sent(Outgoing)
  <2>1. UNCHANGED <<tb_pc, sync_seen, done, syncs_acked, work, asked_at>>
    BY <1>1 DEF tbVars, loopVars, dutVars
  <2>2. ~SyncSent /\ ~SyncRouted /\ ~Running /\ ~AckSent
    BY <1>1 DEF BarrierInv, Token, G5Gone
  <2>3. ~SyncRouted' /\ ~Running' /\ ~AckSent' /\ (TbLive' <=> TbLive)
    BY <1>1, <2>1, <2>2 DEF SyncRouted, Running, AckSent, TbLive, Has
  <2>4. ~readable => ~SyncSent'
    BY <1>3, <2>2 DEF Sent, SyncSent, Has
  <2>5. ASSUME TbLive', NEW x \in Txns PROVE MemOf(x)'
    <3>1. MemOf(x)
      BY <2>3, <2>5 DEF MemInv
    <3>2. (InMem(x)' <=> InMem(x)) /\ (Old(x)' <=> Old(x)) /\ asked_at'[x] <= syncs_acked'
      BY <2>1, <3>1 DEF InMem, Old, MemOf
    <3>3. Answered(x, to_tb) => Answered(x, to_tb)'
      BY <1>3, QuantumTypes, SentIn DEF Answered
    <3>4. InMem(x) => Old(x) /\ (readable => Answered(x, to_tb)')
      BY <1>1, <3>1, <3>3 DEF MemOf
    <3>5. Old(x) => InMem(x)
      BY DEF Old
    <3> QED
      BY <1>3, <2>3, <2>4, <3>2, <3>4, <3>5 DEF MemOf
  <2> QED
    BY <1>1, <2>5 DEF MemInv, Txns
<1> QED
  BY <1>2, <1>3 DEF SendQuantum

LEMMA MemHandle ==
    ASSUME TypeInv, BarrierInv, MemInv, handle
    PROVE  MemInv'
<1> DEFINE m == Head(to_gem5)
<1>1. /\ g_pc = "wait_ack" /\ to_gem5 # << >> /\ to_gem5' = Tail(to_gem5)
      /\ UNCHANGED <<scenario, readable, tbVars>>
  BY DEF handle, envVars
<1>2. CASE FailContract(<< >>)
  BY <1>1, <1>2, MemGone
<1>3. CASE /\ UNCHANGED to_tb /\ g_pc' = (IF m.t = "ack" THEN "reply" ELSE "wait_ack")
           /\ IF m.t = "mem_read"
                THEN quantum_msgs' = Append(quantum_msgs, About("mem_data", m.txn))
                ELSE quantum_msgs' = quantum_msgs
  <2>1. UNCHANGED <<tb_pc, sync_seen, done, syncs_acked, work, asked_at>>
    BY <1>1 DEF tbVars, loopVars, dutVars
  <2>2. /\ TbLive' <=> TbLive
        /\ SyncRouted' <=> SyncRouted
        /\ Running' <=> Running
        /\ SyncSent' <=> SyncSent
    BY <1>3, <2>1 DEF TbLive, SyncRouted, Running, SyncSent, Has
  <2>3. /\ AckSent' => AckSent
        /\ m.t = "ack" => AckSent /\ Only(to_gem5, {"bye"})'
    BY <1>1, PoppedHas DEF BarrierInv, Streams
  <2>4. m \in ToGem5 /\ (m.t = "mem_read" => m.txn \in Txns)
    <3>1. m \in ToGem5
      BY <1>1, TailElements DEF TypeInv
    <3> QED
      BY <3>1, Fields
  <2>5. \A x : Asked(x) => m = About("mem_read", x) \/ Asked(x)'
    <3>1. ASSUME NEW x, In(to_gem5, About("mem_read", x))
          PROVE  m = About("mem_read", x) \/ In(Tail(to_gem5), About("mem_read", x))
      BY <1>1, <3>1, TailIn DEF TypeInv
    <3>2. \A x : In(to_gem5, About("mem_read", x))' <=> In(Tail(to_gem5), About("mem_read", x))
      BY <1>1 DEF In
    <3> QED
      BY <3>1, <3>2 DEF Asked
  <2>6. m.t = "ack" => \A x : ~Asked(x)'
    <3>1. \A x : About("mem_read", x).t = "mem_read"
      BY DEF About
    <3>2. m.t = "ack" => Only(Tail(to_gem5), {"bye"})
      BY <1>1, <2>3 DEF Only
    <3>3. m.t = "ack" => \A x : ~In(Tail(to_gem5), About("mem_read", x))
      BY <3>1, <3>2 DEF Only, In
    <3> QED
      BY <1>1, <3>3 DEF Asked, In
  <2>7. \A x : /\ Answered(x, quantum_msgs) => Answered(x, quantum_msgs)'
               /\ m = About("mem_read", x) => Answered(x, quantum_msgs)'
    <3> DEFINE e == About("mem_data", m.txn)
    <3>0. \A x : About("mem_read", x).t = "mem_read" /\ About("mem_read", x).txn = x
      BY DEF About
    <3>1. CASE m.t = "mem_read"
      <4>1. quantum_msgs \in Seq(ToTb) /\ e \in ToTb
        BY <2>4, <3>1, QuantumTypes DEF About, ToTb
      <4> HIDE DEF e
      <4>2. \A y : In(quantum_msgs, y) \/ e = y => In(Append(quantum_msgs, e), y)
        BY <4>1, AppendIn
      <4>3. \A x : Answered(x, quantum_msgs)'
                  <=> In(Append(quantum_msgs, e), About("mem_data", x))
        BY <1>3, <3>1 DEF Answered, In, e
      <4> QED
        BY <3>0, <4>2, <4>3 DEF Answered, e
    <3>2. CASE m.t # "mem_read"
      BY <1>3, <3>0, <3>2 DEF Answered, In
    <3> QED
      BY <3>1, <3>2
  <2> HIDE DEF m
  <2>8. ASSUME TbLive', NEW x \in Txns PROVE MemOf(x)'
    <3>1. MemOf(x)
      BY <2>2, <2>8 DEF MemInv
    <3>2. (InMem(x)' <=> InMem(x)) /\ (Old(x)' <=> Old(x)) /\ asked_at'[x] <= syncs_acked'
      BY <2>1, <3>1 DEF InMem, Old, MemOf
    <3>3. Answered(x, to_tb)' <=> Answered(x, to_tb)
      BY <1>3 DEF Answered, In
    <3>4. InMem(x) /\ (~Old(x) \/ AckSent) => Asked(x)' \/ Answered(x, quantum_msgs)'
      BY <1>1, <2>5, <2>7, <3>1 DEF MemOf
    <3>5. g_pc' = "reply" /\ InMem(x) => Old(x) /\ Answered(x, quantum_msgs)'
      BY <1>3, <2>3, <2>6, <3>1, <3>4 DEF MemOf
    <3>6. g_pc' \in {"reply", "wait_ack"}
      BY <1>3
    <3> QED
      BY <2>2, <2>3, <3>1, <3>2, <3>3, <3>4, <3>5, <3>6 DEF MemOf
  <2> QED
    BY <1>1, <2>8 DEF MemInv, Txns
<1> QED
  BY <1>1, <1>2, <1>3 DEF handle

LEMMA MemReply ==
    ASSUME TypeInv, BarrierInv, MemInv, Reply
    PROVE  MemInv'
<1>1. g_pc = "reply" /\ UNCHANGED <<scenario, readable, to_gem5, tbVars, quantum_msgs>>
  BY DEF Reply, envVars
<1>2. CASE Crash
  BY <1>1, <1>2, MemGone
<1>3. quantum_msgs \in Seq(ToTb) /\ ~Has(quantum_msgs, "sync")
  BY QuantumTypes DEF Only, Has
<1>4. ASSUME G5Gone', NEW u \in Farewells, Sent(quantum_msgs \o u) PROVE MemInv'
  <2>1. u \in Seq(ToTb) /\ ~Has(u, "sync")
    BY FarewellsEnd DEF Only, Has, EndTypes
  <2>2. quantum_msgs \o u \in Seq(ToTb) /\ ~Has(quantum_msgs \o u, "sync")
    BY <1>3, <2>1, ConcatProperties, ConcatHas
  <2> QED
    BY <1>1, <1>4, <2>2, MemLeave
<1>5. CASE g_pc' = "send" /\ Sent(quantum_msgs)
  <2>1. UNCHANGED <<tb_pc, sync_seen, done, syncs_acked, work, asked_at>>
    BY <1>1 DEF tbVars, loopVars, dutVars
  <2>2. ~SyncSent /\ ~SyncRouted /\ ~Running /\ ~AckSent
    BY <1>1 DEF BarrierInv, Token, G5Gone
  <2>3. ~SyncRouted' /\ ~Running' /\ ~AckSent' /\ (TbLive' <=> TbLive)
    BY <1>1, <2>1, <2>2 DEF SyncRouted, Running, AckSent, TbLive, Has
  <2>4. ~SyncSent'
    BY <1>3, <1>5, <2>2, SentHas DEF SyncSent
  <2>5. ASSUME TbLive', NEW x \in Txns PROVE MemOf(x)'
    <3>1. MemOf(x)
      BY <2>3, <2>5 DEF MemInv
    <3>2. (InMem(x)' <=> InMem(x)) /\ (Old(x)' <=> Old(x)) /\ asked_at'[x] <= syncs_acked'
      BY <2>1, <3>1 DEF InMem, Old, MemOf
    <3>3. readable /\ Answered(x, quantum_msgs) => Answered(x, to_tb)'
      BY <1>3, <1>5, SentIn DEF Answered
    <3>4. InMem(x) => Old(x) /\ (readable' => Answered(x, to_tb)')
      BY <1>1, <3>1, <3>3 DEF MemOf
    <3> QED
      BY <1>5, <2>3, <2>4, <3>2, <3>4 DEF MemOf
  <2> QED
    BY <1>1, <2>5 DEF MemInv, Txns
<1> QED
  BY <1>2, <1>4, <1>5, ReplySends DEF Reply

\* Steps that leave the accesses and what is on its way alone.
LEMMA MemFrame ==
    ASSUME MemInv, UNCHANGED <<scenario, to_tb, to_gem5, tb_pc, sync_seen, done, syncs_acked,
                               work, asked_at, g_pc, quantum_msgs>>,
           readable' => readable
    PROVE  MemInv'
<1>1. /\ TbLive' <=> TbLive
      /\ SyncRouted' <=> SyncRouted
      /\ Running' <=> Running
      /\ SyncSent' <=> SyncSent
      /\ AckSent' <=> AckSent
  BY DEF TbLive, SyncRouted, Running, SyncSent, AckSent, Has
<1>2. ASSUME TbLive', NEW x \in Txns PROVE MemOf(x)'
  <2>1. MemOf(x)
    BY <1>1, <1>2 DEF MemInv
  <2>2. /\ (InMem(x)' <=> InMem(x)) /\ (Old(x)' <=> Old(x)) /\ asked_at'[x] <= syncs_acked'
        /\ (Answered(x, to_tb)' <=> Answered(x, to_tb)) /\ (Asked(x)' <=> Asked(x))
        /\ Answered(x, quantum_msgs)' <=> Answered(x, quantum_msgs)
    BY <2>1 DEF InMem, Old, Answered, Asked, In, MemOf
  <2> QED
    BY <1>1, <2>1, <2>2 DEF MemOf
<1> QED
  BY <1>2 DEF MemInv, Txns

LEMMA MemHello ==
    ASSUME TypeInv, BarrierInv, MemInv, Handshake, Head(to_tb).t = "hello"
    PROVE  MemInv'
<1>1. /\ tb_pc = "handshake" /\ tb_pc' = "park" /\ to_tb # << >> /\ to_tb' = Tail(to_tb)
      /\ to_gem5' = Append(to_gem5, Msg("hello_ack"))
      /\ UNCHANGED <<scenario, sync_seen, done, syncs_acked, work, asked_at, g_pc>>
  BY DEF Handshake, envVars, dutVars, g5Vars, route
<1>2. /\ g_pc \in {"accept", "hello"} \/ G5Gone
      /\ to_gem5 = << >> /\ (sync_seen => done) /\ OnlyAfter(to_tb, "hello", EndTypes)
  BY <1>1 DEF BarrierInv, Start
<1>3. ~AckSent'
  <2>1. to_gem5' = <<Msg("hello_ack")>>
    BY <1>1, <1>2
  <2> QED
    BY <2>1 DEF AckSent, Has, Msg
<1>4. ~SyncRouted' /\ ~Running' /\ ~SyncSent'
  <2>1. Only(Tail(to_tb), EndTypes)
    BY <1>1, <1>2, TailHas DEF TypeInv
  <2> QED
    BY <1>1, <1>2, <2>1 DEF SyncRouted, Running, SyncSent, Has, Only, EndTypes
<1>5. ASSUME NEW x \in Txns PROVE MemOf(x)'
  <2>1. MemOf(x)
    BY <1>1 DEF MemInv, TbLive
  <2>2. (InMem(x)' <=> InMem(x)) /\ asked_at'[x] <= syncs_acked'
    BY <1>1, <2>1 DEF InMem, MemOf
  <2> QED
    BY <1>1, <1>2, <1>3, <1>4, <2>1, <2>2 DEF MemOf, G5Gone
<1> QED
  BY <1>1, <1>5 DEF MemInv, Txns

LEMMA MemServe ==
    ASSUME TypeInv, BarrierInv, MemInv, serve \/ HelloAck
    PROVE  MemInv'
<1>1. /\ g_pc \in {"accept", "hello"} /\ UNCHANGED <<scenario, tbVars>>
      /\ to_gem5' = to_gem5 \/ (to_gem5 # << >> /\ to_gem5' = Tail(to_gem5))
  BY DEF serve, HelloAck, envVars
<1>2. CASE Crash \/ ExitWith("exit1", << >>)
  BY <1>1, <1>2, MemGone
<1>3. CASE \/ g_pc' = "hello" /\ Sent(<<Msg("hello")>>)
           \/ g_pc' = "send" /\ UNCHANGED to_tb
  <2>1. UNCHANGED <<tb_pc, sync_seen, done, syncs_acked, work, asked_at>>
    BY <1>1 DEF tbVars, loopVars, dutVars
  <2>2. ~SyncSent /\ ~SyncRouted /\ ~Running /\ ~AckSent
    BY <1>1 DEF BarrierInv, Token, G5Gone
  <2>3. ~SyncRouted' /\ ~Running' /\ (TbLive' <=> TbLive)
    BY <2>1, <2>2 DEF SyncRouted, Running, TbLive
  <2>4. ~AckSent'
    BY <1>1, <2>2, PoppedHas DEF AckSent, Has
  <2>5. ~SyncSent'
    <3>1. <<Msg("hello")>> \in Seq(ToTb) /\ ~Has(<<Msg("hello")>>, "sync")
      <4>1. Msg("hello") \in ToTb /\ Msg("hello").t = "hello"
        BY Messages DEF Msg
      <4> QED
        BY <4>1 DEF Has
    <3>2. CASE Sent(<<Msg("hello")>>)
      BY <2>2, <3>1, <3>2, SentHas DEF SyncSent
    <3>3. CASE UNCHANGED to_tb
      BY <2>2, <3>3 DEF SyncSent, Has
    <3> QED
      BY <1>3, <3>2, <3>3
  <2>6. ASSUME TbLive', NEW x \in Txns PROVE MemOf(x)'
    <3>1. MemOf(x)
      BY <2>3, <2>6 DEF MemInv
    <3>2. ~InMem(x)' /\ asked_at'[x] <= syncs_acked'
      BY <1>1, <2>1, <3>1 DEF InMem, MemOf
    <3> QED
      BY <1>3, <2>3, <2>4, <2>5, <3>2 DEF MemOf
  <2> QED
    BY <1>1, <2>6 DEF MemInv, Txns
<1> QED
  BY <1>2, <1>3 DEF serve, HelloAck

LEMMA MemInit == Init => MemInv
<1> SUFFICES ASSUME Init, NEW x \in Txns PROVE MemOf(x)
  BY DEF MemInv
<1>1. /\ to_tb = << >> /\ to_gem5 = << >> /\ tb_pc = "handshake" /\ g_pc = "accept"
      /\ work = [y \in Txns |-> "none"] /\ asked_at = [y \in Txns |-> 0]
      /\ syncs_acked = 0
  BY DEF Init
<1>2. ~InMem(x) /\ asked_at[x] <= syncs_acked
  BY <1>1 DEF InMem
<1>3. ~SyncSent /\ ~SyncRouted /\ ~Running /\ ~AckSent
  BY <1>1 DEF SyncSent, SyncRouted, Running, AckSent, Has
<1> QED
  BY <1>1, <1>2, <1>3 DEF MemOf

LEMMA MemStep == TypeInv /\ BarrierInv /\ MemInv /\ [Next]_vars => MemInv'
<1> SUFFICES ASSUME TypeInv, BarrierInv, MemInv, [Next]_vars PROVE MemInv'
  OBVIOUS
<1>1. CASE UNCHANGED vars \/ Garble \/ ClockCycle
  <2>1. UNCHANGED <<scenario, to_tb, to_gem5, tb_pc, sync_seen, done, syncs_acked, work,
                    asked_at, g_pc, quantum_msgs>>
    BY <1>1 DEF vars, Garble, ClockCycle, envVars, chanVars, tbVars, loopVars, dutVars,
                g5Vars
  <2>2. readable' => readable
    BY <1>1 DEF vars, Garble, ClockCycle, envVars
  <2> QED
    BY <2>1, <2>2, MemFrame
<1>2. CASE Dispatch
  <2>1. /\ to_tb # << >> /\ route(Head(to_tb)) /\ ~done
        /\ UNCHANGED <<scenario, readable, tb_pc, syncs_acked, g_pc, quantum_msgs>>
    BY <1>2 DEF Dispatch, envVars, g5Vars
  <2>2. Head(to_tb).t # "hello"
    BY <2>1 DEF route
  <2> QED
    BY <2>1, <2>2, MemRoute
<1>3. CASE Handshake
  <2>1. CASE Head(to_tb).t # "hello"
    <3>1. /\ to_tb # << >> /\ route(Head(to_tb)) /\ tb_pc = "handshake"
          /\ UNCHANGED <<scenario, readable, tb_pc, syncs_acked, g_pc, quantum_msgs>>
      BY <1>3, <2>1 DEF Handshake, envVars, g5Vars
    <3> QED
      BY <2>1, <3>1, MemRoute
  <2> QED
    BY <1>3, <2>1, MemHello
<1>4. CASE Unpark
  <2>1. /\ tb_pc = "park" /\ sync_seen' = FALSE
        /\ UNCHANGED <<scenario, readable, to_tb, done, syncs_acked, work, asked_at, g_pc,
                       quantum_msgs>>
        /\ \/ tb_pc' = "closing"
           \/ SyncRouted /\ tb_pc' = "quantum" /\ UNCHANGED to_gem5
    BY <1>4 DEF Unpark, TakeSync, Finish, SyncRouted, envVars, dutVars, g5Vars
  <2>2. CASE tb_pc' = "closing"
    BY <2>2 DEF MemInv, TbLive
  <2>3. CASE SyncRouted /\ tb_pc' = "quantum" /\ UNCHANGED to_gem5
    <3>1. ~SyncRouted' /\ (SyncSent' <=> SyncSent) /\ (AckSent' <=> AckSent)
      BY <2>1, <2>3 DEF SyncRouted, SyncSent, AckSent, Has
    <3>2. ASSUME NEW x \in Txns PROVE MemOf(x)'
      <4>1. MemOf(x)
        BY <2>1 DEF MemInv, TbLive
      <4>2. /\ (InMem(x)' <=> InMem(x)) /\ (Old(x)' <=> Old(x)) /\ asked_at'[x] <= syncs_acked'
            /\ (Answered(x, to_tb)' <=> Answered(x, to_tb)) /\ (Asked(x)' <=> Asked(x))
            /\ Answered(x, quantum_msgs)' <=> Answered(x, quantum_msgs)
        BY <2>1, <2>3, <4>1 DEF InMem, Old, Answered, Asked, In, MemOf
      <4> QED
        BY <2>1, <2>3, <3>1, <4>1, <4>2 DEF MemOf
    <3> QED
      BY <2>1, <3>2 DEF MemInv, Txns
  <2> QED
    BY <2>1, <2>2, <2>3
<1>5. CASE Shutdown \/ HelloTimeout \/ ParkTimeout
  BY <1>5 DEF Shutdown, HelloTimeout, ParkTimeout, Raise, MemInv, TbLive
<1>6. ASSUME NEW x \in Txns, DutStep(x) PROVE MemInv'
  BY <1>6, MemDut
<1>7. CASE RecvClosed
  <2>1. TbGone /\ tb_pc' = tb_pc
    BY <1>7 DEF RecvClosed, tbVars, loopVars
  <2> QED
    BY <2>1 DEF MemInv, TbLive, TbGone
<1>8. CASE G5Timeout \/ Vanish
  <2>1. UNCHANGED <<scenario, to_gem5, tbVars>>
    BY <1>8 DEF G5Timeout, Vanish, envVars
  <2>2. \/ \E pc \in {"exit0", "exit1", "vanished"} : ExitWith(pc, << >>)
        \/ FailContract(<< >>)
    BY <1>8 DEF G5Timeout, Vanish
  <2> QED
    BY <2>1, <2>2, MemGone
<1> QED
  BY <1>1, <1>2, <1>3, <1>4, <1>5, <1>6, <1>7, <1>8, MemAck, MemServe, MemSend, MemHandle,
     MemReply DEF Next

(***************************************************************************)
(* A memory access sent before the last ack has been answered when the     *)
(* clock runs again.                                                       *)
(***************************************************************************)
THEOREM MemAnswered == Spec => []MemAnsweredAtBarrier
<1>1. MemInv => MemAnsweredAtBarrier
  BY DEF MemInv, MemOf, TbLive, Running, Old, InMem, MemAnsweredAtBarrier
<1> QED
  BY <1>1, TypeInit, TypeStep, BarrierInit, BarrierStep, MemInit, MemStep, PTL DEF Spec

-------------------------------------------------------------------------------
(***************************************************************************)
(* The verdict.  The first message that ends the run is still first when   *)
(* messages are appended, and when one before it is taken.                 *)
(***************************************************************************)
LEMMA FirstEndTail ==
    ASSUME NEW M, NEW s \in Seq(M), s # << >>, NEW m, FirstEnd(s, m)
    PROVE  /\ Head(s).t \in EndTypes => Head(s) = m
           /\ Head(s).t \notin EndTypes => FirstEnd(Tail(s), m)
<1>1. /\ Len(s) \in Nat /\ Len(s) > 0 /\ DOMAIN s = 1 .. Len(s)
      /\ DOMAIN Tail(s) = 1 .. Len(s) - 1 /\ Head(s) = s[1]
      /\ \A i \in 1 .. Len(s) - 1 : Tail(s)[i] = s[i + 1]
  BY TailElements
<1>2. Head(s).t \in EndTypes => Head(s) = m
  <2>1. 1 \in DOMAIN s /\ \A j \in DOMAIN s : ~(j < 1)
    BY <1>1
  <2> QED
    BY <1>1, <2>1 DEF FirstEnd
<1>3. ASSUME Head(s).t \notin EndTypes, NEW i \in DOMAIN Tail(s),
             Tail(s)[i].t \in EndTypes,
             \A j \in DOMAIN Tail(s) : j < i => Tail(s)[j].t \notin EndTypes
      PROVE  Tail(s)[i] = m
  <2>1. i + 1 \in DOMAIN s /\ s[i + 1] = Tail(s)[i]
    BY <1>1
  <2>2. ASSUME NEW j \in DOMAIN s, j < i + 1 PROVE s[j].t \notin EndTypes
    <3>1. CASE j = 1
      BY <1>1, <1>3, <3>1
    <3>2. CASE j # 1
      <4>1. j - 1 \in DOMAIN Tail(s) /\ j - 1 < i /\ (j - 1) + 1 = j
        BY <1>1, <2>2, <3>2
      <4>2. s[j] = Tail(s)[j - 1]
        BY <1>1, <4>1
      <4> QED
        BY <1>3, <4>1, <4>2
    <3> QED
      BY <3>1, <3>2
  <2> QED
    BY <1>3, <2>1, <2>2 DEF FirstEnd
<1> QED
  BY <1>2, <1>3 DEF FirstEnd

LEMMA FirstEndConcat ==
    ASSUME NEW M, NEW s \in Seq(M), NEW u \in Seq(M), NEW m, FirstEnd(u, m),
           \A i \in DOMAIN s : s[i].t \notin EndTypes
    PROVE  FirstEnd(s \o u, m)
<1> DEFINE w == s \o u
<1>1. /\ Len(s) \in Nat /\ Len(u) \in Nat
      /\ DOMAIN s = 1 .. Len(s) /\ DOMAIN u = 1 .. Len(u)
      /\ DOMAIN w = 1 .. Len(s) + Len(u)
      /\ \A i \in 1 .. Len(s) + Len(u) :
           w[i] = IF i <= Len(s) THEN s[i] ELSE u[i - Len(s)]
  BY ConcatProperties, LenProperties
<1> HIDE DEF w
<1>2. ASSUME NEW i \in DOMAIN w, w[i].t \in EndTypes,
             \A j \in DOMAIN w : j < i => w[j].t \notin EndTypes
      PROVE  w[i] = m
  <2>1. ~(i <= Len(s))
    BY <1>1, <1>2
  <2>2. i - Len(s) \in DOMAIN u /\ w[i] = u[i - Len(s)]
    BY <1>1, <2>1
  <2>3. ASSUME NEW j \in DOMAIN u, j < i - Len(s) PROVE u[j].t \notin EndTypes
    <3>1. j + Len(s) \in DOMAIN w /\ j + Len(s) < i /\ w[j + Len(s)] = u[j]
      BY <1>1, <2>3
    <3> QED
      BY <1>2, <3>1
  <2> QED
    BY <1>2, <2>2, <2>3 DEF FirstEnd
<1>3. FirstEnd(w, m)
  BY <1>2 DEF FirstEnd
<1> QED
  BY <1>3 DEF w

\* Nothing ends the run before gem5 says so.
LEMMA ContractFails ==
    ASSUME TypeInv, BarrierInv, ~G5Gone, NEW msgs \in Seq(ToTb),
           Only(msgs, {"mem_data"}), FailContract(msgs)
    PROVE  FirstEnd(to_tb, Bye("contract"))'
<1> DEFINE u == <<Bye("contract"), Msg("peer_closed")>>
<1>1. u \in Seq(ToTb) /\ FirstEnd(u, Bye("contract"))
  <2>1. u \in Seq(ToTb)
    BY FarewellsEnd DEF Farewells
  <2>2. DOMAIN u = {1, 2} /\ u[1] = Bye("contract") /\ u[1].t = "bye"
    BY DEF Bye
  <2> HIDE DEF u
  <2>3. FirstEnd(u, Bye("contract"))
    BY <2>2 DEF FirstEnd, EndTypes
  <2> QED
    BY <2>1, <2>3
<1>2. Sent(msgs \o u)
  BY FarewellsSent
<1> HIDE DEF u
<1>3. \A i \in DOMAIN msgs : msgs[i].t \notin EndTypes
  BY DEF Only, EndTypes
<1>4. FirstEnd(msgs \o u, Bye("contract")) /\ msgs \o u \in Seq(ToTb)
  BY <1>1, <1>3, FirstEndConcat, ConcatProperties
<1>5. to_tb \in Seq(ToTb) /\ \A i \in DOMAIN to_tb : to_tb[i].t \notin EndTypes
  BY DEF TypeInv, BarrierInv, Streams, Has, EndTypes
<1>6. FirstEnd(to_tb \o (msgs \o u), Bye("contract"))
  BY <1>4, <1>5, FirstEndConcat
<1>7. FirstEnd(to_tb, Bye("contract"))
  BY <1>5 DEF FirstEnd
<1>8. Bye("contract")' = Bye("contract")
  BY DEF Bye
<1>9. CASE to_tb' = to_tb
  BY <1>7, <1>9 DEF FirstEnd, Bye
<1>10. CASE to_tb' = to_tb \o (msgs \o u)
  <2> DEFINE w == to_tb \o (msgs \o u)
  <2>1. to_tb' = w /\ FirstEnd(w, Bye("contract"))
    BY <1>6, <1>10
  <2> HIDE DEF w
  <2> QED
    BY <2>1 DEF FirstEnd, Bye
<1> QED
  BY <1>2, <1>9, <1>10 DEF Sent

LEMMA ContractInit == Init => ContractInv
BY DEF Init, ContractInv

\* gem5's steps: only they report a violation.
LEMMA ContractGem5 ==
    ASSUME TypeInv, BarrierInv, ContractInv, ~G5Gone, UNCHANGED tbVars,
           \/ failed' = failed
           \/ /\ g_pc \in {"send", "wait_ack", "reply"}
              /\ \E msgs \in Seq(ToTb) : Only(msgs, {"mem_data"}) /\ FailContract(msgs)
    PROVE  ContractInv'
<1>1. UNCHANGED <<tb_pc, done, exit_reason>> /\ ~done /\ ~failed
  BY DEF tbVars, loopVars, ContractInv
<1>2. CASE failed' = failed
  BY <1>1, <1>2 DEF ContractInv
<1>3. CASE failed' # failed
  <2>1. FirstEnd(to_tb, Bye("contract"))'
    BY <1>3, ContractFails
  <2>2. G5Gone' /\ tb_pc # "handshake"
    BY <1>3 DEF FailContract, ExitWith, G5Gone, BarrierInv, Start
  <2> QED
    BY <1>1, <2>1, <2>2 DEF ContractInv
<1> QED
  BY <1>2, <1>3

\* The testbench takes the first message that ends the run for its verdict.
LEMMA ContractRoute ==
    ASSUME TypeInv, BarrierInv, ContractInv, to_tb # << >>, route(Head(to_tb)),
           tb_pc = "handshake" \/ ~done, UNCHANGED <<tb_pc, g_pc, failed>>
    PROVE  ContractInv'
<1> DEFINE m == Head(to_tb)
<1>1. /\ to_tb \in Seq(ToTb) /\ to_tb' = Tail(to_tb) /\ m = to_tb[1] /\ 1 \in DOMAIN to_tb
  BY TailElements DEF TypeInv, route
<1>2. G5Gone' <=> G5Gone
  BY DEF G5Gone
<1>3. failed => ~done /\ tb_pc # "handshake" /\ FirstEnd(to_tb, Bye("contract"))
  BY DEF ContractInv
<1>4. failed => (m.t \in EndTypes => m = Bye("contract"))
                /\ (m.t \notin EndTypes => FirstEnd(Tail(to_tb), Bye("contract")))
  BY <1>1, <1>3, FirstEndTail
<1>5. CASE m.t \in EndTypes
  <2>1. done' = TRUE /\ exit_reason' = reason(m)
    BY <1>5 DEF route, EndTypes
  <2>2. G5Gone
    <3>1. Has(to_tb, "bye") \/ Has(to_tb, "peer_closed")
      BY <1>1, <1>5 DEF Has, EndTypes
    <3> QED
      BY <3>1 DEF BarrierInv, Streams
  <2>3. failed => reason(m) = "contract"
    BY <1>4, <1>5 DEF reason, Bye
  <2> QED
    BY <1>2, <1>3, <2>1, <2>2, <2>3 DEF ContractInv
<1>6. CASE m.t \notin EndTypes
  <2>1. done' = done /\ exit_reason' = exit_reason
    BY <1>6 DEF route, EndTypes
  <2>2. failed => FirstEnd(to_tb, Bye("contract"))'
    <3>1. failed => FirstEnd(Tail(to_tb), Bye("contract"))
      BY <1>4, <1>6
    <3> QED
      BY <1>1, <3>1 DEF FirstEnd, Bye
  <2> QED
    BY <1>2, <1>3, <2>1, <2>2 DEF ContractInv
<1> QED
  BY <1>5, <1>6

LEMMA ContractStep ==
    ASSUME MaxSyncs = 0, TypeInv, BarrierInv, ContractInv, [Next]_vars
    PROVE  ContractInv'
<1>0. << >> \in Seq(ToTb) /\ Only(<< >>, {"mem_data"})
  BY DEF Only
<1>1. CASE \/ UNCHANGED vars \/ Garble \/ ClockCycle \/ Unpark \/ SendAck
           \/ Shutdown \/ HelloTimeout \/ ParkTimeout \/ \E x \in Txns : DutStep(x)
  <2>1. UNCHANGED <<to_tb, done, exit_reason, g_pc, failed>>
    BY <1>1 DEF vars, Garble, ClockCycle, Unpark, SendAck, Shutdown, HelloTimeout,
                ParkTimeout, Raise, DutStep, chanVars, tbVars, loopVars, g5Vars
  <2>2. tb_pc' = "handshake" => tb_pc = "handshake"
    BY <1>1 DEF vars, Garble, ClockCycle, Unpark, Finish, SendAck, Shutdown, HelloTimeout,
                ParkTimeout, Raise, DutStep, tbVars, loopVars
  <2> QED
    BY <2>1, <2>2 DEF ContractInv, G5Gone, FirstEnd, Bye
<1>2. CASE Dispatch
  <2>1. /\ to_tb # << >> /\ route(Head(to_tb)) /\ ~done
        /\ UNCHANGED <<tb_pc, g_pc, failed>>
    BY <1>2 DEF Dispatch, g5Vars
  <2> QED
    BY <2>1, ContractRoute
<1>3. CASE Handshake
  <2>1. /\ to_tb # << >> /\ tb_pc = "handshake" /\ UNCHANGED <<g_pc, failed>> /\ ~failed
    BY <1>3 DEF Handshake, g5Vars, ContractInv
  <2>2. CASE Head(to_tb).t # "hello"
    BY <1>3, <2>1, <2>2, ContractRoute DEF Handshake
  <2>3. CASE done' = done
    BY <2>1, <2>3 DEF ContractInv, G5Gone
  <2> QED
    BY <1>3, <2>2, <2>3 DEF Handshake
<1>4. CASE serve \/ HelloAck \/ SendQuantum \/ RecvClosed \/ Vanish
  <2>1. ~G5Gone /\ UNCHANGED <<tbVars, failed>>
    BY <1>4 DEF serve, HelloAck, SendQuantum, RecvClosed, Vanish, G5Gone
  <2> QED
    BY <2>1, ContractGem5
<1>5. CASE handle \/ G5Timeout
  <2>1. ~G5Gone /\ UNCHANGED tbVars
    BY <1>5 DEF handle, G5Timeout, G5Gone
  <2>2. \/ failed' = failed
        \/ g_pc \in {"send", "wait_ack", "reply"} /\ FailContract(<< >>)
    BY <1>5 DEF handle, G5Timeout
  <2> QED
    BY <1>0, <2>1, <2>2, ContractGem5
<1>6. CASE Reply
  <2>1. ~G5Gone /\ UNCHANGED tbVars /\ g_pc = "reply"
    BY <1>6 DEF Reply, G5Gone
  <2>2. quantum_msgs \in Seq(ToTb) /\ Only(quantum_msgs, {"mem_data"})
    BY QuantumTypes
  <2>3. failed' = failed \/ FailContract(quantum_msgs)
    BY <1>6 DEF Reply
  <2> QED
    BY <2>1, <2>2, <2>3, ContractGem5
<1> QED
  BY <1>1, <1>2, <1>3, <1>4, <1>5, <1>6 DEF Next

(***************************************************************************)
(* Without a barrier budget, a test whose peer reported a contract         *)
(* violation does not pass: the violation is the exit reason, or its bye   *)
(* is still to be read.  (With one, SendAck overwrites the verdict: that   *)
(* is the violation the run barrier_masked finds.)                         *)
(***************************************************************************)
THEOREM ViolationReported == MaxSyncs = 0 => (Spec => []ContractReported)
<1> SUFFICES ASSUME MaxSyncs = 0 PROVE Spec => []ContractReported
  OBVIOUS
<1>1. TypeInv /\ BarrierInv /\ ContractInv /\ [Next]_vars => ContractInv'
  BY ContractStep
<1>2. BarrierInv /\ ContractInv => ContractReported
  BY DEF BarrierInv, Streams, ContractInv, ContractReported, TestPasses
<1> QED
  BY <1>1, <1>2, TypeInit, TypeStep, BarrierInit, BarrierStep, ContractInit, PTL DEF Spec
===============================================================================
