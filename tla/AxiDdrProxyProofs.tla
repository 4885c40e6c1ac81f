--------------------------- MODULE AxiDdrProxyProofs --------------------------
(***************************************************************************)
(* What is proved about AxiDdrProxy for every script of bursts: its types, *)
(* and that AxiMonitor numbers every beat rightly however ready moves; and *)
(* with a DUT whose bready and rready stay high, that responses come once  *)
(* and in order, and that the DUT sees one memory: every step is a step of *)
(* AxiMemory or a stutter.                                                 *)
(***************************************************************************)
EXTENDS AxiDdrProxy, SequenceTheorems, FiniteSetTheorems, NaturalsInduction,
        WellFoundedInduction, TLAPS

-------------------------------------------------------------------------------
(***************************************************************************)
(* The inductive invariant.  First what the types rest on: a completion    *)
(* has the length of its burst, and a coroutine that waits or drives knows *)
(* for which burst.                                                        *)
(***************************************************************************)
RepliesFit ==
    /\ \A n \in Of("read") : pending[n] # None => Len(pending[n]) = NBeats(n)
    /\ \A i \in DOMAIN from_gem5 :
          from_gem5[i].n \in Of("read") => Len(from_gem5[i].data) = NBeats(from_gem5[i].n)

AtWork ==
    /\ b = "wait" <=> b_cur # None
    /\ r \in {"wait", "hold"} => r_cur # None
    /\ bd = "hold" <=> bvalid # None
    /\ r # "hold" => rvalid = None
    /\ r = "hold" => /\ Len(r_data) = NBeats(r_cur) /\ r_beat \in 1 .. NBeats(r_cur)
                     /\ rvalid = RBeat(r_cur, r_data, r_beat)

BeatsFit ==
    /\ w # None => w.i \in 1 .. NBeats(w.n)
    /\ next_w # None => next_w.i \in 1 .. NBeats(next_w.n)

TypeInv == TypeOK /\ RepliesFit /\ AtWork /\ BeatsFit

\* Between two edges the monitor runs first, and a coroutine that looks into
\* its queue has had its edge.
Scheduled ==
    /\ "mon" \in todo => todo = Tasks
    /\ b = "look" => "b" \notin todo
    /\ bd = "look" => "bd" \notin todo
    /\ r = "look" => "r" \notin todo

(***************************************************************************)
(* Bursts pass through the stages of a channel in order: those of a stage  *)
(* are before those of every later one.  Stage 1 has been answered; the    *)
(* last has not been shown.                                                *)
(***************************************************************************)
Ordered(st) ==
    \A k, l \in DOMAIN st : k < l => \A x \in st[k], y \in st[l] : x < y

Increasing(q) == \A i, j \in DOMAIN q : i < j => q[i] < q[j]

Members(q) == {q[i] : i \in DOMAIN q}
Only(x) == IF x = None THEN {} ELSE {x}
From(kind, x) == IF x = None THEN {} ELSE {n \in Of(kind) : n >= x}

\* The addresses of a queue of bursts.
Addresses(q) == [i \in DOMAIN q |-> q[i].aw]
Requested == Addresses(pending_b)

\* A response on its pins has been taken when its coroutine has an edge to see.
WriteStages ==
    << Members(bgot), IF "bd" \in todo THEN {} ELSE Only(bvalid), Members(b_ready),
       Only(b_cur), Members(Requested), Members(aw_queue),
       IF "aw" \in todo THEN Only(aw) ELSE {}, From("write", next_aw) >>

Finished == {rgot[i].n : i \in {j \in DOMAIN rgot : ~(r = "hold" /\ rgot[j].n = r_cur)}}

ReadStages ==
    << Finished, IF r \in {"wait", "hold"} THEN {r_cur} ELSE {}, Members(ar_queue),
       IF "ar" \in todo THEN Only(ar) ELSE {}, From("read", next_ar) >>

WriteFlow ==
    /\ Ordered(WriteStages)
    /\ Increasing(bgot) /\ Increasing(b_ready) /\ Increasing(Requested)
    /\ Increasing(aw_queue)
    /\ "bd" \in todo /\ bvalid # None => \E i \in DOMAIN bgot : bgot[i] = bvalid

ReadFlow ==
    /\ Ordered(ReadStages) /\ Increasing(ar_queue)
    /\ \A i, j \in DOMAIN rgot :
          i < j => \/ rgot[i].n < rgot[j].n
                   \/ rgot[i].n = rgot[j].n /\ ~rgot[i].last
    /\ r = "hold" =>
          /\ Taken(r_cur) = IF "r" \in todo THEN r_beat ELSE r_beat - 1
          /\ \A i \in DOMAIN rgot :
                rgot[i].n = r_cur /\ rgot[i].last => "r" \in todo /\ r_beat = NBeats(r_cur)

\* bready and rready stay high.
Steady == bready = TRUE /\ rready = TRUE

(***************************************************************************)
(* The monitor has a pin to look at until it has had its edge.             *)
(***************************************************************************)
Pins(pin) == IF "mon" \in todo THEN pin ELSE None

\* The beats of the burst on R that the monitor has counted.
Counted ==
    IF r # "hold" THEN 0
    ELSE IF "mon" \in todo \/ "r" \notin todo \/ ~rready THEN r_beat - 1
    ELSE IF r_beat = NBeats(r_cur) THEN 0 ELSE r_beat

MonitorR ==
    /\ \A k \in DOMAIN axi_mon.r : ReadNumbered(k)
    /\ axi_mon.r_beat = Counted
    /\ LET last == axi_mon.r[Len(axi_mon.r)]
       IN  IF axi_mon.r_beat = 0
             THEN axi_mon.r = << >> \/ last.val.last
             ELSE /\ axi_mon.r # << >> /\ last.val.n = r_cur
                  /\ last.beat = axi_mon.r_beat - 1

MonitorW ==
    /\ \A k \in DOMAIN axi_mon.w : axi_mon.w[k].beat = axi_mon.w[k].val.i - 1
    /\ Pins(w) # None => axi_mon.w_beat = w.i - 1 /\ next_w = NextBeat(w)
    /\ Pins(w) = None /\ next_w # None => axi_mon.w_beat = next_w.i - 1

Past(x, n) == x = None \/ n < x

MonitorA ==
    /\ \A n \in Of("write") : Past(next_aw, n) => Shows(axi_mon.aw, n) \/ Pins(aw) = n
    /\ \A n \in Of("read") : Past(next_ar, n) => Shows(axi_mon.ar, n) \/ Pins(ar) = n
    /\ \A n \in Of("write") : next_w = None \/ n < next_w.n => Past(next_aw, n)

PortInv == Steady /\ Scheduled /\ WriteFlow /\ ReadFlow

MonitorInv == MonitorR /\ MonitorW /\ MonitorA

-------------------------------------------------------------------------------
(***************************************************************************)
(* The script and its numbers.                                             *)
(***************************************************************************)
LEMMA ScriptFacts ==
    ASSUME script \in Scripts
    PROVE  /\ Bursts \subseteq Nat \ {0}
           /\ \A kind : Of(kind) \subseteq Bursts
           /\ \A n \in Bursts : /\ NBeats(n) \in Nat \ {0}
                                /\ DOMAIN script[n].strb = 1 .. NBeats(n)
                                /\ script[n].block \in Nat
                                /\ \A i \in 1 .. NBeats(n) : script[n].block + i - 1 \in Blocks
<1>1. script \in Seq([kind : {"read", "write"}, block : Blocks, strb : Seq(BOOLEAN)])
  BY ProxyAssumption
<1>2. Bursts = 1 .. Len(script) /\ Len(script) \in Nat
  BY <1>1, LenProperties DEF Bursts
<1>3. \A n \in Bursts : /\ script[n].block \in Blocks /\ script[n].strb \in Seq(BOOLEAN)
                        /\ script[n].strb # << >>
                        /\ \A i \in DOMAIN script[n].strb : script[n].block + i - 1 \in Blocks
  <2> SUFFICES ASSUME NEW n \in Bursts
               PROVE  /\ script[n].block \in Blocks /\ script[n].strb \in Seq(BOOLEAN)
                      /\ script[n].strb # << >>
                      /\ \A i \in DOMAIN script[n].strb : script[n].block + i - 1 \in Blocks
    OBVIOUS
  <2> DEFINE Flags == Seq(BOOLEAN)
             Records == [kind : {"read", "write"}, block : Blocks, strb : Flags]
  <2>a. script \in Seq(Records)
    BY <1>1
  <2>b. script[n] \in Records
    <3> HIDE DEF Records
    <3> QED
      BY <1>2, <2>a, ElementOfSeq
  <2>1. script[n].block \in Blocks /\ script[n].strb \in Seq(BOOLEAN)
    <3> HIDE DEF Flags
    <3>1. script[n].block \in Blocks /\ script[n].strb \in Flags
      BY <2>b
    <3> QED
      BY <3>1 DEF Flags
  <2>2. /\ script[n].strb # << >>
        /\ \A i \in DOMAIN script[n].strb : script[n].block + i - 1 \in Blocks
    BY BurstAssumption, Zenon DEF Bursts
  <2> QED
    BY <2>1, <2>2
<1>4. \A n \in Bursts : /\ NBeats(n) \in Nat \ {0}
                        /\ DOMAIN script[n].strb = 1 .. NBeats(n)
  BY <1>3, LenProperties, EmptySeq DEF NBeats
<1> QED
  <2>1. \A kind : Of(kind) \subseteq Bursts
    BY DEF Of
  <2>2. Blocks \subseteq Nat
    BY ProxyAssumption
  <2>3. \A n \in Bursts : script[n].block \in Nat
    BY <1>3, <2>2
  <2>4. Bursts \subseteq Nat \ {0}
    BY <1>2
  <2>5. \A n \in Bursts : \A i \in 1 .. NBeats(n) : script[n].block + i - 1 \in Blocks
    BY <1>3, <1>4, Zenon
  <2> QED
    BY <1>4, <2>1, <2>3, <2>4, <2>5, Zenon

LEMMA ScriptFixed ==
    ASSUME script' = script
    PROVE  /\ Bursts' = Bursts /\ Beats' = Beats /\ Responses' = Responses
           /\ Of("read")' = Of("read") /\ Of("write")' = Of("write")
           /\ \A n : NBeats(n)' = NBeats(n)
<1>1. Bursts' = Bursts
  BY DEF Bursts
<1>2. Of("read")' = Of("read") /\ Of("write")' = Of("write")
  BY <1>1 DEF Of
<1> QED
  BY <1>1, <1>2 DEF Beats, Responses, NBeats

\* A non-empty set of numbers has a least one.
LEMMA LeastExists ==
    ASSUME NEW S, S \subseteq Nat, S # {}
    PROVE  \E m \in S : \A x \in S : m <= x
<1> DEFINE R == {ss \in Nat \X Nat : ss[1] < ss[2]}
<1>1. IsWellFoundedOn(R, Nat)
  BY NatLessThanWellFounded, Zenon DEF OpToRel
<1>2. \E m \in S : \A x \in S : ~(<<x, m>> \in R)
  <2> HIDE DEF R
  <2> QED
    BY <1>1, WFMin
<1>3. \A x, m \in S : ~(<<x, m>> \in R) => m <= x
  OBVIOUS
<1> QED
  BY <1>2, <1>3

LEMMA AfterFacts ==
    ASSUME script \in Scripts, NEW kind, NEW n \in Nat
    PROVE  LET a == After(kind, n)
           IN  \/ a = None /\ \A j \in Of(kind) : j <= n
               \/ a \in Of(kind) /\ a > n /\ \A j \in Of(kind) : j > n => a <= j
<1> DEFINE later == {j \in Of(kind) : j > n}
<1>1. Of(kind) \subseteq Nat
  BY ScriptFacts
<1>2. CASE later = {}
  BY <1>1, <1>2 DEF After
<1>3. CASE later # {}
  <2>1. \E j \in later : \A k \in later : j <= k
    BY <1>1, <1>3, LeastExists
  <2>2. After(kind, n) = CHOOSE j \in later : \A k \in later : j <= k
    BY <1>3 DEF After, Least
  <2>3. After(kind, n) \in later /\ \A k \in later : After(kind, n) <= k
    BY <2>1, <2>2
  <2> QED
    BY <2>3
<1> QED
  BY <1>2, <1>3

LEMMA AfterType ==
    ASSUME script \in Scripts, NEW n \in Nat
    PROVE  /\ After("write", n) \in Of("write") \cup {None}
           /\ After("read", n) \in Of("read") \cup {None}
  BY AfterFacts

\* The beats of the writes, in the DUT's order.
LEMMA NextBeatFacts ==
    ASSUME script \in Scripts, NEW x \in Beats, x.i \in 1 .. NBeats(x.n)
    PROVE  /\ NextBeat(x) \in Beats \cup {None}
           /\ NextBeat(x) # None => NextBeat(x).i \in 1 .. NBeats(NextBeat(x).n)
<1>1. x.n \in Of("write") /\ x.i \in Nat /\ x.n \in Nat /\ NBeats(x.n) \in Nat
  BY ScriptFacts DEF Beats
<1>2. CASE x.i < NBeats(x.n)
  BY <1>1, <1>2 DEF NextBeat, Beat, Beats
<1>3. CASE ~(x.i < NBeats(x.n))
  <2>1. NextBeat(x) = FirstBeat(After("write", x.n))
    BY <1>3 DEF NextBeat
  <2>2. After("write", x.n) \in Of("write") \cup {None}
    BY <1>1, AfterType
  <2>3. \A n \in Of("write") : NBeats(n) \in Nat \ {0}
    BY ScriptFacts
  <2> QED
    BY <2>1, <2>2, <2>3 DEF FirstBeat, Beat, Beats
<1> QED
  BY <1>2, <1>3

LEMMA SampledType ==
    ASSUME NEW S, NEW q \in Seq(S), NEW pin \in S \cup {None}
    PROVE  sampled(q, pin) \in Seq(S)
  BY AppendProperties DEF sampled

-------------------------------------------------------------------------------
(***************************************************************************)
(* Types.  What an action leaves alone keeps its type.                     *)
(***************************************************************************)
LEMMA TypeFrame ==
    ASSUME TypeInv, script' = script
    PROVE  /\ script' \in Scripts
           /\ UNCHANGED proxyVars => ProxyTypeOK'
           /\ UNCHANGED <<b, b_cur, bd, bvalid, r, r_cur, r_data, r_beat, rvalid>> => AtWork'
           /\ UNCHANGED memVars => MemTypeOK' /\ RepliesFit'
           /\ UNCHANGED dutVars => DutTypeOK' /\ BeatsFit'
           /\ UNCHANGED axi_mon => MonitorTypeOK'
<1> USE ScriptFixed
<1>1. script' \in Scripts
  BY DEF TypeInv, TypeOK
<1>2. UNCHANGED proxyVars => ProxyTypeOK'
  BY DEF TypeInv, TypeOK, ProxyTypeOK, proxyVars
<1>3. UNCHANGED <<b, b_cur, bd, bvalid, r, r_cur, r_data, r_beat, rvalid>> => AtWork'
  BY DEF TypeInv, AtWork, RBeat
<1>4. UNCHANGED memVars => MemTypeOK'
  BY DEF TypeInv, TypeOK, MemTypeOK, memVars
<1>5. UNCHANGED memVars => RepliesFit'
  BY DEF TypeInv, RepliesFit, memVars
<1>6. UNCHANGED dutVars => DutTypeOK'
  BY DEF TypeInv, TypeOK, DutTypeOK, dutVars
<1>7. UNCHANGED dutVars => BeatsFit'
  BY DEF TypeInv, BeatsFit, dutVars
<1>8. UNCHANGED axi_mon => MonitorTypeOK'
  BY DEF TypeInv, TypeOK, MonitorTypeOK
<1> QED
  BY <1>1, <1>2, <1>3, <1>4, <1>5, <1>6, <1>7, <1>8

LEMMA TypeWritePath ==
    ASSUME TypeInv, aw_task \/ w_task
    PROVE  TypeInv'
<1>1. /\ UNCHANGED <<script, memVars, dutVars, axi_mon>>
      /\ UNCHANGED <<b_ready, ar_queue, b, bd, r, b_cur, r_cur, r_beat, r_data, bvalid, rvalid>>
      /\ todo' \subseteq Tasks
  BY DEF aw_task, w_task, Resumes, TypeInv, TypeOK
<1>2. /\ aw_queue \in Seq(Of("write")) /\ aw \in Of("write") \cup {None}
      /\ beats \in Seq(Beats) /\ w \in Beats \cup {None}
      /\ pending_b \in Seq([aw : Of("write"), beats : Seq(Beats)])
  BY DEF TypeInv, TypeOK, ProxyTypeOK, DutTypeOK
<1>3. /\ aw_queue' \in Seq(Of("write")) /\ beats' \in Seq(Beats)
      /\ pending_b' \in Seq([aw : Of("write"), beats : Seq(Beats)])
  <2>1. CASE aw_task
    BY <1>2, <2>1, SampledType DEF aw_task
  <2>2. CASE w_task
    <3>1. << >> \in Seq(Beats) /\ (w # None => Append(beats, w) \in Seq(Beats))
      BY <1>2, AppendProperties
    <3>2. ASSUME aw_queue # << >>, w # None,
                 pending_b' = Append(pending_b, [aw |-> Head(aw_queue),
                                                 beats |-> Append(beats, w)]),
                 aw_queue' = Tail(aw_queue)
          PROVE  /\ aw_queue' \in Seq(Of("write"))
                 /\ pending_b' \in Seq([aw : Of("write"), beats : Seq(Beats)])
      <4>1. Head(aw_queue) \in Of("write") /\ Tail(aw_queue) \in Seq(Of("write"))
        BY <1>2, <3>2, HeadTailProperties
      <4>2. [aw |-> Head(aw_queue), beats |-> Append(beats, w)]
               \in [aw : Of("write"), beats : Seq(Beats)]
        BY <3>1, <3>2, <4>1
      <4> QED
        BY <1>2, <3>2, <4>1, <4>2, AppendProperties
    <3> QED
      BY <1>2, <2>2, <3>1, <3>2 DEF w_task, LastBeat
  <2> QED
    BY <2>1, <2>2
<1>4. ProxyTypeOK'
  BY <1>1, <1>3, ScriptFixed DEF TypeInv, TypeOK, ProxyTypeOK
<1> QED
  BY <1>1, <1>4, TypeFrame DEF TypeInv, TypeOK

LEMMA TypeAr ==
    ASSUME TypeInv, ar_task
    PROVE  TypeInv'
<1>1. /\ UNCHANGED <<script, memVars, dutVars, axi_mon>>
      /\ UNCHANGED <<aw_queue, beats, pending_b, b_ready, b, bd, r, b_cur, r_cur, r_beat,
                     r_data, bvalid, rvalid>>
      /\ todo' \subseteq Tasks /\ ar_queue' = sampled(ar_queue, ar)
  BY DEF ar_task, Resumes, TypeInv, TypeOK
<1>2. ar_queue' \in Seq(Of("read"))
  BY <1>1, SampledType DEF TypeInv, TypeOK, ProxyTypeOK, DutTypeOK
<1>3. ProxyTypeOK'
  BY <1>1, <1>2, ScriptFixed DEF TypeInv, TypeOK, ProxyTypeOK
<1> QED
  BY <1>1, <1>3, TypeFrame DEF TypeInv, TypeOK

LEMMA TypeB ==
    ASSUME TypeInv, b_task
    PROVE  TypeInv'
<1>1. /\ UNCHANGED <<script, from_gem5, ddr, dutVars, axi_mon>>
      /\ UNCHANGED <<aw_queue, beats, ar_queue, bd, r, r_cur, r_beat, r_data, bvalid, rvalid>>
      /\ todo' \subseteq Tasks
  BY DEF b_task, Resumes, TypeInv, TypeOK
<1>2. /\ pending_b \in Seq([aw : Of("write"), beats : Seq(Beats)])
      /\ b_ready \in Seq(Of("write")) /\ b_cur \in Of("write") \cup {None}
      /\ b \in {"look", "poll", "wait"} /\ (b = "wait" <=> b_cur # None)
      /\ pending \in [Bursts -> Seq(Blank) \cup {None}]
      /\ to_gem5 \in Seq([aw : Of("write"), beats : Seq(Beats)] \cup [ar : Of("read")])
      /\ None \notin Of("write") /\ Of("write") \subseteq Bursts
  BY ScriptFacts, NoneIsNoValue DEF TypeInv, TypeOK, ProxyTypeOK, MemTypeOK, AtWork
<1>3. /\ pending_b' \in Seq([aw : Of("write"), beats : Seq(Beats)])
      /\ b_ready' \in Seq(Of("write")) /\ b_cur' \in Of("write") \cup {None}
      /\ b' \in {"look", "poll", "wait"} /\ (b' = "wait" <=> b_cur' # None)
      /\ pending' \in [Bursts -> Seq(Blank) \cup {None}]
      /\ \A n \in Bursts : pending'[n] \in {pending[n], None}
      /\ to_gem5' \in Seq([aw : Of("write"), beats : Seq(Beats)] \cup [ar : Of("read")])
  <2>1. CASE b = "look" /\ pending_b # << >>
    <3> DEFINE h == Head(pending_b)
    <3>1. h \in [aw : Of("write"), beats : Seq(Beats)]
          /\ Tail(pending_b) \in Seq([aw : Of("write"), beats : Seq(Beats)])
      BY <1>2, <2>1, HeadTailProperties
    <3>2. h.aw \in Of("write")
      BY <3>1
    <3>3. pending_b' = Tail(pending_b) /\ b_cur' = h.aw /\ to_gem5' = Append(to_gem5, h)
          /\ b' = "wait" /\ UNCHANGED <<b_ready, pending>>
      BY <2>1 DEF b_task, b_sent
    <3>4. to_gem5' \in Seq([aw : Of("write"), beats : Seq(Beats)] \cup [ar : Of("read")])
      BY <1>2, <3>1, <3>3, AppendProperties
    <3> HIDE DEF h
    <3> QED
      BY <1>2, <3>1, <3>2, <3>3, <3>4
  <2>2. CASE b = "wait" /\ pending[b_cur] # None
    <3>1. b_cur \in Of("write")
      BY <1>2, <2>2
    <3>2. b' = "look" /\ b_cur' = None /\ pending' = [pending EXCEPT ![b_cur] = None]
          /\ b_ready' = Append(b_ready, b_cur) /\ UNCHANGED <<pending_b, to_gem5>>
      BY <2>2 DEF b_task
    <3>3. b_ready' \in Seq(Of("write"))
      BY <1>2, <3>1, <3>2, AppendProperties
    <3> QED
      BY <1>2, <3>2, <3>3
  <2>3. CASE ~(b = "look" /\ pending_b # << >>) /\ ~(b = "wait" /\ pending[b_cur] # None)
    <3>1. UNCHANGED <<pending_b, b_cur, b_ready, pending, to_gem5>>
      BY <2>3 DEF b_task
    <3>2. b' \in {"look", "poll", "wait"} /\ (b' = "wait" <=> b = "wait")
      BY <2>3 DEF b_task
    <3> QED
      BY <1>2, <3>1, <3>2
  <2> QED
    BY <2>1, <2>2, <2>3
<1>4. ProxyTypeOK'
  BY <1>1, <1>3, ScriptFixed DEF TypeInv, TypeOK, ProxyTypeOK
<1>5. MemTypeOK'
  BY <1>1, <1>3, ScriptFixed DEF TypeInv, TypeOK, MemTypeOK
<1>6. RepliesFit'
  <2>1. \A n \in Of("read") : n \in Bursts
    BY DEF Of
  <2> QED
    BY <1>1, <1>3, <2>1, ScriptFixed DEF TypeInv, RepliesFit
<1>7. AtWork'
  BY <1>1, <1>3, ScriptFixed DEF TypeInv, AtWork, RBeat
<1> QED
  BY <1>1, <1>4, <1>5, <1>6, <1>7, TypeFrame DEF TypeInv, TypeOK

LEMMA TypeBDrive ==
    ASSUME TypeInv, b_drive_task
    PROVE  TypeInv'
<1>1. /\ UNCHANGED <<script, memVars, dutVars, axi_mon>>
      /\ UNCHANGED <<aw_queue, beats, pending_b, ar_queue, b, r, b_cur, r_cur, r_beat, r_data,
                     rvalid>>
      /\ todo' \subseteq Tasks
  BY DEF b_drive_task, next_edge, Resumes, TypeInv, TypeOK
<1>2. /\ b_ready \in Seq(Of("write")) /\ bvalid \in Of("write") \cup {None}
      /\ bd \in {"look", "poll", "hold"} /\ (bd = "hold" <=> bvalid # None)
      /\ None \notin Of("write")
  BY ScriptFacts, NoneIsNoValue DEF TypeInv, TypeOK, ProxyTypeOK, AtWork
<1>3. /\ b_ready' \in Seq(Of("write")) /\ bvalid' \in Of("write") \cup {None}
      /\ bd' \in {"look", "poll", "hold"} /\ (bd' = "hold" <=> bvalid' # None)
  <2>1. CASE bd = "look" /\ b_ready # << >>
    <3>1. Head(b_ready) \in Of("write") /\ Tail(b_ready) \in Seq(Of("write"))
      BY <1>2, <2>1, HeadTailProperties
    <3>2. bvalid' = Head(b_ready) /\ b_ready' = Tail(b_ready) /\ bd' = "hold"
      BY <2>1 DEF b_drive_task
    <3> QED
      BY <1>2, <3>1, <3>2
  <2>2. CASE ~(bd = "look" /\ b_ready # << >>)
    BY <1>2, <2>2 DEF b_drive_task
  <2> QED
    BY <2>1, <2>2
<1>4. ProxyTypeOK'
  BY <1>1, <1>3, ScriptFixed DEF TypeInv, TypeOK, ProxyTypeOK
<1>5. AtWork'
  BY <1>1, <1>3, ScriptFixed DEF TypeInv, AtWork, RBeat
<1> QED
  BY <1>1, <1>4, <1>5, TypeFrame DEF TypeInv, TypeOK

\* What r_task puts on the pins is a response.
LEMMA RBeatType ==
    ASSUME script \in Scripts, NEW n \in Of("read"), NEW data \in Seq(Blank),
           Len(data) = NBeats(n), NEW i \in 1 .. NBeats(n)
    PROVE  RBeat(n, data, i) \in Responses /\ RBeat(n, data, i) # None
<1>1. data[i] \in Blank
  BY ElementOfSeq
<1>2. RBeat(n, data, i) \in Responses
  BY <1>1 DEF RBeat, Responses, Response
<1>3. Of("read") \subseteq Nat
  BY ScriptFacts
<1>4. Responses \subseteq Response(Nat)
  BY <1>3 DEF Responses, Response
<1> QED
  BY <1>2, <1>4, NoneIsNoValue

LEMMA TypeR ==
    ASSUME TypeInv, r_task
    PROVE  TypeInv'
<1>1. /\ UNCHANGED <<script, from_gem5, ddr, dutVars, axi_mon>>
      /\ UNCHANGED <<aw_queue, beats, pending_b, b_ready, b, bd, b_cur, bvalid>>
      /\ todo' \subseteq Tasks /\ script \in Scripts
  BY DEF r_task, r_hold, next_edge, Resumes, TypeInv, TypeOK
<1>2. /\ ar_queue \in Seq(Of("read")) /\ r_cur \in Of("read") \cup {None}
      /\ r \in {"look", "poll", "wait", "hold"}
      /\ r_beat \in Nat /\ r_data \in Seq(Blank) /\ rvalid \in Responses \cup {None}
      /\ pending \in [Bursts -> Seq(Blank) \cup {None}]
      /\ to_gem5 \in Seq([aw : Of("write"), beats : Seq(Beats)] \cup [ar : Of("read")])
      /\ r \in {"wait", "hold"} => r_cur # None
      /\ r # "hold" => rvalid = None
      /\ r = "hold" => /\ Len(r_data) = NBeats(r_cur) /\ r_beat \in 1 .. NBeats(r_cur)
                       /\ rvalid = RBeat(r_cur, r_data, r_beat)
      /\ \A n \in Of("read") : pending[n] # None => Len(pending[n]) = NBeats(n)
  BY DEF TypeInv, TypeOK, ProxyTypeOK, MemTypeOK, AtWork, RepliesFit
<1>3. /\ None \notin Of("read") /\ Of("read") \subseteq Bursts
      /\ \A n \in Of("read") : NBeats(n) \in Nat \ {0}
  BY <1>1, ScriptFacts, NoneIsNoValue
<1> DEFINE Types == /\ ar_queue' \in Seq(Of("read")) /\ r_cur' \in Of("read") \cup {None}
                    /\ r' \in {"look", "poll", "wait", "hold"}
                    /\ r_beat' \in Nat /\ r_data' \in Seq(Blank)
                    /\ rvalid' \in Responses \cup {None}
                    /\ pending' \in [Bursts -> Seq(Blank) \cup {None}]
                    /\ \A n \in Bursts : pending'[n] \in {pending[n], None}
                    /\ to_gem5' \in Seq([aw : Of("write"), beats : Seq(Beats)]
                                        \cup [ar : Of("read")])
           Works == /\ r' \in {"wait", "hold"} => r_cur' # None
                    /\ r' # "hold" => rvalid' = None
                    /\ r' = "hold" => /\ Len(r_data') = NBeats(r_cur')
                                      /\ r_beat' \in 1 .. NBeats(r_cur')
                                      /\ rvalid' = RBeat(r_cur', r_data', r_beat')
<1>4. Types /\ Works
  <2>1. CASE r \in {"look", "poll"} /\ UNCHANGED <<ar_queue, r_cur, r_beat, r_data, rvalid,
                                                   to_gem5, pending>> /\ r' \in {"look", "poll"}
    BY <1>2, <2>1
  <2>2. CASE r = "look" /\ ar_queue # << >>
    <3>1. Head(ar_queue) \in Of("read") /\ Tail(ar_queue) \in Seq(Of("read"))
      BY <1>2, <2>2, HeadTailProperties
    <3>2. /\ r_cur' = Head(ar_queue) /\ ar_queue' = Tail(ar_queue)
          /\ to_gem5' = Append(to_gem5, [ar |-> Head(ar_queue)])
          /\ r' = "wait" /\ UNCHANGED <<r_beat, r_data, rvalid, pending>>
      BY <2>2 DEF r_task, r_hold, ar_next
    <3>3. to_gem5' \in Seq([aw : Of("write"), beats : Seq(Beats)] \cup [ar : Of("read")])
      BY <1>2, <3>1, <3>2, AppendProperties
    <3> QED
      BY <1>2, <1>3, <2>2, <3>1, <3>2, <3>3
  <2>3. CASE r = "wait"
    <3>1. r_cur \in Of("read") /\ r_cur \in Bursts
      BY <1>2, <1>3, <2>3
    <3>2. UNCHANGED <<ar_queue, r_cur, to_gem5>>
      BY <2>3 DEF r_task, r_hold
    <3>3. CASE pending[r_cur] = None
      <4>1. UNCHANGED <<r, r_beat, r_data, rvalid, pending>>
        BY <2>3, <3>3 DEF r_task, r_hold
      <4> QED
        BY <1>2, <2>3, <3>2, <4>1
    <3>4. CASE pending[r_cur] # None
      <4>1. /\ r' = "hold" /\ r_beat' = 1 /\ r_data' = pending[r_cur]
            /\ rvalid' = RBeat(r_cur, pending[r_cur], 1)
            /\ pending' = [pending EXCEPT ![r_cur] = None]
        BY <2>3, <3>4 DEF r_task, r_hold
      <4>2. pending[r_cur] \in Seq(Blank) /\ Len(pending[r_cur]) = NBeats(r_cur)
        BY <1>2, <3>1, <3>4
      <4>3. 1 \in 1 .. NBeats(r_cur)
        BY <1>3, <3>1
      <4>4. rvalid' \in Responses
        BY <1>1, <3>1, <4>1, <4>2, <4>3, RBeatType
      <4>5. /\ pending' \in [Bursts -> Seq(Blank) \cup {None}]
            /\ \A n \in Bursts : pending'[n] \in {pending[n], None}
        BY <1>2, <3>1, <4>1
      <4>6. Types
        BY <1>2, <3>2, <4>1, <4>2, <4>4, <4>5
      <4>7. Works
        BY <1>3, <3>1, <3>2, <4>1, <4>2, <4>3
      <4> QED
        BY <4>6, <4>7
    <3> QED
      BY <3>3, <3>4
  <2>4. CASE r = "hold"
    <3>1. r_cur \in Of("read") /\ UNCHANGED <<ar_queue, r_cur, r_data, to_gem5, pending>>
      BY <1>2, <2>4 DEF r_task, r_hold
    <3>2. CASE UNCHANGED <<r, r_beat, rvalid>>
      BY <1>2, <2>4, <3>1, <3>2
    <3>3. CASE /\ r_beat < NBeats(r_cur) /\ r_beat' = r_beat + 1 /\ r' = r
               /\ rvalid' = RBeat(r_cur, r_data, r_beat + 1)
      <4>1. r_beat + 1 \in 1 .. NBeats(r_cur) /\ r_beat + 1 \in Nat
        BY <1>2, <1>3, <2>4, <3>1, <3>3
      <4>2. rvalid' \in Responses
        BY <1>1, <1>2, <2>4, <3>1, <3>3, <4>1, RBeatType
      <4>3. Types
        BY <1>2, <3>1, <3>3, <4>1, <4>2
      <4>4. Works
        BY <1>2, <2>4, <3>1, <3>3, <4>1
      <4> QED
        BY <4>3, <4>4
    <3>4. CASE r' = "look" /\ r_beat' = 0 /\ rvalid' = None
      BY <1>2, <3>1, <3>4
    <3> QED
      BY <2>4, <3>2, <3>3, <3>4 DEF r_task, r_hold
  <2> QED
    BY <1>2, <2>1, <2>2, <2>3, <2>4 DEF r_task, r_hold
<1>5. ProxyTypeOK'
  BY <1>1, <1>4, ScriptFixed DEF TypeInv, TypeOK, ProxyTypeOK
<1>6. MemTypeOK'
  BY <1>1, <1>4, ScriptFixed DEF TypeInv, TypeOK, MemTypeOK
<1>7. RepliesFit'
  BY <1>1, <1>3, <1>4, ScriptFixed DEF TypeInv, RepliesFit
<1>8. AtWork'
  BY <1>1, <1>4, ScriptFixed DEF TypeInv, AtWork, RBeat
<1> QED
  BY <1>1, <1>5, <1>6, <1>7, <1>8, TypeFrame DEF TypeInv, TypeOK

\* What a read finds has the length of its burst.
LEMMA FetchedType ==
    ASSUME TypeInv, NEW n \in Of("read")
    PROVE  Fetched(n) \in Seq(Blank) /\ Len(Fetched(n)) = NBeats(n)
<1>1. /\ NBeats(n) \in Nat /\ script[n].block \in Nat
      /\ \A i \in 1 .. NBeats(n) : script[n].block + i - 1 \in Blocks
      /\ ddr \in [Blocks -> Blank]
  BY ScriptFacts DEF TypeInv, TypeOK, MemTypeOK
<1>2. Fetched(n) \in [1 .. NBeats(n) -> Blank]
  BY <1>1 DEF Fetched
<1> HIDE DEF Blank
<1>3. Fetched(n) \in Seq(Blank) /\ DOMAIN Fetched(n) = 1 .. NBeats(n)
  BY <1>1, <1>2, SeqDef
<1>4. Len(Fetched(n)) \in Nat /\ DOMAIN Fetched(n) = 1 .. Len(Fetched(n))
  BY <1>3, LenProperties
<1>5. PICK k : k = Len(Fetched(n))
  OBVIOUS
<1>6. PICK l : l = NBeats(n)
  OBVIOUS
<1>7. k \in Nat /\ l \in Nat /\ 1 .. k = 1 .. l
  BY <1>1, <1>3, <1>4, <1>5, <1>6
<1>8. k = l
  BY <1>7
<1> QED
  BY <1>3, <1>5, <1>6, <1>8

\* gem5's memory and its replies.
LEMMA TypeGem5 ==
    ASSUME TypeInv, Gem5Access
    PROVE  TypeInv'
<1>1. /\ UNCHANGED <<script, proxyVars, todo, pending, dutVars, axi_mon>>
      /\ to_gem5 # << >> /\ to_gem5' = Tail(to_gem5) /\ script \in Scripts
  BY DEF Gem5Access, TypeInv, TypeOK
<1> DEFINE m == Head(to_gem5)
           WriteMsgs == [aw : Of("write"), beats : Seq(Beats)]
           ReadMsgs == [ar : Of("read")]
<1>2. /\ to_gem5 \in Seq(WriteMsgs \cup ReadMsgs)
      /\ from_gem5 \in Seq([n : Bursts, data : Seq(Blank)])
      /\ ddr \in [Blocks -> Blank]
  BY DEF TypeInv, TypeOK, MemTypeOK
<1>3. m \in WriteMsgs \cup ReadMsgs /\ to_gem5' \in Seq(WriteMsgs \cup ReadMsgs)
  <2> HIDE DEF WriteMsgs, ReadMsgs
  <2> QED
    BY <1>1, <1>2, HeadTailProperties
<1>4. /\ Bursts \subseteq Nat /\ Of("write") \subseteq Bursts /\ Of("read") \subseteq Bursts
      /\ \A n \in Bursts : /\ NBeats(n) \in Nat \ {0} /\ script[n].block \in Nat
                           /\ \A i \in 1 .. NBeats(n) : script[n].block + i - 1 \in Blocks
      /\ Blocks \subseteq Nat
  BY <1>1, ScriptFacts, ProxyAssumption
<1>5. /\ ddr' \in [Blocks -> Blank]
      /\ \E n \in Bursts, d \in Seq(Blank) :
            /\ from_gem5' = Append(from_gem5, [n |-> n, data |-> d])
            /\ n \in Of("read") => Len(d) = NBeats(n)
  <2>1. CASE "aw" \in DOMAIN m
    <3>1. m \in WriteMsgs
      BY <1>3, <2>1
    <3>2. m.aw \in Of("write") /\ m.beats \in Seq(Beats) /\ m.aw \in Bursts
      BY <1>4, <3>1
    <3>3. ~("ar" \in DOMAIN m)
      BY <3>1
    <3>4. ddr' = Written(m) /\ from_gem5' = Append(from_gem5, [n |-> m.aw, data |-> << >>])
      BY <2>1, <3>3 DEF Gem5Access
    <3>5. \A i \in DOMAIN m.beats : <<m.beats[i].n, m.beats[i].i>> \in Blank
      <4> SUFFICES ASSUME NEW i \in DOMAIN m.beats
                   PROVE  m.beats[i].n \in Nat /\ m.beats[i].i \in Nat
        BY DEF Blank
      <4>1. m.beats[i] \in Beats
        BY <3>2, LenProperties, ElementOfSeq
      <4> QED
        BY <1>4, <4>1 DEF Beats
    <3> HIDE DEF m
    <3>6. ddr' \in [Blocks -> Blank]
      <4>1. \A a \in Blocks : ddr[a] \in Blank
        BY <1>2
      <4> HIDE DEF Blank
      <4> DEFINE i(a) == a + 1 - script[m.aw].block
      <4>2. ddr' = [a \in Blocks |->
              IF i(a) \in DOMAIN m.beats /\ i(a) <= NBeats(m.aw)
                 /\ script[m.beats[i(a)].n].strb[m.beats[i(a)].i]
                THEN <<m.beats[i(a)].n, m.beats[i(a)].i>> ELSE ddr[a]]
        BY <3>4 DEF Written
      <4> HIDE DEF i
      <4> QED
        BY <3>5, <4>1, <4>2
    <3>7. m.aw \notin Of("read")
      BY <3>2 DEF Of
    <3>8. << >> \in Seq(Blank)
      OBVIOUS
    <3>9. \E n \in Bursts, d \in Seq(Blank) :
             /\ from_gem5' = Append(from_gem5, [n |-> n, data |-> d])
             /\ n \in Of("read") => Len(d) = NBeats(n)
      BY <3>2, <3>4, <3>7, <3>8, Zenon
    <3> QED
      BY <3>6, <3>9
  <2>2. CASE "ar" \in DOMAIN m
    <3>1. m \in ReadMsgs
      BY <1>3, <2>2
    <3>2. m.ar \in Of("read") /\ m.ar \in Bursts
      BY <1>4, <3>1
    <3>3. ~("aw" \in DOMAIN m)
      BY <3>1
    <3>4. ddr' = ddr /\ from_gem5' = Append(from_gem5, [n |-> m.ar, data |-> Fetched(m.ar)])
      BY <2>2, <3>3 DEF Gem5Access
    <3> HIDE DEF m
    <3>5. Fetched(m.ar) \in Seq(Blank) /\ Len(Fetched(m.ar)) = NBeats(m.ar)
      BY <3>2, FetchedType
    <3> QED
      BY <1>2, <3>2, <3>4, <3>5
  <2> QED
    BY <1>1, <2>1, <2>2 DEF Gem5Access
<1>6. from_gem5' \in Seq([n : Bursts, data : Seq(Blank)])
      /\ \A i \in DOMAIN from_gem5' : from_gem5'[i].n \in Of("read") =>
            Len(from_gem5'[i].data) = NBeats(from_gem5'[i].n)
  <2>1. PICK n \in Bursts, d \in Seq(Blank) :
            /\ from_gem5' = Append(from_gem5, [n |-> n, data |-> d])
            /\ n \in Of("read") => Len(d) = NBeats(n)
    BY <1>5
  <2> DEFINE x == [n |-> n, data |-> d]
  <2>2. x \in [n : Bursts, data : Seq(Blank)] /\ x.n = n /\ x.data = d
    OBVIOUS
  <2>3. from_gem5' = Append(from_gem5, x)
    BY <2>1
  <2> HIDE DEF x
  <2>4. /\ from_gem5' \in Seq([n : Bursts, data : Seq(Blank)])
        /\ \A i \in DOMAIN from_gem5' : from_gem5'[i] = x
                                        \/ (i \in DOMAIN from_gem5 /\ from_gem5'[i] = from_gem5[i])
    <3> DEFINE S == [n : Bursts, data : Seq(Blank)]
    <3>1. from_gem5 \in Seq(S) /\ x \in S
      BY <1>2, <2>2
    <3> HIDE DEF S
    <3>2. /\ from_gem5' \in Seq(S)
          /\ \A i \in DOMAIN from_gem5' : from_gem5'[i] = x
                                        \/ (i \in DOMAIN from_gem5 /\ from_gem5'[i] = from_gem5[i])
      BY <2>3, <3>1, AppendProperties, LenProperties
    <3> QED
      BY <3>2 DEF S
  <2> QED
    BY <2>1, <2>2, <2>4 DEF TypeInv, RepliesFit
<1>7. MemTypeOK'
  BY <1>1, <1>3, <1>5, <1>6, ScriptFixed DEF TypeInv, TypeOK, MemTypeOK
<1>8. RepliesFit'
  BY <1>1, <1>6, ScriptFixed DEF TypeInv, RepliesFit
<1>9. UNCHANGED <<b, b_cur, bd, bvalid, r, r_cur, r_data, r_beat, rvalid>>
  BY <1>1 DEF proxyVars
<1> QED
  BY <1>1, <1>7, <1>8, <1>9, TypeFrame DEF TypeInv, TypeOK

LEMMA TypeDeliver ==
    ASSUME TypeInv, deliver
    PROVE  TypeInv'
<1>1. /\ UNCHANGED <<script, proxyVars, todo, to_gem5, ddr, dutVars, axi_mon>>
      /\ from_gem5 # << >> /\ from_gem5' = Tail(from_gem5)
      /\ pending' = [pending EXCEPT ![Head(from_gem5).n] = Head(from_gem5).data]
  BY DEF deliver
<1> DEFINE S == [n : Bursts, data : Seq(Blank)]
           h == Head(from_gem5)
<1>2. from_gem5 \in Seq(S) /\ pending \in [Bursts -> Seq(Blank) \cup {None}]
  BY DEF TypeInv, TypeOK, MemTypeOK
<1>3. h \in S /\ from_gem5' \in Seq(S) /\ 1 \in DOMAIN from_gem5 /\ h = from_gem5[1]
      /\ \A i \in DOMAIN from_gem5' :
            i + 1 \in DOMAIN from_gem5 /\ from_gem5'[i] = from_gem5[i + 1]
  <2> HIDE DEF S
  <2> QED
    BY <1>1, <1>2, HeadTailProperties, LenProperties, EmptySeq
<1>4. /\ h.n \in Bursts /\ h.data \in Seq(Blank)
      /\ h.n \in Of("read") => Len(h.data) = NBeats(h.n)
  BY <1>3 DEF TypeInv, RepliesFit
<1>5. pending' = [pending EXCEPT ![h.n] = h.data]
  BY <1>1
<1> HIDE DEF h
<1>6. MemTypeOK'
  BY <1>1, <1>2, <1>3, <1>4, <1>5, ScriptFixed DEF TypeInv, TypeOK, MemTypeOK
<1>7. RepliesFit'
  <2>1. \A n \in Of("read") : n \in Bursts
    BY DEF Of
  <2>2. \A n \in Of("read") : pending'[n] # None => Len(pending'[n]) = NBeats(n)
    BY <1>2, <1>4, <1>5, <2>1 DEF TypeInv, RepliesFit
  <2>3. \A i \in DOMAIN from_gem5' :
          from_gem5'[i].n \in Of("read") => Len(from_gem5'[i].data) = NBeats(from_gem5'[i].n)
    BY <1>3 DEF TypeInv, RepliesFit
  <2> QED
    BY <1>1, <2>2, <2>3, ScriptFixed DEF RepliesFit
<1>8. UNCHANGED <<b, b_cur, bd, bvalid, r, r_cur, r_data, r_beat, rvalid>>
  BY <1>1 DEF proxyVars
<1> QED
  BY <1>1, <1>6, <1>7, <1>8, TypeFrame DEF TypeInv, TypeOK

\* What AxiMonitor samples and publishes.
SeenW == IF w = None THEN None ELSE [val |-> w, beat |-> axi_mon.w_beat]
SeenR == IF rvalid = None \/ ~rready THEN None ELSE [val |-> rvalid, beat |-> axi_mon.r_beat]
SeenB == IF bready THEN bvalid ELSE None

LEMMA MonitorFields ==
    ASSUME axi_monitor
    PROVE  /\ axi_mon'.aw = sampled(axi_mon.aw, aw)
           /\ axi_mon'.ar = sampled(axi_mon.ar, ar)
           /\ axi_mon'.b = sampled(axi_mon.b, SeenB)
           /\ axi_mon'.w = sampled(axi_mon.w, SeenW)
           /\ axi_mon'.r = sampled(axi_mon.r, SeenR)
           /\ axi_mon'.w_beat = IF w = None THEN axi_mon.w_beat
                                ELSE beat_after(axi_mon.w_beat, LastBeat)
           /\ axi_mon'.r_beat = IF rvalid = None \/ ~rready THEN axi_mon.r_beat
                                ELSE beat_after(axi_mon.r_beat, rvalid.last)
           /\ axi_mon' = [aw |-> axi_mon'.aw, ar |-> axi_mon'.ar, b |-> axi_mon'.b,
                          w |-> axi_mon'.w, r |-> axi_mon'.r,
                          w_beat |-> axi_mon'.w_beat, r_beat |-> axi_mon'.r_beat]
<1> DEFINE a1 == sampled(axi_mon.aw, aw)
           a2 == sampled(axi_mon.ar, ar)
           a3 == sampled(axi_mon.b, SeenB)
           a4 == sampled(axi_mon.w, SeenW)
           a5 == sampled(axi_mon.r, SeenR)
           a6 == IF w = None THEN axi_mon.w_beat ELSE beat_after(axi_mon.w_beat, LastBeat)
           a7 == IF rvalid = None \/ ~rready THEN axi_mon.r_beat
                 ELSE beat_after(axi_mon.r_beat, rvalid.last)
<1>1. axi_mon' = [aw |-> a1, ar |-> a2, b |-> a3, w |-> a4, r |-> a5, w_beat |-> a6,
                  r_beat |-> a7]
  BY DEF axi_monitor, SeenB, SeenW, SeenR
<1> HIDE DEF a1, a2, a3, a4, a5, a6, a7
<1>2. /\ axi_mon'.aw = a1 /\ axi_mon'.ar = a2 /\ axi_mon'.b = a3 /\ axi_mon'.w = a4
      /\ axi_mon'.r = a5 /\ axi_mon'.w_beat = a6 /\ axi_mon'.r_beat = a7
  BY <1>1
<1> QED
  BY <1>1, <1>2, Zenon DEF a1, a2, a3, a4, a5, a6, a7

LEMMA TypeMonitor ==
    ASSUME TypeInv, axi_monitor
    PROVE  TypeInv'
<1>1. UNCHANGED <<script, proxyVars, memVars, dutVars>> /\ todo' \subseteq Tasks
  BY DEF axi_monitor, TypeInv, TypeOK
<1> DEFINE Ws == [val : Beats, beat : Nat]
           Rs == [val : Responses, beat : Nat]
<1>2. /\ axi_mon.aw \in Seq(Of("write")) /\ axi_mon.w \in Seq(Ws)
      /\ axi_mon.b \in Seq(Of("write")) /\ axi_mon.ar \in Seq(Of("read"))
      /\ axi_mon.r \in Seq(Rs) /\ axi_mon.w_beat \in Nat /\ axi_mon.r_beat \in Nat
  BY DEF TypeInv, TypeOK, MonitorTypeOK
<1>3. /\ aw \in Of("write") \cup {None} /\ ar \in Of("read") \cup {None}
      /\ bvalid \in Of("write") \cup {None}
      /\ w \in Beats \cup {None} /\ rvalid \in Responses \cup {None}
  BY DEF TypeInv, TypeOK, ProxyTypeOK, DutTypeOK
<1>4. SeenW \in Ws \cup {None} /\ SeenR \in Rs \cup {None} /\ SeenB \in Of("write") \cup {None}
  BY <1>2, <1>3 DEF SeenW, SeenR, SeenB
<1> HIDE DEF Ws, Rs
<1>5. /\ axi_mon'.aw \in Seq(Of("write")) /\ axi_mon'.w \in Seq(Ws)
      /\ axi_mon'.b \in Seq(Of("write")) /\ axi_mon'.ar \in Seq(Of("read"))
      /\ axi_mon'.r \in Seq(Rs)
  BY <1>2, <1>3, <1>4, MonitorFields, SampledType
<1>6. axi_mon'.w_beat \in Nat /\ axi_mon'.r_beat \in Nat
  <2>1. \A last : \A x \in Nat : beat_after(x, last) \in Nat
    BY DEF beat_after
  <2> QED
    BY <1>2, <2>1, MonitorFields
<1>7. MonitorTypeOK'
  <2>1. axi_mon' \in [aw : Seq(Of("write")), w : Seq(Ws), b : Seq(Of("write")),
                      ar : Seq(Of("read")), r : Seq(Rs), w_beat : Nat, r_beat : Nat]
    BY <1>5, <1>6, MonitorFields
  <2> QED
    BY <1>1, <2>1, ScriptFixed DEF MonitorTypeOK, Ws, Rs
<1>8. UNCHANGED <<b, b_cur, bd, bvalid, r, r_cur, r_data, r_beat, rvalid>>
  BY <1>1 DEF proxyVars
<1> QED
  BY <1>1, <1>7, <1>8, TypeFrame DEF TypeInv, TypeOK

LEMMA TypeEdge ==
    ASSUME TypeInv, RisingEdge
    PROVE  TypeInv'
<1>1. UNCHANGED <<script, proxyVars, memVars, axi_mon>> /\ todo' = Tasks /\ script \in Scripts
  BY DEF RisingEdge, TypeInv, TypeOK
<1>2. /\ next_aw \in Of("write") \cup {None} /\ next_ar \in Of("read") \cup {None}
      /\ next_w \in Beats \cup {None} /\ bgot \in Seq(Of("write")) /\ rgot \in Seq(Responses)
      /\ bvalid \in Of("write") \cup {None} /\ rvalid \in Responses \cup {None}
      /\ next_w # None => next_w.i \in 1 .. NBeats(next_w.n)
      /\ w # None => w.i \in 1 .. NBeats(w.n)
  BY DEF TypeInv, TypeOK, DutTypeOK, ProxyTypeOK, BeatsFit
<1>3. Of("read") \subseteq Nat /\ Of("write") \subseteq Nat
  BY <1>1, ScriptFacts
<1>4. next_aw' \in Of("write") \cup {None} /\ aw' \in Of("write") \cup {None}
  BY <1>1, <1>2, <1>3, AfterType DEF RisingEdge, ShowAW
<1>5. next_ar' \in Of("read") \cup {None} /\ ar' \in Of("read") \cup {None}
  BY <1>1, <1>2, <1>3, AfterType DEF RisingEdge, ShowAR
<1>6. /\ next_w' \in Beats \cup {None} /\ w' \in Beats \cup {None}
      /\ next_w' # None => next_w'.i \in 1 .. NBeats(next_w'.n)
      /\ w' # None => w'.i \in 1 .. NBeats(w'.n)
  <2>1. CASE w' = None /\ UNCHANGED next_w
    BY <1>2, <2>1
  <2>2. CASE next_w # None /\ w' = next_w /\ next_w' = NextBeat(next_w)
    <3>1. /\ NextBeat(next_w) \in Beats \cup {None}
          /\ NextBeat(next_w) # None => NextBeat(next_w).i \in 1 .. NBeats(NextBeat(next_w).n)
      BY <1>1, <1>2, <2>2, NextBeatFacts
    <3> QED
      BY <1>2, <2>2, <3>1
  <2> QED
    BY <2>1, <2>2 DEF RisingEdge, ShowW
<1>7. bgot' \in Seq(Of("write")) /\ rgot' \in Seq(Responses)
  BY <1>2, AppendProperties DEF RisingEdge
<1>8. bready' \in BOOLEAN /\ rready' \in BOOLEAN
  BY DEF RisingEdge, Readies
<1>9. DutTypeOK'
  BY <1>1, <1>4, <1>5, <1>6, <1>7, <1>8, ScriptFixed DEF DutTypeOK
<1>10. BeatsFit'
  BY <1>1, <1>6, ScriptFixed DEF BeatsFit
<1>11. UNCHANGED <<b, b_cur, bd, bvalid, r, r_cur, r_data, r_beat, rvalid>>
  BY <1>1 DEF proxyVars
<1> QED
  BY <1>1, <1>9, <1>10, <1>11, TypeFrame DEF TypeInv, TypeOK

LEMMA TypeInit == Init => TypeInv
<1> SUFFICES ASSUME Init PROVE TypeInv
  OBVIOUS
<1>1. script \in Scripts /\ todo = {}
  BY DEF Init
<1>2. ProxyTypeOK
  BY DEF Init, ProxyTypeOK
<1>3. MemTypeOK
  BY DEF Init, MemTypeOK, Blank
<1>4. 0 \in Nat /\ After("write", 0) \in Of("write") \cup {None}
      /\ After("read", 0) \in Of("read") \cup {None}
  BY <1>1, AfterType
<1>5. /\ FirstBeat(After("write", 0)) \in Beats \cup {None}
      /\ FirstBeat(After("write", 0)) # None =>
            FirstBeat(After("write", 0)).i \in 1 .. NBeats(FirstBeat(After("write", 0)).n)
  <2>1. \A n \in Of("write") : NBeats(n) \in Nat \ {0}
    BY <1>1, ScriptFacts
  <2> QED
    BY <1>4, <2>1 DEF FirstBeat, Beat, Beats
<1>6. bready \in BOOLEAN /\ rready \in BOOLEAN
  BY DEF Init, Readies
<1>7. DutTypeOK /\ BeatsFit
  BY <1>4, <1>5, <1>6 DEF Init, DutTypeOK, BeatsFit
<1>8. MonitorTypeOK
  BY DEF Init, MonitorTypeOK
<1>9. RepliesFit
  BY DEF Init, RepliesFit, Of
<1>10. AtWork
  BY DEF Init, AtWork
<1> QED
  BY <1>1, <1>2, <1>3, <1>7, <1>8, <1>9, <1>10 DEF TypeInv, TypeOK

LEMMA TypeStep == TypeInv /\ [Next]_vars => TypeInv'
<1> SUFFICES ASSUME TypeInv, [Next]_vars PROVE TypeInv'
  OBVIOUS
<1>1. CASE UNCHANGED vars
  <2>1. UNCHANGED <<script, todo, proxyVars, memVars, dutVars, axi_mon>>
        /\ UNCHANGED <<b, b_cur, bd, bvalid, r, r_cur, r_data, r_beat, rvalid>>
    BY <1>1 DEF vars, proxyVars
  <2> QED
    BY <2>1, TypeFrame DEF TypeInv, TypeOK
<1> QED
  BY <1>1, TypeWritePath, TypeAr, TypeB, TypeBDrive, TypeR, TypeGem5, TypeDeliver, TypeMonitor,
     TypeEdge DEF Next

(***************************************************************************)
(* The queues, the pins, the broker's messages and the monitor's record    *)
(* keep their types for every script, whatever bready and rready do: among *)
(* others r_task never indexes a completion outside its beats, since a     *)
(* reply has the length of its burst.                                      *)
(***************************************************************************)
THEOREM ProxyTypes == Spec => []TypeOK
<1>1. TypeInv => TypeOK
  BY DEF TypeInv
<1> QED
  BY <1>1, TypeInit, TypeStep, PTL DEF Spec

-------------------------------------------------------------------------------
(***************************************************************************)
(* A burst moves on: the first of a stage goes to the stage before it.     *)
(***************************************************************************)
LEMMA OrderedMove ==
    ASSUME NEW st, NEW st2, NEW N \in Nat, DOMAIN st = 1 .. N, DOMAIN st2 = 1 .. N,
           NEW k \in 1 .. N, NEW l \in 1 .. N, l = k + 1, \A j \in 1 .. N : st[j] \subseteq Nat,
           Ordered(st), NEW x \in st[l], \A y \in st[l] : x <= y,
           st2[k] \subseteq st[k] \cup {x}, st2[l] \subseteq st[l] \ {x},
           \A j \in 1 .. N : j # k /\ j # l => st2[j] \subseteq st[j]
    PROVE  Ordered(st2)
<1> SUFFICES ASSUME NEW i \in 1 .. N, NEW j \in 1 .. N, i < j,
                    NEW y \in st2[i], NEW z \in st2[j]
             PROVE  y < z
  BY DEF Ordered
<1>1. \A u, v \in 1 .. N : u < v => \A c \in st[u], d \in st[v] : c < d
  BY DEF Ordered
<1>a. \A u \in 1 .. N : \A v \in st2[u] : v \in st[u] \/ (u = k /\ v = x)
  <2> SUFFICES ASSUME NEW u \in 1 .. N, NEW v \in st2[u], v \notin st[u]
               PROVE  u = k /\ v = x
    OBVIOUS
  <2>1. CASE u = k
    BY <2>1
  <2>2. CASE u = l
    BY <2>2
  <2>3. CASE u # k /\ u # l
    BY <2>3
  <2> QED
    BY <2>1, <2>2, <2>3
<1>2. y \in st[i] \/ (i = k /\ y = x)
  BY <1>a
<1>3. z \in st[j] \/ (j = k /\ z = x)
  BY <1>a
<1>4. x \in Nat /\ y \in Nat /\ z \in Nat
  BY <1>2, <1>3
<1>5. CASE y \in st[i] /\ z \in st[j]
  BY <1>1, <1>5
<1>6. CASE i = k /\ y = x /\ z \in st[j]
  <2>1. CASE j = l
    BY <1>4, <1>6, <2>1
  <2>2. CASE l < j
    BY <1>1, <1>6, <2>2
  <2> QED
    BY <1>6, <2>1, <2>2
<1>7. CASE j = k /\ z = x /\ y \in st[i]
  BY <1>1, <1>7
<1> QED
  BY <1>2, <1>3, <1>5, <1>6, <1>7

\* The same for the last stage of all.
LEMMA OrderedEnter ==
    ASSUME NEW st, NEW st2, NEW N \in Nat, NEW k \in 1 .. N, N = k + 1,
           DOMAIN st = 1 .. N, DOMAIN st2 = 1 .. N, \A j \in 1 .. N : st[j] \subseteq Nat,
           Ordered(st), NEW x \in st[N], \A y \in st[N] : x <= y,
           st2[k] \subseteq st[k] \cup {x}, st2[N] \subseteq st[N] \ {x},
           \A j \in 1 .. N : j # k /\ j # N => st2[j] \subseteq st[j]
    PROVE  Ordered(st2)
<1>1. N \in 1 .. N
  OBVIOUS
<1> QED
  BY <1>1, OrderedMove

LEMMA OrderedShrink ==
    ASSUME NEW st, NEW st2, DOMAIN st2 = DOMAIN st, Ordered(st),
           \A j \in DOMAIN st : st2[j] \subseteq st[j]
    PROVE  Ordered(st2)
  BY DEF Ordered

LEMMA MembersAppend ==
    ASSUME NEW q \in Seq(Nat), NEW x \in Nat
    PROVE  /\ Members(Append(q, x)) = Members(q) \cup {x}
           /\ Increasing(q) /\ (\A y \in Members(q) : y < x) => Increasing(Append(q, x))
<1> DEFINE n == Len(q)
           p == Append(q, x)
<1>1. n \in Nat /\ DOMAIN q = 1 .. n /\ DOMAIN p = 1 .. n + 1 /\ p[n + 1] = x
      /\ \A i \in 1 .. n : p[i] = q[i]
  BY AppendProperties, LenProperties
<1> HIDE DEF n, p
<1>2. Members(p) = Members(q) \cup {x}
  <2>1. \A y \in Members(p) : y \in Members(q) \cup {x}
    BY <1>1 DEF Members
  <2>2. \A i \in 1 .. n : q[i] \in Members(p)
    <3> SUFFICES ASSUME NEW i \in 1 .. n PROVE q[i] \in Members(p)
      OBVIOUS
    <3>1. i \in DOMAIN p /\ q[i] = p[i]
      BY <1>1
    <3> QED
      BY <3>1 DEF Members
  <2>3. x \in Members(p)
    <3>1. n + 1 \in DOMAIN p
      BY <1>1
    <3> QED
      BY <1>1, <3>1 DEF Members
  <2>4. \A y \in Members(q) : y \in Members(p)
    BY <1>1, <2>2 DEF Members
  <2> QED
    BY <2>1, <2>3, <2>4
<1>3. ASSUME Increasing(q), \A y \in Members(q) : y < x PROVE Increasing(p)
  <2> SUFFICES ASSUME NEW i \in 1 .. n + 1, NEW j \in 1 .. n + 1, i < j PROVE p[i] < p[j]
    BY <1>1 DEF Increasing
  <2>1. i \in 1 .. n /\ p[i] = q[i] /\ q[i] \in Members(q)
    BY <1>1 DEF Members
  <2>2. CASE j \in 1 .. n
    BY <1>1, <1>3, <2>1, <2>2 DEF Increasing
  <2>3. CASE j = n + 1
    BY <1>1, <1>3, <2>1, <2>3
  <2> QED
    BY <1>1, <2>2, <2>3
<1> QED
  BY <1>2, <1>3 DEF p

LEMMA MembersTail ==
    ASSUME NEW q \in Seq(Nat), q # << >>, Increasing(q)
    PROVE  /\ Head(q) \in Members(q) /\ \A y \in Members(q) : Head(q) <= y
           /\ Members(Tail(q)) \subseteq Members(q) \ {Head(q)}
           /\ Increasing(Tail(q))
<1> DEFINE n == Len(q)
           t == Tail(q)
<1>1. n \in Nat \ {0} /\ DOMAIN q = 1 .. n /\ DOMAIN t = 1 .. n - 1 /\ Head(q) = q[1]
      /\ \A i \in 1 .. n - 1 : t[i] = q[i + 1]
  BY HeadTailProperties, LenProperties, EmptySeq
<1>2. \A i \in 1 .. n : q[i] \in Nat
  BY ElementOfSeq
<1> HIDE DEF n, t
<1>3. 1 \in DOMAIN q
  BY <1>1
<1>4. ASSUME NEW i \in 1 .. n, i # 1 PROVE q[1] < q[i]
  <2>1. 1 < i /\ i \in DOMAIN q
    BY <1>1, <1>4
  <2> QED
    BY <1>3, <2>1 DEF Increasing
<1>5. Head(q) \in Members(q) /\ \A y \in Members(q) : Head(q) <= y
  <2>1. \A i \in 1 .. n : q[1] <= q[i]
    BY <1>1, <1>2, <1>4, SMTT(30)
  <2> QED
    BY <1>1, <1>3, <2>1 DEF Members
<1>6. \A i \in DOMAIN t : i + 1 \in DOMAIN q /\ i + 1 # 1 /\ t[i] = q[i + 1]
  BY <1>1
<1>7. Members(t) \subseteq Members(q) \ {Head(q)}
  <2> SUFFICES ASSUME NEW i \in DOMAIN t PROVE t[i] \in Members(q) /\ t[i] # Head(q)
    BY DEF Members
  <2>1. i + 1 \in 1 .. n /\ i + 1 # 1 /\ t[i] = q[i + 1]
    BY <1>1, <1>6
  <2>2. q[1] < q[i + 1] /\ q[1] \in Nat /\ q[i + 1] \in Nat
    BY <1>1, <1>2, <1>3, <1>4, <2>1
  <2> QED
    BY <1>1, <2>1, <2>2 DEF Members
<1>8. Increasing(t)
  <2> SUFFICES ASSUME NEW i \in DOMAIN t, NEW j \in DOMAIN t, i < j PROVE t[i] < t[j]
    BY DEF Increasing
  <2>1. i + 1 < j + 1
    BY <1>1
  <2> QED
    BY <1>6, <2>1 DEF Increasing
<1> QED
  BY <1>5, <1>7, <1>8 DEF t

\* The addresses in pending_b, as it grows and shrinks.
LEMMA AddressesMap ==
    ASSUME NEW S, \A x \in S : x.aw \in Nat, NEW q \in Seq(S)
    PROVE  /\ Addresses(q) \in Seq(Nat)
           /\ \A x \in S : Addresses(Append(q, x)) = Append(Addresses(q), x.aw)
           /\ q # << >> => /\ Addresses(q) # << >> /\ Head(Addresses(q)) = Head(q).aw
                           /\ Addresses(Tail(q)) = Tail(Addresses(q))
<1> DEFINE n == Len(q)
           p == Addresses(q)
<1>1. q \in Seq(S) /\ n \in Nat /\ DOMAIN q = 1 .. n /\ \A i \in 1 .. n : q[i] \in S
  BY LenProperties, ElementOfSeq
<1>2. p \in [1 .. n -> Nat] /\ \A i \in 1 .. n : p[i] = q[i].aw
  BY <1>1 DEF Addresses
<1> HIDE DEF n, p
<1>3. p \in Seq(Nat) /\ Len(p) = n /\ DOMAIN p = 1 .. n
  <2>1. p \in Seq(Nat) /\ DOMAIN p = 1 .. n
    BY <1>1, <1>2, SeqDef
  <2>2. Len(p) \in Nat /\ DOMAIN p = 1 .. Len(p)
    BY <2>1, LenProperties
  <2>3. Len(p) = n
    BY <1>1, <2>1, <2>2
  <2> QED
    BY <2>1, <2>3
<1>4. ASSUME NEW x \in S PROVE Addresses(Append(q, x)) = Append(p, x.aw)
  <2>1. /\ DOMAIN Append(q, x) = 1 .. n + 1 /\ Append(q, x)[n + 1] = x
        /\ \A i \in 1 .. n : Append(q, x)[i] = q[i]
    BY <1>1, AppendProperties, LenProperties DEF n
  <2>2. /\ DOMAIN Append(p, x.aw) = 1 .. n + 1 /\ Append(p, x.aw)[n + 1] = x.aw
        /\ \A i \in 1 .. n : Append(p, x.aw)[i] = p[i]
        /\ Append(p, x.aw) \in Seq(Nat)
    BY <1>3, <1>4, AppendProperties, LenProperties
  <2>3. Addresses(Append(q, x)) = [i \in 1 .. n + 1 |-> Append(q, x)[i].aw]
    BY <2>1 DEF Addresses
  <2>4. \A i \in 1 .. n + 1 : i = n + 1 \/ i \in 1 .. n
    BY <1>1
  <2>5. \A i \in 1 .. n + 1 : Append(p, x.aw)[i] = Append(q, x)[i].aw
    BY <1>2, <2>1, <2>2, <2>4
  <2>6. Append(p, x.aw) = [i \in 1 .. n + 1 |-> Append(p, x.aw)[i]]
    <3>1. Append(p, x.aw) \in [1 .. Len(Append(p, x.aw)) -> Nat]
      BY <2>2, LenProperties
    <3> QED
      BY <2>2, <3>1
  <2> QED
    BY <2>3, <2>5, <2>6
<1>5. ASSUME q # << >> PROVE /\ p # << >> /\ Head(p) = Head(q).aw
                             /\ Addresses(Tail(q)) = Tail(p)
  <2>1. n # 0
    BY <1>1, <1>5, EmptySeq DEF n
  <2>2. p # << >>
    BY <1>3, <2>1, EmptySeq
  <2>3. /\ Head(q) = q[1] /\ DOMAIN Tail(q) = 1 .. n - 1
        /\ \A i \in 1 .. n - 1 : Tail(q)[i] = q[i + 1]
    BY <1>1, <1>5, HeadTailProperties, LenProperties DEF n
  <2>4. /\ Head(p) = p[1] /\ DOMAIN Tail(p) = 1 .. n - 1 /\ Tail(p) \in Seq(Nat)
        /\ \A i \in 1 .. n - 1 : Tail(p)[i] = p[i + 1]
    BY <1>3, <2>2, HeadTailProperties, LenProperties
  <2>5. Addresses(Tail(q)) = [i \in 1 .. n - 1 |-> Tail(q)[i].aw]
    BY <2>3 DEF Addresses
  <2>6. \A i \in 1 .. n - 1 : Tail(p)[i] = Tail(q)[i].aw
    <3> SUFFICES ASSUME NEW i \in 1 .. n - 1 PROVE Tail(p)[i] = Tail(q)[i].aw
      OBVIOUS
    <3>1. i + 1 \in 1 .. n
      BY <1>1
    <3> QED
      BY <1>2, <2>3, <2>4, <3>1
  <2>7. Tail(p) = [i \in 1 .. n - 1 |-> Tail(p)[i]]
    <3>1. Tail(p) \in [1 .. Len(Tail(p)) -> Nat]
      BY <2>4, LenProperties
    <3> QED
      BY <2>4, <3>1
  <2>8. Head(p) = Head(q).aw
    BY <1>1, <1>2, <2>1, <2>3, <2>4
  <2> QED
    BY <2>2, <2>5, <2>6, <2>7, <2>8
<1> QED
  BY <1>3, <1>4, <1>5 DEF p

\* The bursts in pending_b.
WriteBursts == [aw : Of("write"), beats : Seq(Beats)]

LEMMA RequestedFacts ==
    ASSUME TypeInv
    PROVE  /\ \A x \in WriteBursts : x.aw \in Of("write") /\ x.aw \in Nat
           /\ pending_b \in Seq(WriteBursts) /\ Requested \in Seq(Nat)
           /\ \A x \in WriteBursts :
                 Addresses(Append(pending_b, x)) = Append(Requested, x.aw)
           /\ pending_b # << >> => /\ Head(pending_b) \in WriteBursts /\ Requested # << >>
                                   /\ Head(Requested) = Head(pending_b).aw
                                   /\ Addresses(Tail(pending_b)) = Tail(Requested)
<1>1. Of("write") \subseteq Nat
  BY ScriptFacts DEF TypeInv, TypeOK
<1>2. \A x \in WriteBursts : x.aw \in Of("write") /\ x.aw \in Nat
  BY <1>1 DEF WriteBursts
<1>3. pending_b \in Seq(WriteBursts)
  BY DEF TypeInv, TypeOK, ProxyTypeOK, WriteBursts
<1>4. pending_b # << >> => Head(pending_b) \in WriteBursts
  BY <1>3, HeadTailProperties
<1> QED
  BY <1>2, <1>3, <1>4, AddressesMap DEF Requested

-------------------------------------------------------------------------------
(***************************************************************************)
(* The write channel.                                                      *)
(***************************************************************************)
LEMMA WriteShape ==
    /\ DOMAIN WriteStages = 1 .. 8
    /\ WriteStages[1] = Members(bgot)
    /\ WriteStages[2] = IF "bd" \in todo THEN {} ELSE Only(bvalid)
    /\ WriteStages[3] = Members(b_ready)
    /\ WriteStages[4] = Only(b_cur)
    /\ WriteStages[5] = Members(Requested)
    /\ WriteStages[6] = Members(aw_queue)
    /\ WriteStages[7] = IF "aw" \in todo THEN Only(aw) ELSE {}
    /\ WriteStages[8] = From("write", next_aw)
  BY DEF WriteStages

LEMMA WriteShapeNext ==
    /\ DOMAIN WriteStages' = 1 .. 8
    /\ WriteStages'[1] = Members(bgot')
    /\ WriteStages'[2] = IF "bd" \in todo' THEN {} ELSE Only(bvalid')
    /\ WriteStages'[3] = Members(b_ready')
    /\ WriteStages'[4] = Only(b_cur')
    /\ WriteStages'[5] = Members(Requested')
    /\ WriteStages'[6] = Members(aw_queue')
    /\ WriteStages'[7] = IF "aw" \in todo' THEN Only(aw') ELSE {}
    /\ WriteStages'[8] = From("write", next_aw)'
  BY DEF WriteStages, Members, Only

LEMMA MembersType ==
    ASSUME NEW S, NEW q \in Seq(S)
    PROVE  Members(q) \subseteq S
  BY LenProperties, ElementOfSeq DEF Members

LEMMA WriteStageTypes ==
    ASSUME TypeInv
    PROVE  \A j \in 1 .. 8 : WriteStages[j] \subseteq Nat
<1>1. script \in Scripts /\ Of("write") \subseteq Nat
  BY ScriptFacts DEF TypeInv, TypeOK
<1>2. /\ bgot \in Seq(Of("write")) /\ b_ready \in Seq(Of("write")) /\ aw_queue \in Seq(Of("write"))
      /\ bvalid \in Of("write") \cup {None} /\ b_cur \in Of("write") \cup {None}
      /\ aw \in Of("write") \cup {None}
      /\ pending_b \in Seq([aw : Of("write"), beats : Seq(Beats)])
  BY DEF TypeInv, TypeOK, ProxyTypeOK, DutTypeOK
<1>3. Members(bgot) \subseteq Nat /\ Members(b_ready) \subseteq Nat /\ Members(aw_queue) \subseteq Nat
  BY <1>1, <1>2, MembersType
<1>4. Members(Requested) \subseteq Nat
  BY RequestedFacts, MembersType
<1>5. /\ Only(bvalid) \subseteq Nat /\ Only(b_cur) \subseteq Nat /\ Only(aw) \subseteq Nat
      /\ From("write", next_aw) \subseteq Nat
  BY <1>1, <1>2 DEF Only, From
<1> QED
  BY <1>3, <1>4, <1>5, WriteShape

LEMMA WriteFrame ==
    ASSUME WriteFlow, script' = script,
           UNCHANGED <<bgot, bvalid, b_ready, b_cur, pending_b, aw_queue, aw, next_aw>>,
           "bd" \in todo' <=> "bd" \in todo, "aw" \in todo' <=> "aw" \in todo
    PROVE  WriteFlow'
<1>1. Requested' = Requested
  BY DEF Requested, Addresses
<1>2. From("write", next_aw)' = From("write", next_aw)
  BY ScriptFixed DEF From
<1>3. WriteStages' = WriteStages
  BY <1>1, <1>2 DEF WriteStages, Members, Only
<1> QED
  BY <1>1, <1>3 DEF WriteFlow, Ordered, Increasing

\* Only the stages that take part in a move change.
LEMMA WriteMove ==
    ASSUME TypeInv, WriteFlow, NEW k \in 1 .. 7,
           \A j \in 1 .. 8 : j # k /\ j # k + 1 => WriteStages'[j] \subseteq WriteStages[j],
           NEW x \in WriteStages[k + 1], \A y \in WriteStages[k + 1] : x <= y,
           WriteStages'[k] \subseteq WriteStages[k] \cup {x},
           WriteStages'[k + 1] \subseteq WriteStages[k + 1] \ {x}
    PROVE  /\ Ordered(WriteStages')
           /\ \A y \in WriteStages[k] : y < x
<1>1. k \in 1 .. 8 /\ k + 1 \in 1 .. 8 /\ k < k + 1 /\ 8 \in Nat
  OBVIOUS
<1>2. DOMAIN WriteStages = 1 .. 8 /\ DOMAIN WriteStages' = 1 .. 8
  BY WriteShape, WriteShapeNext
<1>3. \A j \in 1 .. 8 : WriteStages[j] \subseteq Nat
  BY WriteStageTypes
<1>4. Ordered(WriteStages)
  BY DEF WriteFlow
<1>5. Ordered(WriteStages')
  BY <1>1, <1>2, <1>3, <1>4, OrderedMove
<1>6. \A y \in WriteStages[k] : y < x
  BY <1>1, <1>2, <1>4 DEF Ordered
<1> QED
  BY <1>5, <1>6

LEMMA WriteAw ==
    ASSUME TypeInv, WriteFlow, aw_task
    PROVE  WriteFlow'
<1>1. /\ UNCHANGED <<script, bgot, bvalid, b_ready, b_cur, pending_b, aw, next_aw>>
      /\ aw_queue' = sampled(aw_queue, aw) /\ "aw" \in todo /\ todo' = todo \ {"aw"}
  BY DEF aw_task, Resumes, dutVars
<1>2. /\ aw_queue \in Seq(Of("write")) /\ aw \in Of("write") \cup {None} /\ Of("write") \subseteq Nat
  BY ScriptFacts DEF TypeInv, TypeOK, ProxyTypeOK, DutTypeOK
<1>3. Requested' = Requested
  BY <1>1 DEF Requested, Addresses
<1>4. From("write", next_aw)' = From("write", next_aw)
  BY <1>1, ScriptFixed DEF From
<1>5. /\ WriteStages'[1] = WriteStages[1] /\ WriteStages'[2] = WriteStages[2]
      /\ WriteStages'[3] = WriteStages[3] /\ WriteStages'[4] = WriteStages[4]
      /\ WriteStages'[5] = WriteStages[5] /\ WriteStages'[8] = WriteStages[8]
      /\ WriteStages'[7] = {}
  BY <1>1, <1>3, <1>4, WriteShape, WriteShapeNext
<1>6. CASE aw = None
  <2>1. aw_queue' = aw_queue
    BY <1>1, <1>6 DEF sampled
  <2>2. WriteStages'[6] = WriteStages[6]
    BY <2>1, WriteShape, WriteShapeNext
  <2>3. \A j \in DOMAIN WriteStages : WriteStages'[j] \subseteq WriteStages[j]
    BY <1>5, <2>2, WriteShape
  <2>4. Ordered(WriteStages')
    BY <2>3, OrderedShrink, WriteShape, WriteShapeNext DEF WriteFlow
  <2> QED
    BY <1>1, <1>3, <2>1, <2>4 DEF WriteFlow, Ordered, Increasing
<1>7. CASE aw # None
  <2>1. aw \in Nat /\ aw_queue \in Seq(Nat) /\ aw_queue' = Append(aw_queue, aw)
    BY <1>1, <1>2, <1>7 DEF sampled
  <2>2. WriteStages[7] = {aw} /\ WriteStages[6] = Members(aw_queue)
    BY <1>1, <1>7, WriteShape DEF Only
  <2>3. WriteStages'[6] = WriteStages[6] \cup {aw}
    BY <2>1, <2>2, MembersAppend, WriteShapeNext
  <2>4. /\ Ordered(WriteStages') /\ \A y \in WriteStages[6] : y < aw
    <3>1. 6 \in 1 .. 7 /\ 6 + 1 = 7
      OBVIOUS
    <3>2. \A j \in 1 .. 8 : j # 6 /\ j # 7 => WriteStages'[j] \subseteq WriteStages[j]
      BY <1>5
    <3>3. aw \in WriteStages[7] /\ \A y \in WriteStages[7] : aw <= y
      BY <2>1, <2>2
    <3> QED
      BY <1>5, <2>3, <3>1, <3>2, <3>3, WriteMove
  <2>5. Increasing(aw_queue')
    BY <2>1, <2>2, <2>4, MembersAppend DEF WriteFlow
  <2> QED
    BY <1>1, <1>3, <2>4, <2>5 DEF WriteFlow, Ordered, Increasing
<1> QED
  BY <1>6, <1>7

LEMMA WriteW ==
    ASSUME TypeInv, WriteFlow, w_task
    PROVE  WriteFlow'
<1>1. /\ UNCHANGED <<script, bgot, bvalid, b_ready, b_cur, aw, next_aw>>
      /\ "w" \in todo /\ todo' = todo \ {"w"}
  BY DEF w_task, Resumes, dutVars
<1>2. CASE UNCHANGED <<aw_queue, pending_b>>
  BY <1>1, <1>2, WriteFrame
<1>3. ASSUME w # None, aw_queue # << >>, aw_queue' = Tail(aw_queue),
             pending_b' = Append(pending_b, [aw |-> Head(aw_queue), beats |-> Append(beats, w)])
      PROVE  WriteFlow'
  <2> DEFINE x == Head(aw_queue)
             m == [aw |-> x, beats |-> Append(beats, w)]
  <2>1. /\ aw_queue \in Seq(Of("write")) /\ beats \in Seq(Beats) /\ w \in Beats \cup {None}
        /\ Of("write") \subseteq Nat
    BY ScriptFacts DEF TypeInv, TypeOK, ProxyTypeOK, DutTypeOK
  <2>2. x \in Of("write") /\ Append(beats, w) \in Seq(Beats)
    BY <1>3, <2>1, HeadTailProperties, AppendProperties
  <2>3. m \in WriteBursts /\ m.aw = x /\ pending_b' = Append(pending_b, m)
    BY <1>3, <2>2 DEF WriteBursts
  <2> HIDE DEF m
  <2>4. Requested' = Append(Requested, x) /\ Requested \in Seq(Nat) /\ x \in Nat
    <3>1. Addresses(Append(pending_b, m)) = Append(Requested, x) /\ Requested \in Seq(Nat)
      BY <2>3, RequestedFacts
    <3>2. Requested' = Addresses(pending_b')
      BY DEF Requested, Addresses
    <3> QED
      BY <2>1, <2>2, <2>3, <3>1, <3>2
  <2>5. aw_queue \in Seq(Nat) /\ Increasing(aw_queue) /\ Increasing(Requested)
    BY <2>1 DEF WriteFlow
  <2>6. /\ x \in Members(aw_queue) /\ (\A y \in Members(aw_queue) : x <= y)
        /\ Members(aw_queue') \subseteq Members(aw_queue) \ {x} /\ Increasing(aw_queue')
    BY <1>3, <2>5, MembersTail
  <2>7. From("write", next_aw)' = From("write", next_aw)
    BY <1>1, ScriptFixed DEF From
  <2>8. /\ WriteStages'[1] = WriteStages[1] /\ WriteStages'[2] = WriteStages[2]
        /\ WriteStages'[3] = WriteStages[3] /\ WriteStages'[4] = WriteStages[4]
        /\ WriteStages'[7] = WriteStages[7] /\ WriteStages'[8] = WriteStages[8]
    BY <1>1, <2>7, WriteShape, WriteShapeNext
  <2>9. WriteStages'[5] = WriteStages[5] \cup {x}
    BY <2>4, MembersAppend, WriteShape, WriteShapeNext
  <2> HIDE DEF x
  <2>10. Ordered(WriteStages') /\ \A y \in WriteStages[5] : y < x
    <3>1. 5 \in 1 .. 7 /\ 5 + 1 = 6
      OBVIOUS
    <3>2. \A j \in 1 .. 8 : j # 5 /\ j # 6 => WriteStages'[j] \subseteq WriteStages[j]
      BY <2>8
    <3>3. /\ x \in WriteStages[6] /\ (\A y \in WriteStages[6] : x <= y)
          /\ WriteStages'[6] \subseteq WriteStages[6] \ {x}
      BY <2>6, WriteShape, WriteShapeNext
    <3> QED
      BY <2>9, <3>1, <3>2, <3>3, WriteMove
  <2>11. Increasing(Requested')
    BY <2>4, <2>5, <2>10, MembersAppend, WriteShape
  <2> QED
    BY <1>1, <2>6, <2>10, <2>11 DEF WriteFlow, Ordered, Increasing
<1> QED
  BY <1>2, <1>3 DEF w_task, LastBeat

LEMMA WriteB ==
    ASSUME TypeInv, WriteFlow, Scheduled, b_task
    PROVE  WriteFlow'
<1>1. /\ UNCHANGED <<script, bgot, bvalid, aw_queue, aw, next_aw>>
      /\ todo' \in {todo, todo \ {"b"}}
  BY DEF b_task, Resumes, dutVars
<1>2. /\ Of("write") \subseteq Nat /\ b_ready \in Seq(Of("write"))
      /\ b_cur \in Of("write") \cup {None} /\ (b = "wait" <=> b_cur # None)
      /\ None \notin Of("write")
  BY ScriptFacts, NoneIsNoValue DEF TypeInv, TypeOK, ProxyTypeOK, AtWork
<1>3. From("write", next_aw)' = From("write", next_aw)
  BY <1>1, ScriptFixed DEF From
<1>4. /\ WriteStages'[1] = WriteStages[1] /\ WriteStages'[2] = WriteStages[2]
      /\ WriteStages'[6] = WriteStages[6]
      /\ WriteStages'[7] = WriteStages[7] /\ WriteStages'[8] = WriteStages[8]
  BY <1>1, <1>3, WriteShape, WriteShapeNext
<1>5. CASE b = "look" /\ pending_b # << >>
  <2> DEFINE x == Head(pending_b).aw
  <2>2. /\ pending_b' = Tail(pending_b) /\ b_cur' = x /\ UNCHANGED b_ready /\ b_cur = None
    BY <1>2, <1>5 DEF b_task, b_sent
  <2>4. x \in Of("write") /\ x \in Nat /\ x # None
    BY <1>2, <1>5, RequestedFacts
  <2>5. /\ Requested \in Seq(Nat) /\ Requested # << >> /\ Head(Requested) = x
        /\ Addresses(Tail(pending_b)) = Tail(Requested)
    BY <1>5, RequestedFacts
  <2>6. Requested' = Tail(Requested)
    BY <2>2, <2>5 DEF Requested, Addresses
  <2>7. /\ x \in Members(Requested) /\ (\A y \in Members(Requested) : x <= y)
        /\ Members(Requested') \subseteq Members(Requested) \ {x} /\ Increasing(Requested')
    BY <2>5, <2>6, MembersTail DEF WriteFlow
  <2> HIDE DEF x
  <2>8. WriteStages[4] = {} /\ WriteStages'[4] = {x} /\ WriteStages'[3] = WriteStages[3]
    BY <2>2, <2>4, WriteShape, WriteShapeNext DEF Only
  <2>9. Ordered(WriteStages')
    <3>1. 4 \in 1 .. 7 /\ 4 + 1 = 5
      OBVIOUS
    <3>2. \A j \in 1 .. 8 : j # 4 /\ j # 5 => WriteStages'[j] \subseteq WriteStages[j]
      BY <1>4, <2>8
    <3>3. /\ x \in WriteStages[5] /\ (\A y \in WriteStages[5] : x <= y)
          /\ WriteStages'[5] \subseteq WriteStages[5] \ {x}
      BY <2>7, WriteShape, WriteShapeNext
    <3> QED
      BY <2>8, <3>1, <3>2, <3>3, WriteMove
  <2> QED
    BY <1>1, <2>2, <2>7, <2>9 DEF WriteFlow, Ordered, Increasing
<1>6. CASE b = "wait" /\ pending[b_cur] # None
  <2>1. /\ b_cur' = None /\ b_ready' = Append(b_ready, b_cur) /\ UNCHANGED pending_b
        /\ b_cur \in Of("write") /\ b_cur \in Nat /\ b_cur # None
    BY <1>2, <1>6 DEF b_task
  <2>2. Requested' = Requested /\ b_ready \in Seq(Nat)
    BY <1>2, <2>1 DEF Requested, Addresses
  <2>3. /\ WriteStages[4] = {b_cur} /\ WriteStages'[4] = {}
        /\ WriteStages'[5] = WriteStages[5] /\ WriteStages[3] = Members(b_ready)
    BY <2>1, <2>2, WriteShape, WriteShapeNext DEF Only
  <2>4. WriteStages'[3] = WriteStages[3] \cup {b_cur}
    BY <2>1, <2>2, <2>3, MembersAppend, WriteShapeNext
  <2>5. Ordered(WriteStages') /\ \A y \in WriteStages[3] : y < b_cur
    <3>1. 3 \in 1 .. 7 /\ 3 + 1 = 4
      OBVIOUS
    <3>2. \A j \in 1 .. 8 : j # 3 /\ j # 4 => WriteStages'[j] \subseteq WriteStages[j]
      BY <1>4, <2>3
    <3>3. b_cur \in WriteStages[4] /\ \A y \in WriteStages[4] : b_cur <= y
      BY <2>1, <2>3
    <3> QED
      BY <2>3, <2>4, <3>1, <3>2, <3>3, WriteMove
  <2>6. Increasing(b_ready')
    BY <2>1, <2>2, <2>3, <2>5, MembersAppend DEF WriteFlow
  <2> QED
    BY <1>1, <2>2, <2>5, <2>6 DEF WriteFlow, Ordered, Increasing
<1>7. CASE UNCHANGED <<b_ready, b_cur, pending_b>>
  BY <1>1, <1>7, WriteFrame
<1> QED
  BY <1>5, <1>6, <1>7 DEF b_task

LEMMA WriteBDrive ==
    ASSUME TypeInv, WriteFlow, Scheduled, Steady, b_drive_task
    PROVE  WriteFlow'
<1>1. /\ UNCHANGED <<script, bgot, b_cur, pending_b, aw_queue, aw, next_aw>>
      /\ bready = TRUE
  BY DEF b_drive_task, dutVars, Steady
<1>2. /\ Of("write") \subseteq Nat /\ b_ready \in Seq(Of("write")) /\ None \notin Of("write")
      /\ (bd = "hold" <=> bvalid # None)
  BY ScriptFacts, NoneIsNoValue DEF TypeInv, TypeOK, ProxyTypeOK, AtWork
<1>3. /\ Requested' = Requested /\ From("write", next_aw)' = From("write", next_aw)
  BY <1>1, ScriptFixed DEF Requested, Addresses, From
<1>4. CASE bd = "look" /\ b_ready # << >>
  <2> DEFINE x == Head(b_ready)
  <2>1. /\ bvalid' = x /\ b_ready' = Tail(b_ready) /\ todo' = todo
        /\ bvalid = None /\ "bd" \notin todo
    BY <1>2, <1>4 DEF b_drive_task, Scheduled
  <2>2. b_ready \in Seq(Nat) /\ x \in Of("write") /\ x \in Nat /\ x # None
    BY <1>2, <1>4, HeadTailProperties
  <2>3. /\ x \in Members(b_ready) /\ (\A y \in Members(b_ready) : x <= y)
        /\ Members(b_ready') \subseteq Members(b_ready) \ {x} /\ Increasing(b_ready')
    BY <1>4, <2>1, <2>2, MembersTail DEF WriteFlow
  <2> HIDE DEF x
  <2>4. /\ WriteStages[2] = {} /\ WriteStages'[2] = {x}
    BY <2>1, <2>2, WriteShape, WriteShapeNext DEF Only
  <2>5. /\ WriteStages'[1] = WriteStages[1] /\ WriteStages'[4] = WriteStages[4]
        /\ WriteStages'[5] = WriteStages[5] /\ WriteStages'[6] = WriteStages[6]
        /\ WriteStages'[7] = WriteStages[7] /\ WriteStages'[8] = WriteStages[8]
    BY <1>1, <1>3, <2>1, WriteShape, WriteShapeNext
  <2>6. Ordered(WriteStages')
    <3>1. 2 \in 1 .. 7 /\ 2 + 1 = 3
      OBVIOUS
    <3>2. \A j \in 1 .. 8 : j # 2 /\ j # 3 => WriteStages'[j] \subseteq WriteStages[j]
      BY <2>5
    <3>3. /\ x \in WriteStages[3] /\ (\A y \in WriteStages[3] : x <= y)
          /\ WriteStages'[3] \subseteq WriteStages[3] \ {x}
      BY <2>3, WriteShape, WriteShapeNext
    <3> QED
      BY <2>4, <3>1, <3>2, <3>3, WriteMove
  <2> QED
    BY <1>1, <1>3, <2>1, <2>3, <2>6 DEF WriteFlow, Ordered, Increasing
<1>5. CASE ~(bd = "look" /\ b_ready # << >>)
  <2>1. /\ UNCHANGED b_ready /\ ("aw" \in todo' <=> "aw" \in todo)
        /\ bvalid' \in {bvalid, None}
        /\ "bd" \in todo' => "bd" \in todo /\ bvalid' = bvalid
        /\ "bd" \in todo /\ "bd" \notin todo' => bvalid' = None
    BY <1>1, <1>2, <1>5 DEF b_drive_task, next_edge, Resumes
  <2>2. WriteStages'[2] \subseteq WriteStages[2]
    BY <2>1, WriteShape, WriteShapeNext DEF Only
  <2>3. /\ WriteStages'[1] = WriteStages[1] /\ WriteStages'[4] = WriteStages[4]
        /\ WriteStages'[5] = WriteStages[5] /\ WriteStages'[6] = WriteStages[6]
        /\ WriteStages'[7] = WriteStages[7] /\ WriteStages'[8] = WriteStages[8]
        /\ WriteStages'[3] = WriteStages[3]
    BY <1>1, <1>3, <2>1, WriteShape, WriteShapeNext
  <2>4. \A j \in DOMAIN WriteStages : WriteStages'[j] \subseteq WriteStages[j]
    BY <2>2, <2>3, WriteShape
  <2>5. Ordered(WriteStages')
    BY <2>4, OrderedShrink, WriteShape, WriteShapeNext DEF WriteFlow
  <2> QED
    BY <1>1, <1>3, <2>1, <2>5 DEF WriteFlow, Ordered, Increasing
<1> QED
  BY <1>4, <1>5

LEMMA WriteEdge ==
    ASSUME TypeInv, WriteFlow, Steady, RisingEdge
    PROVE  WriteFlow'
<1>1. /\ UNCHANGED <<script, bvalid, b_ready, b_cur, pending_b, aw_queue>>
      /\ todo = {} /\ todo' = Tasks /\ script \in Scripts
      /\ bgot' = IF bvalid # None THEN Append(bgot, bvalid) ELSE bgot
  BY DEF RisingEdge, Idle, Steady, proxyVars, TypeInv, TypeOK
<1>2. /\ bgot \in Seq(Of("write")) /\ bvalid \in Of("write") \cup {None}
      /\ next_aw \in Of("write") \cup {None} /\ Of("write") \subseteq Nat
  BY ScriptFacts DEF TypeInv, TypeOK, ProxyTypeOK, DutTypeOK
<1>3. Requested' = Requested
  BY <1>1 DEF Requested, Addresses
\* The response on B is taken.
<1> DEFINE mid == [j \in 1 .. 8 |-> CASE j = 1 -> WriteStages[1] \cup Only(bvalid)
                                      [] j = 2 -> {}
                                      [] OTHER -> WriteStages[j]]
<1>4. /\ DOMAIN mid = 1 .. 8 /\ mid[1] = WriteStages[1] \cup Only(bvalid) /\ mid[2] = {}
      /\ \A j \in 1 .. 8 : j # 1 /\ j # 2 => mid[j] = WriteStages[j]
  OBVIOUS
<1> HIDE DEF mid
<1>5. /\ Ordered(WriteStages) /\ DOMAIN WriteStages = 1 .. 8
      /\ \A j \in 1 .. 8 : WriteStages[j] \subseteq Nat
      /\ WriteStages[1] = Members(bgot) /\ WriteStages[2] = Only(bvalid)
  BY <1>1, WriteShape, WriteStageTypes DEF WriteFlow
<1>6. Ordered(mid) /\ \A y \in Members(bgot) : bvalid # None => y < bvalid
  <2>1. CASE bvalid = None
    <3>1. \A j \in DOMAIN WriteStages : mid[j] \subseteq WriteStages[j]
      BY <1>4, <1>5, <2>1 DEF Only
    <3> QED
      BY <1>4, <1>5, <2>1, <3>1, OrderedShrink
  <2>2. CASE bvalid # None
    <3>1. Only(bvalid) = {bvalid} /\ bvalid \in Nat
      BY <1>2, <2>2 DEF Only
    <3>2. 1 \in 1 .. 8 /\ 1 + 1 = 2 /\ 2 \in 1 .. 8 /\ 8 \in Nat
      OBVIOUS
    <3>3. /\ bvalid \in WriteStages[2] /\ (\A y \in WriteStages[2] : bvalid <= y)
          /\ mid[1] \subseteq WriteStages[1] \cup {bvalid}
          /\ mid[2] \subseteq WriteStages[2] \ {bvalid}
          /\ \A j \in 1 .. 8 : j # 1 /\ j # 2 => mid[j] \subseteq WriteStages[j]
      BY <1>4, <1>5, <3>1
    <3>4. Ordered(mid)
      BY <1>4, <1>5, <3>2, <3>3, OrderedMove, ZenonT(40)
    <3>5. \A y \in Members(bgot) : y < bvalid
      BY <1>5, <3>2, <3>3 DEF Ordered
    <3> QED
      BY <3>4, <3>5
  <2> QED
    BY <2>1, <2>2
<1>7. \A j \in 1 .. 8 : mid[j] \subseteq Nat
  BY <1>2, <1>4, <1>5 DEF Only
<1>8. /\ Increasing(bgot') /\ Members(bgot') = mid[1]
      /\ bvalid # None => bvalid \in Members(bgot')
  <2>1. CASE bvalid = None
    BY <1>1, <1>4, <1>5, <2>1 DEF WriteFlow, Only
  <2>2. CASE bvalid # None
    <3>1. bgot \in Seq(Nat) /\ bvalid \in Nat /\ bgot' = Append(bgot, bvalid)
          /\ Only(bvalid) = {bvalid} /\ Increasing(bgot)
      BY <1>1, <1>2, <2>2 DEF Only, WriteFlow
    <3> QED
      BY <1>4, <1>5, <1>6, <2>2, <3>1, MembersAppend
  <2> QED
    BY <2>1, <2>2
\* The next address is shown.
<1>9. "bd" \in todo' /\ "aw" \in todo'
  BY <1>1 DEF Tasks
<1>10. /\ WriteStages'[1] = mid[1] /\ WriteStages'[2] = mid[2] /\ WriteStages'[3] = mid[3]
       /\ WriteStages'[4] = mid[4] /\ WriteStages'[5] = mid[5] /\ WriteStages'[6] = mid[6]
       /\ WriteStages'[7] = Only(aw') /\ mid[7] = {} /\ mid[8] = From("write", next_aw)
       /\ WriteStages'[8] = From("write", next_aw)' /\ DOMAIN WriteStages' = 1 .. 8
  BY <1>1, <1>3, <1>4, <1>8, <1>9, WriteShape, WriteShapeNext
<1>11. Ordered(WriteStages')
  <2>1. CASE aw' = None /\ UNCHANGED next_aw
    <3>1. From("write", next_aw)' = From("write", next_aw)
      BY <1>1, <2>1, ScriptFixed DEF From
    <3>2. \A j \in DOMAIN mid : WriteStages'[j] \subseteq mid[j]
      BY <1>4, <1>10, <2>1, <3>1 DEF Only
    <3> QED
      BY <1>4, <1>6, <1>10, <3>2, OrderedShrink
  <2>2. CASE next_aw # None /\ aw' = next_aw /\ next_aw' = After("write", next_aw)
    <3>1. next_aw \in Of("write") /\ next_aw \in Nat
      BY <1>2, <2>2
    <3>2. next_aw' = None \/ (next_aw' \in Nat /\ next_aw' > next_aw)
      BY <1>1, <1>2, <2>2, <3>1, AfterFacts
    <3>3. WriteStages'[8] \subseteq mid[8] \ {next_aw}
      <4>1. WriteStages'[8] = IF next_aw' = None THEN {}
                              ELSE {n \in Of("write") : n >= next_aw'}
        BY <1>1, <1>10, ScriptFixed DEF From
      <4>2. mid[8] = {n \in Of("write") : n >= next_aw}
        BY <1>10, <2>2 DEF From
      <4> QED
        BY <1>2, <3>1, <3>2, <4>1, <4>2
    <3>4. next_aw \in mid[8] /\ \A y \in mid[8] : next_aw <= y
      BY <1>2, <1>10, <2>2, <3>1 DEF From
    <3>5. WriteStages'[7] \subseteq mid[7] \cup {next_aw}
      BY <1>10, <2>2 DEF Only
    <3>6. \A j \in 1 .. 8 : j # 7 /\ j # 8 => WriteStages'[j] \subseteq mid[j]
      BY <1>10
    <3>7. 7 \in 1 .. 8 /\ 7 + 1 = 8 /\ 8 \in 1 .. 8 /\ 8 \in Nat
      OBVIOUS
    <3>8. DOMAIN mid = 1 .. 8 /\ DOMAIN WriteStages' = 1 .. 8 /\ Ordered(mid)
      BY <1>4, <1>6, <1>10
    <3> DEFINE st2 == WriteStages'
    <3>9. /\ DOMAIN mid = 1 .. 8 /\ DOMAIN st2 = 1 .. 8 /\ Ordered(mid)
          /\ st2[7] \subseteq mid[7] \cup {next_aw} /\ st2[8] \subseteq mid[8] \ {next_aw}
          /\ \A j \in 1 .. 8 : j # 7 /\ j # 8 => st2[j] \subseteq mid[j]
      BY <3>3, <3>5, <3>6, <3>8
    <3> HIDE DEF st2
    <3>10. Ordered(st2)
      BY <1>7, <3>4, <3>7, <3>9, OrderedEnter
    <3> QED
      BY <3>10 DEF st2
  <2> QED
    BY <2>1, <2>2 DEF RisingEdge, ShowAW
<1>12. bvalid' # None => \E i \in DOMAIN bgot' : bgot'[i] = bvalid'
  BY <1>1, <1>8 DEF Members
<1> QED
  BY <1>1, <1>3, <1>8, <1>11, <1>12 DEF WriteFlow, Ordered, Increasing

LEMMA WriteStep ==
    ASSUME TypeInv, WriteFlow, Scheduled, Steady, Next
    PROVE  WriteFlow'
<1>1. CASE ar_task \/ r_task
  <2>1. /\ UNCHANGED <<script, bgot, bvalid, b_ready, b_cur, pending_b, aw_queue, aw, next_aw>>
        /\ todo' \in {todo, todo \ {"ar"}, todo \ {"r"}}
    BY <1>1 DEF ar_task, r_task, r_hold, next_edge, Resumes, dutVars
  <2> QED
    BY <2>1, WriteFrame
<1>2. CASE axi_monitor \/ Gem5Access \/ deliver
  <2>1. /\ UNCHANGED <<script, bgot, bvalid, b_ready, b_cur, pending_b, aw_queue, aw, next_aw>>
        /\ todo' \in {todo, todo \ {"mon"}}
    BY <1>2 DEF axi_monitor, Gem5Access, deliver, dutVars, proxyVars
  <2> QED
    BY <2>1, WriteFrame
<1> QED
  BY <1>1, <1>2, WriteAw, WriteW, WriteB, WriteBDrive, WriteEdge DEF Next

\* The order of the coroutines, and a DUT that is always ready.
LEMMA ScheduledStep ==
    ASSUME TypeInv, Scheduled, Next
    PROVE  Scheduled'
<1>1. CASE aw_task \/ w_task \/ ar_task
  BY <1>1 DEF aw_task, w_task, ar_task, Resumes, Scheduled
<1>2. CASE b_task
  BY <1>2 DEF b_task, b_sent, Resumes, Scheduled
<1>3. CASE b_drive_task
  BY <1>3 DEF b_drive_task, next_edge, Resumes, Scheduled
<1>4. CASE r_task
  BY <1>4 DEF r_task, r_hold, next_edge, Resumes, Scheduled
<1>5. CASE axi_monitor \/ Gem5Access \/ deliver
  BY <1>5 DEF axi_monitor, Gem5Access, deliver, proxyVars, Scheduled
<1>6. CASE RisingEdge
  BY <1>6 DEF RisingEdge, Idle, proxyVars, Scheduled
<1> QED
  BY <1>1, <1>2, <1>3, <1>4, <1>5, <1>6 DEF Next

LEMMA SteadyStep ==
    ASSUME KeepsReady, Steady, Next
    PROVE  Steady'
<1>1. Readies = {TRUE}
  BY DEF Readies
<1>2. CASE RisingEdge
  BY <1>1, <1>2 DEF RisingEdge, Steady
<1>3. CASE ~RisingEdge
  <2>1. UNCHANGED dutVars
    BY <1>3 DEF Next, aw_task, w_task, b_task, b_drive_task, ar_task, r_task, axi_monitor,
                Gem5Access, deliver
  <2> QED
    BY <2>1 DEF dutVars, Steady
<1> QED
  BY <1>2, <1>3

-------------------------------------------------------------------------------
(***************************************************************************)
(* The read channel.                                                       *)
(***************************************************************************)
LEMMA ReadShape ==
    /\ DOMAIN ReadStages = 1 .. 5
    /\ ReadStages[1] = Finished
    /\ ReadStages[2] = IF r \in {"wait", "hold"} THEN {r_cur} ELSE {}
    /\ ReadStages[3] = Members(ar_queue)
    /\ ReadStages[4] = IF "ar" \in todo THEN Only(ar) ELSE {}
    /\ ReadStages[5] = From("read", next_ar)
  BY DEF ReadStages

LEMMA ReadShapeNext ==
    /\ DOMAIN ReadStages' = 1 .. 5
    /\ ReadStages'[1] = Finished'
    /\ ReadStages'[2] = IF r' \in {"wait", "hold"} THEN {r_cur'} ELSE {}
    /\ ReadStages'[3] = Members(ar_queue')
    /\ ReadStages'[4] = IF "ar" \in todo' THEN Only(ar') ELSE {}
    /\ ReadStages'[5] = From("read", next_ar)'
  BY DEF ReadStages, Members, Only

LEMMA ReadFacts ==
    ASSUME TypeInv
    PROVE  /\ script \in Scripts /\ Of("read") \subseteq Nat /\ None \notin Nat
           /\ rgot \in Seq(Responses) /\ \A i \in DOMAIN rgot : rgot[i].n \in Nat
           /\ ar_queue \in Seq(Nat)
           /\ ar \in Of("read") \cup {None} /\ next_ar \in Of("read") \cup {None}
           /\ r_cur \in Of("read") \cup {None} /\ (r \in {"wait", "hold"} => r_cur \in Nat)
           /\ r_beat \in Nat
<1>1. script \in Scripts /\ Of("read") \subseteq Nat /\ None \notin Nat
  BY ScriptFacts, NoneIsNoValue DEF TypeInv, TypeOK
<1>2. /\ rgot \in Seq(Responses) /\ ar_queue \in Seq(Of("read"))
      /\ ar \in Of("read") \cup {None} /\ next_ar \in Of("read") \cup {None}
      /\ r_cur \in Of("read") \cup {None} /\ (r \in {"wait", "hold"} => r_cur # None)
      /\ r_beat \in Nat
  BY DEF TypeInv, TypeOK, ProxyTypeOK, DutTypeOK, AtWork
<1>3. \A x \in Responses : x.n \in Nat
  BY <1>1 DEF Responses, Response
<1>4. \A i \in DOMAIN rgot : rgot[i] \in Responses
  BY <1>2, LenProperties, ElementOfSeq
<1>5. ar_queue \in Seq(Nat)
  BY <1>1, <1>2
<1> QED
  BY <1>1, <1>2, <1>3, <1>4, <1>5

LEMMA ReadStageTypes ==
    ASSUME TypeInv
    PROVE  \A j \in 1 .. 5 : ReadStages[j] \subseteq Nat
<1>1. Finished \subseteq Nat
  BY ReadFacts DEF Finished
<1>2. Members(ar_queue) \subseteq Nat
  BY ReadFacts, MembersType
<1>3. Only(ar) \subseteq Nat /\ From("read", next_ar) \subseteq Nat
  BY ReadFacts DEF Only, From
<1>4. ReadStages[2] \subseteq Nat
  <2>1. CASE r \in {"wait", "hold"}
    BY <2>1, ReadFacts, ReadShape
  <2>2. CASE r \notin {"wait", "hold"}
    BY <2>2, ReadShape
  <2> QED
    BY <2>1, <2>2
<1>5. ReadStages[4] \subseteq Nat
  BY <1>3, ReadShape
<1>6. ReadStages[1] \subseteq Nat /\ ReadStages[3] \subseteq Nat /\ ReadStages[5] \subseteq Nat
  BY <1>1, <1>2, <1>3, ReadShape
<1>7. \A j \in 1 .. 5 : j = 1 \/ j = 2 \/ j = 3 \/ j = 4 \/ j = 5
  OBVIOUS
<1> QED
  BY <1>4, <1>5, <1>6, <1>7

LEMMA ReadFrame ==
    ASSUME ReadFlow, script' = script,
           UNCHANGED <<rgot, r, r_cur, r_beat, ar_queue, ar, next_ar>>,
           "r" \in todo' <=> "r" \in todo, "ar" \in todo' <=> "ar" \in todo
    PROVE  ReadFlow'
<1>1. From("read", next_ar)' = From("read", next_ar)
  BY ScriptFixed DEF From
<1>2. Finished' = Finished /\ Taken(r_cur)' = Taken(r_cur)
  BY DEF Finished, Taken, BeatsOf
<1>3. ReadStages' = ReadStages
  BY <1>1, <1>2 DEF ReadStages, Members, Only
<1>4. NBeats(r_cur)' = NBeats(r_cur)
  BY ScriptFixed DEF NBeats
<1> QED
  BY <1>2, <1>3, <1>4 DEF ReadFlow, Ordered, Increasing

LEMMA ReadMove ==
    ASSUME TypeInv, ReadFlow, NEW k \in 1 .. 4, NEW l \in 1 .. 5, l = k + 1,
           \A j \in 1 .. 5 : j # k /\ j # l => ReadStages'[j] \subseteq ReadStages[j],
           NEW x \in ReadStages[l], \A y \in ReadStages[l] : x <= y,
           ReadStages'[k] \subseteq ReadStages[k] \cup {x},
           ReadStages'[l] \subseteq ReadStages[l] \ {x}
    PROVE  /\ Ordered(ReadStages')
           /\ \A y \in ReadStages[k] : y < x
<1>1. k \in 1 .. 5 /\ k < l /\ 5 \in Nat
  OBVIOUS
<1>2. DOMAIN ReadStages = 1 .. 5 /\ DOMAIN ReadStages' = 1 .. 5
  BY ReadShape, ReadShapeNext
<1>3. \A j \in 1 .. 5 : ReadStages[j] \subseteq Nat
  BY ReadStageTypes
<1>4. Ordered(ReadStages)
  BY DEF ReadFlow
<1>5. Ordered(ReadStages')
  BY <1>1, <1>2, <1>3, <1>4, OrderedMove
<1>6. \A y \in ReadStages[k] : y < x
  BY <1>1, <1>2, <1>4 DEF Ordered
<1> QED
  BY <1>5, <1>6

LEMMA ReadAr ==
    ASSUME TypeInv, ReadFlow, ar_task
    PROVE  ReadFlow'
<1>1. /\ UNCHANGED <<script, rgot, r, r_cur, r_beat, ar, next_ar>>
      /\ ar_queue' = sampled(ar_queue, ar) /\ "ar" \in todo /\ todo' = todo \ {"ar"}
  BY DEF ar_task, Resumes, dutVars
<1>2. /\ From("read", next_ar)' = From("read", next_ar)
      /\ Finished' = Finished /\ Taken(r_cur)' = Taken(r_cur) /\ NBeats(r_cur)' = NBeats(r_cur)
  BY <1>1, ScriptFixed DEF From, Finished, Taken, BeatsOf, NBeats
<1>3. /\ ReadStages'[1] = ReadStages[1] /\ ReadStages'[2] = ReadStages[2]
      /\ ReadStages'[5] = ReadStages[5] /\ ReadStages'[4] = {}
  BY <1>1, <1>2, ReadShape, ReadShapeNext
<1>4. Ordered(ReadStages') /\ Increasing(ar_queue')
  <2>1. CASE ar = None
    <3>1. ar_queue' = ar_queue
      BY <1>1, <2>1 DEF sampled
    <3>2. \A j \in DOMAIN ReadStages : ReadStages'[j] \subseteq ReadStages[j]
      BY <1>3, <3>1, ReadShape, ReadShapeNext
    <3> QED
      BY <3>1, <3>2, OrderedShrink, ReadShape, ReadShapeNext DEF ReadFlow
  <2>2. CASE ar # None
    <3>1. ar \in Nat /\ ar_queue \in Seq(Nat) /\ ar_queue' = Append(ar_queue, ar)
      BY <1>1, <2>2, ReadFacts DEF sampled
    <3>2. ReadStages[4] = {ar} /\ ReadStages[3] = Members(ar_queue)
      BY <1>1, <2>2, ReadShape DEF Only
    <3>3. ReadStages'[3] = ReadStages[3] \cup {ar}
      BY <3>1, <3>2, MembersAppend, ReadShapeNext
    <3>4. 3 \in 1 .. 4 /\ 4 \in 1 .. 5 /\ 4 = 3 + 1
      OBVIOUS
    <3>5. \A j \in 1 .. 5 : j # 3 /\ j # 4 => ReadStages'[j] \subseteq ReadStages[j]
      BY <1>3
    <3>6. ar \in ReadStages[4] /\ \A y \in ReadStages[4] : ar <= y
      BY <3>1, <3>2
    <3>7. ReadStages'[4] \subseteq ReadStages[4] \ {ar}
      BY <1>3
    <3>8. Ordered(ReadStages') /\ \A y \in ReadStages[3] : y < ar
      BY <3>3, <3>4, <3>5, <3>6, <3>7, ReadMove
    <3> QED
      BY <3>1, <3>2, <3>8, MembersAppend DEF ReadFlow
  <2> QED
    BY <2>1, <2>2
<1> QED
  BY <1>1, <1>2, <1>4 DEF ReadFlow, Ordered, Increasing

\* While nothing is on R, every beat taken is of a read that is finished.
LEMMA FinishedAll ==
    ASSUME r # "hold"
    PROVE  Finished = {rgot[i].n : i \in DOMAIN rgot}
  BY DEF Finished

LEMMA ReadR ==
    ASSUME TypeInv, ReadFlow, Steady, Scheduled, r_task
    PROVE  ReadFlow'
<1>1. UNCHANGED <<script, rgot, ar, next_ar>> /\ todo' \in {todo, todo \ {"r"}}
  BY DEF r_task, r_hold, next_edge, Resumes, dutVars
<1>2. /\ From("read", next_ar)' = From("read", next_ar)
      /\ \A n : NBeats(n)' = NBeats(n)
  BY <1>1, ScriptFixed DEF From
<1>3. ReadStages'[4] = ReadStages[4] /\ ReadStages'[5] = ReadStages[5]
  BY <1>1, <1>2, ReadShape, ReadShapeNext
<1>4. DOMAIN ReadStages = 1 .. 5 /\ DOMAIN ReadStages' = 1 .. 5 /\ Ordered(ReadStages)
  BY ReadShape, ReadShapeNext DEF ReadFlow
<1>5. Increasing(ar_queue) /\ \A i, j \in DOMAIN rgot' :
         i < j => \/ rgot'[i].n < rgot'[j].n
                  \/ rgot'[i].n = rgot'[j].n /\ ~rgot'[i].last
  BY <1>1 DEF ReadFlow
\* Neither before nor after does r_task drive the pins.
<1>6. CASE r \in {"look", "poll"} /\ r' \in {"look", "poll"} /\ UNCHANGED ar_queue
  <2>1. Finished' = Finished
    BY <1>1, <1>6 DEF Finished
  <2>2. \A j \in DOMAIN ReadStages : ReadStages'[j] \subseteq ReadStages[j]
    BY <1>3, <1>6, <2>1, ReadShape, ReadShapeNext
  <2>3. Ordered(ReadStages')
    BY <1>4, <2>2, OrderedShrink
  <2> QED
    BY <1>5, <1>6, <2>3 DEF ReadFlow, Ordered, Increasing
\* The first request in the queue is sent.
<1>7. CASE /\ r = "look" /\ ar_queue # << >> /\ r' = "wait"
           /\ r_cur' = Head(ar_queue) /\ ar_queue' = Tail(ar_queue)
  <2>1. /\ Head(ar_queue) \in Members(ar_queue)
        /\ \A y \in Members(ar_queue) : Head(ar_queue) <= y
        /\ Members(Tail(ar_queue)) \subseteq Members(ar_queue) \ {Head(ar_queue)}
        /\ Increasing(Tail(ar_queue))
    BY <1>5, <1>7, ReadFacts, MembersTail
  <2>2. Finished' = Finished
    BY <1>1, <1>7 DEF Finished
  <2>3. /\ ReadStages'[2] = {Head(ar_queue)} /\ ReadStages[2] = {}
        /\ ReadStages[3] = Members(ar_queue) /\ ReadStages'[3] = Members(Tail(ar_queue))
        /\ ReadStages'[1] = ReadStages[1]
    BY <1>7, <2>2, ReadShape, ReadShapeNext
  <2>4. 2 \in 1 .. 4 /\ 3 \in 1 .. 5 /\ 3 = 2 + 1
    OBVIOUS
  <2>5. \A j \in 1 .. 5 : j # 2 /\ j # 3 => ReadStages'[j] \subseteq ReadStages[j]
    BY <1>3, <2>3
  <2>6. /\ Head(ar_queue) \in ReadStages[3] /\ \A y \in ReadStages[3] : Head(ar_queue) <= y
    BY <2>1, <2>3
  <2>7. /\ ReadStages'[2] \subseteq ReadStages[2] \cup {Head(ar_queue)}
        /\ ReadStages'[3] \subseteq ReadStages[3] \ {Head(ar_queue)}
    BY <2>1, <2>3
  <2>8. Ordered(ReadStages')
    BY <2>4, <2>5, <2>6, <2>7, ReadMove
  <2>9. Increasing(ar_queue)'
    BY <1>7, <2>1 DEF Increasing
  <2> QED
    BY <1>5, <1>7, <2>8, <2>9 DEF ReadFlow, Ordered
\* No completion yet.
<1>8. CASE r = "wait" /\ UNCHANGED <<r, r_cur, ar_queue>>
  <2>1. Finished' = Finished
    BY <1>1, <1>8 DEF Finished
  <2>2. \A j \in DOMAIN ReadStages : ReadStages'[j] \subseteq ReadStages[j]
    BY <1>3, <1>8, <2>1, ReadShape, ReadShapeNext
  <2>3. Ordered(ReadStages')
    BY <1>4, <2>2, OrderedShrink
  <2> QED
    BY <1>5, <1>8, <2>3 DEF ReadFlow, Ordered, Increasing
\* The first beat: the DUT has none of this read.
<1>9. CASE /\ r = "wait" /\ r' = "hold" /\ r_beat' = 1 /\ "r" \notin todo'
           /\ UNCHANGED <<r_cur, ar_queue>>
  <2>1. Finished = {rgot[i].n : i \in DOMAIN rgot} /\ r_cur \in Nat
    BY <1>9, FinishedAll, ReadFacts
  <2>2. \A y \in Finished : y < r_cur
    <3>1. 1 \in DOMAIN ReadStages /\ 2 \in DOMAIN ReadStages /\ 1 < 2
      BY <1>4
    <3>2. ReadStages[1] = Finished /\ r_cur \in ReadStages[2]
      BY <1>9, ReadShape
    <3> QED
      BY <1>4, <3>1, <3>2 DEF Ordered
  <2>3. \A i \in DOMAIN rgot : rgot[i].n # r_cur
    <3> SUFFICES ASSUME NEW i \in DOMAIN rgot PROVE rgot[i].n # r_cur
      OBVIOUS
    <3>1. rgot[i].n \in Finished
      BY <2>1
    <3>2. ~(r_cur < r_cur)
      BY <2>1
    <3> QED
      BY <2>2, <3>1, <3>2
  <2>4. Finished' \subseteq Finished
    BY <1>1, <2>1 DEF Finished
  <2>5. \A j \in DOMAIN ReadStages : ReadStages'[j] \subseteq ReadStages[j]
    BY <1>3, <1>9, <2>4, ReadShape, ReadShapeNext
  <2>6. Ordered(ReadStages')
    BY <1>4, <2>5, OrderedShrink
  <2>7. Taken(r_cur)' = 0
    <3>1. {i \in DOMAIN rgot' : rgot'[i].n = r_cur'} = {}
      BY <1>1, <1>9, <2>3
    <3> QED
      BY <3>1, FS_EmptySet DEF Taken, BeatsOf
  <2> QED
    BY <1>1, <1>5, <1>9, <2>3, <2>6, <2>7 DEF ReadFlow, Ordered, Increasing
\* The next beat.
<1>10. CASE /\ r = "hold" /\ "r" \in todo /\ todo' = todo \ {"r"} /\ r_beat < NBeats(r_cur)
            /\ r_beat' = r_beat + 1 /\ UNCHANGED <<r, r_cur, ar_queue>>
  <2>1. Finished' = Finished /\ Taken(r_cur)' = Taken(r_cur)
    BY <1>1, <1>10 DEF Finished, Taken, BeatsOf
  <2>2. \A j \in DOMAIN ReadStages : ReadStages'[j] \subseteq ReadStages[j]
    BY <1>3, <1>10, <2>1, ReadShape, ReadShapeNext
  <2>3. Ordered(ReadStages')
    BY <1>4, <2>2, OrderedShrink
  <2>4. Taken(r_cur)' = IF "r" \in todo' THEN r_beat' ELSE r_beat' - 1
    BY <1>10, <2>1, ReadFacts DEF ReadFlow
  <2>5. \A i \in DOMAIN rgot' : ~(rgot'[i].n = r_cur' /\ rgot'[i].last)
    <3>1. r_beat # NBeats(r_cur)
      BY <1>10, ReadFacts, ScriptFacts
    <3> QED
      BY <1>1, <1>10, <3>1 DEF ReadFlow
  <2> QED
    <3>1. Increasing(ar_queue)'
      BY <1>5, <1>10 DEF Increasing
    <3>2. r' = "hold" =>
            /\ Taken(r_cur)' = IF "r" \in todo' THEN r_beat' ELSE r_beat' - 1
            /\ \A i \in DOMAIN rgot' :
                  rgot'[i].n = r_cur' /\ rgot'[i].last => "r" \in todo' /\ r_beat' = NBeats(r_cur)'
      BY <2>4, <2>5
    <3> QED
      BY <1>5, <2>3, <3>1, <3>2 DEF ReadFlow, Ordered
\* The read is done.
<1>11. CASE /\ r = "hold" /\ r' = "look" /\ UNCHANGED <<r_cur, ar_queue>>
  <2>1. Finished' \subseteq Finished \cup {r_cur}
    BY <1>1, <1>11 DEF Finished
  <2>2. r_cur \in Nat
    BY <1>11, ReadFacts
  <2>3. /\ ReadStages'[2] = {} /\ ReadStages[2] = {r_cur} /\ ReadStages'[3] = ReadStages[3]
        /\ ReadStages[1] = Finished /\ ReadStages'[1] = Finished'
    BY <1>11, ReadShape, ReadShapeNext
  <2>4. 1 \in 1 .. 4 /\ 2 \in 1 .. 5 /\ 2 = 1 + 1
    OBVIOUS
  <2>5. \A j \in 1 .. 5 : j # 1 /\ j # 2 => ReadStages'[j] \subseteq ReadStages[j]
    BY <1>3, <2>3
  <2>6. r_cur \in ReadStages[2] /\ \A y \in ReadStages[2] : r_cur <= y
    BY <2>2, <2>3
  <2>7. /\ ReadStages'[1] \subseteq ReadStages[1] \cup {r_cur}
        /\ ReadStages'[2] \subseteq ReadStages[2] \ {r_cur}
    BY <2>1, <2>3
  <2>8. Ordered(ReadStages')
    BY <2>4, <2>5, <2>6, <2>7, ReadMove
  <2> QED
    BY <1>5, <1>11, <2>8 DEF ReadFlow, Ordered, Increasing
<1>12. CASE r_hold
  BY <1>10, <1>11, <1>12 DEF r_hold, next_edge, Resumes, Steady
<1>13. CASE r = "wait" /\ Resumes("r")
  <2>1. "r" \notin todo'
    BY <1>13 DEF Resumes
  <2> QED
    BY <1>8, <1>9, <1>13, <2>1 DEF r_task, r_hold
<1> QED
  BY <1>6, <1>7, <1>12, <1>13 DEF r_task, ar_next

\* The beat on R is taken: it is the read's next.
LEMMA ReadEdge ==
    ASSUME TypeInv, ReadFlow, Steady, RisingEdge
    PROVE  ReadFlow'
<1>1. /\ UNCHANGED <<script, r, r_cur, r_beat, ar_queue>> /\ todo = {} /\ todo' = Tasks
      /\ rgot' = IF rvalid # None THEN Append(rgot, rvalid) ELSE rgot
  BY DEF RisingEdge, Idle, Steady, proxyVars
<1>2. "r" \notin todo /\ "ar" \notin todo /\ "r" \in todo' /\ "ar" \in todo'
      /\ NBeats(r_cur)' = NBeats(r_cur)
  BY <1>1, ScriptFixed DEF Tasks, NBeats
<1>3. /\ \A i, j \in DOMAIN rgot : i < j => \/ rgot[i].n < rgot[j].n
                                            \/ rgot[i].n = rgot[j].n /\ ~rgot[i].last
      /\ r = "hold" => /\ Taken(r_cur) = r_beat - 1
                       /\ \A i \in DOMAIN rgot : ~(rgot[i].n = r_cur /\ rgot[i].last)
  BY <1>2 DEF ReadFlow
<1>4. /\ r # "hold" => rvalid = None
      /\ r = "hold" => /\ rvalid # None /\ rvalid \in Responses /\ rvalid.n = r_cur
                       /\ rvalid.last = (r_beat = NBeats(r_cur))
  <2>1. r # "hold" => rvalid = None
    BY DEF TypeInv, AtWork
  <2>2. ASSUME r = "hold"
        PROVE  /\ rvalid # None /\ rvalid \in Responses /\ rvalid.n = r_cur
               /\ rvalid.last = (r_beat = NBeats(r_cur))
    <3>1. /\ script \in Scripts /\ r_cur \in Of("read") /\ r_data \in Seq(Blank)
          /\ Len(r_data) = NBeats(r_cur) /\ r_beat \in 1 .. NBeats(r_cur)
          /\ rvalid = RBeat(r_cur, r_data, r_beat)
      BY <2>2 DEF TypeInv, TypeOK, ProxyTypeOK, AtWork
    <3> QED
      BY <3>1, RBeatType DEF RBeat
  <2> QED
    BY <2>1, <2>2
<1>5. /\ Finished' = Finished
      /\ \A i, j \in DOMAIN rgot' : i < j => \/ rgot'[i].n < rgot'[j].n
                                             \/ rgot'[i].n = rgot'[j].n /\ ~rgot'[i].last
      /\ r' = "hold" =>
            /\ Taken(r_cur)' = r_beat'
            /\ \A i \in DOMAIN rgot' :
                  rgot'[i].n = r_cur' /\ rgot'[i].last => r_beat' = NBeats(r_cur)'
  <2>1. CASE r # "hold"
    BY <1>1, <1>3, <1>4, <2>1 DEF Finished
  <2>2. CASE r = "hold"
    <3> DEFINE m == Len(rgot)
               Rs == Responses
    <3>1. rgot \in Seq(Rs) /\ rvalid \in Rs /\ r_cur \in Nat /\ r_beat \in Nat
          /\ \A i \in DOMAIN rgot : rgot[i].n \in Nat
      BY <1>4, <2>2, ReadFacts
    <3> HIDE DEF Rs
    <3>2. /\ m \in Nat /\ DOMAIN rgot = 1 .. m /\ DOMAIN rgot' = 1 .. m + 1
          /\ rgot'[m + 1] = rvalid /\ \A i \in 1 .. m : rgot'[i] = rgot[i]
      BY <1>1, <1>4, <2>2, <3>1, AppendProperties, LenProperties
    <3> HIDE DEF m
    <3>3. \A i \in 1 .. m + 1 : i \in 1 .. m \/ i = m + 1
      BY <3>2
    <3>4. Finished' = Finished
      <4>1. {j \in DOMAIN rgot' : ~(r' = "hold" /\ rgot'[j].n = r_cur')}
              = {j \in DOMAIN rgot : ~(r = "hold" /\ rgot[j].n = r_cur)}
        BY <1>1, <1>4, <2>2, <3>2, <3>3
      <4>2. \A j \in DOMAIN rgot : rgot'[j] = rgot[j]
        BY <3>2
      <4> QED
        BY <4>1, <4>2 DEF Finished
    <3>5. \A i \in 1 .. m : rgot[i].n < r_cur \/ rgot[i].n = r_cur
      <4> SUFFICES ASSUME NEW i \in 1 .. m, rgot[i].n # r_cur PROVE rgot[i].n < r_cur
        OBVIOUS
      <4>1. rgot[i].n \in Finished
        BY <3>2 DEF Finished
      <4>2. 1 \in DOMAIN ReadStages /\ 2 \in DOMAIN ReadStages /\ 1 < 2
            /\ ReadStages[1] = Finished /\ r_cur \in ReadStages[2]
        BY <2>2, ReadShape
      <4> QED
        BY <4>1, <4>2 DEF ReadFlow, Ordered
    <3>6. \A i, j \in DOMAIN rgot' : i < j => \/ rgot'[i].n < rgot'[j].n
                                              \/ rgot'[i].n = rgot'[j].n /\ ~rgot'[i].last
      <4> SUFFICES ASSUME NEW i \in 1 .. m + 1, NEW j \in 1 .. m + 1, i < j
                   PROVE  \/ rgot'[i].n < rgot'[j].n
                          \/ rgot'[i].n = rgot'[j].n /\ ~rgot'[i].last
        BY <3>2
      <4>1. i \in 1 .. m
        BY <3>2
      <4>2. CASE j \in 1 .. m
        BY <1>3, <3>2, <4>1, <4>2
      <4>3. CASE j = m + 1
        BY <1>3, <1>4, <2>2, <3>2, <3>5, <4>1, <4>3
      <4> QED
        BY <3>3, <4>2, <4>3
    <3>7. Taken(r_cur)' = r_beat'
      <4> DEFINE T == {i \in DOMAIN rgot : rgot[i].n = r_cur}
                 U == {i \in DOMAIN rgot' : rgot'[i].n = r_cur'}
      <4>1. U = T \cup {m + 1} /\ m + 1 \notin T
        BY <1>1, <1>4, <2>2, <3>2, <3>3
      <4>2. IsFiniteSet(T)
        <5>1. IsFiniteSet(1 .. m)
          BY <3>2, FS_Interval
        <5> QED
          BY <3>2, <5>1, FS_Subset
      <4>3. Cardinality(T) = r_beat - 1
        BY <1>3, <2>2 DEF Taken, BeatsOf
      <4>4. Cardinality(U) = Cardinality(T) + 1
        <5> HIDE DEF T, U
        <5> QED
          BY <4>1, <4>2, FS_AddElement
      <4>5. Taken(r_cur)' = Cardinality(U)
        BY DEF Taken, BeatsOf
      <4> HIDE DEF T, U
      <4> QED
        BY <1>1, <3>1, <4>3, <4>4, <4>5
    <3>8. \A i \in DOMAIN rgot' :
             rgot'[i].n = r_cur' /\ rgot'[i].last => r_beat' = NBeats(r_cur)'
      BY <1>1, <1>2, <1>3, <1>4, <2>2, <3>2, <3>3
    <3> QED
      BY <3>4, <3>6, <3>7, <3>8
  <2> QED
    BY <2>1, <2>2
\* The next address is shown.
<1>6. /\ ReadStages'[1] = ReadStages[1] /\ ReadStages'[2] = ReadStages[2]
      /\ ReadStages'[3] = ReadStages[3] /\ ReadStages[4] = {} /\ ReadStages'[4] = Only(ar')
      /\ ReadStages[5] = From("read", next_ar) /\ ReadStages'[5] = From("read", next_ar)'
  BY <1>1, <1>2, <1>5, ReadShape, ReadShapeNext
<1>7. Ordered(ReadStages')
  <2>1. CASE ar' = None /\ UNCHANGED next_ar
    <3>1. From("read", next_ar)' = From("read", next_ar)
      BY <1>1, <2>1, ScriptFixed DEF From
    <3>2. \A j \in DOMAIN ReadStages : ReadStages'[j] \subseteq ReadStages[j]
      BY <1>6, <2>1, <3>1, ReadShape DEF Only
    <3> QED
      BY <3>2, OrderedShrink, ReadShape, ReadShapeNext DEF ReadFlow
  <2>2. CASE next_ar # None /\ ar' = next_ar /\ next_ar' = After("read", next_ar)
    <3>1. script \in Scripts /\ next_ar \in Of("read") /\ next_ar \in Nat /\ Of("read") \subseteq Nat
      BY <2>2, ReadFacts
    <3>2. next_ar' = None \/ (next_ar' \in Nat /\ next_ar' > next_ar)
      BY <2>2, <3>1, AfterFacts
    <3>3. ReadStages'[5] \subseteq ReadStages[5] \ {next_ar}
      <4>1. ReadStages'[5] = IF next_ar' = None THEN {}
                             ELSE {n \in Of("read") : n >= next_ar'}
        BY <1>1, <1>6, ScriptFixed DEF From
      <4>2. ReadStages[5] = {n \in Of("read") : n >= next_ar}
        BY <1>6, <2>2 DEF From
      <4> QED
        BY <3>1, <3>2, <4>1, <4>2
    <3>4. next_ar \in ReadStages[5] /\ \A y \in ReadStages[5] : next_ar <= y
      BY <1>6, <2>2, <3>1 DEF From
    <3>5. ReadStages'[4] \subseteq ReadStages[4] \cup {next_ar}
      BY <1>6, <2>2 DEF Only
    <3>6. \A j \in 1 .. 5 : j # 4 /\ j # 5 => ReadStages'[j] \subseteq ReadStages[j]
      BY <1>6
    <3>7. 4 \in 1 .. 4 /\ 5 \in 1 .. 5 /\ 5 = 4 + 1
      OBVIOUS
    <3> QED
      BY <3>3, <3>4, <3>5, <3>6, <3>7, ReadMove
  <2> QED
    BY <2>1, <2>2 DEF RisingEdge, ShowAR
<1>8. Increasing(ar_queue)'
  BY <1>1 DEF ReadFlow, Increasing
<1> QED
  BY <1>2, <1>5, <1>7, <1>8 DEF ReadFlow, Ordered

LEMMA ReadStep ==
    ASSUME TypeInv, ReadFlow, Scheduled, Steady, Next
    PROVE  ReadFlow'
<1>1. CASE aw_task \/ w_task \/ b_task \/ b_drive_task
  <2>1. /\ UNCHANGED <<script, rgot, r, r_cur, r_beat, ar_queue, ar, next_ar>>
        /\ \E c \in {"aw", "w", "b", "bd"} : todo' \in {todo, todo \ {c}}
    BY <1>1 DEF aw_task, w_task, b_task, b_drive_task, next_edge, Resumes, dutVars
  <2> QED
    BY <2>1, ReadFrame
<1>2. CASE axi_monitor \/ Gem5Access \/ deliver
  <2>1. /\ UNCHANGED <<script, rgot, r, r_cur, r_beat, ar_queue, ar, next_ar>>
        /\ todo' \in {todo, todo \ {"mon"}}
    BY <1>2 DEF axi_monitor, Gem5Access, deliver, dutVars, proxyVars
  <2> QED
    BY <2>1, ReadFrame
<1> QED
  BY <1>1, <1>2, ReadAr, ReadR, ReadEdge DEF Next

-------------------------------------------------------------------------------
(***************************************************************************)
(* What the two channels promise the DUT.                                  *)
(***************************************************************************)
LEMMA PortInit == KeepsReady /\ Init => PortInv
<1> SUFFICES ASSUME KeepsReady, Init PROVE PortInv
  OBVIOUS
<1>1. Steady /\ Scheduled
  BY DEF Init, Readies, Steady, Scheduled
<1>2. WriteFlow
  <2>1. Requested = << >>
    BY DEF Init, Requested, Addresses
  <2>2. \A j \in 1 .. 7 : WriteStages[j] = {}
    BY <2>1, WriteShape DEF Init, Members, Only
  <2>3. Ordered(WriteStages)
    <3>1. \A k, l \in 1 .. 8 : k < l => k \in 1 .. 7
      OBVIOUS
    <3> QED
      BY <2>2, <3>1, WriteShape DEF Ordered
  <2> QED
    BY <2>1, <2>3 DEF WriteFlow, Init, Increasing
<1>3. ReadFlow
  <2>1. Finished = {}
    BY DEF Init, Finished
  <2>2. \A j \in 1 .. 4 : ReadStages[j] = {}
    BY <2>1, ReadShape DEF Init, Members
  <2>3. Ordered(ReadStages)
    <3>1. \A k, l \in 1 .. 5 : k < l => k \in 1 .. 4
      OBVIOUS
    <3> QED
      BY <2>2, <3>1, ReadShape DEF Ordered
  <2> QED
    BY <2>3 DEF ReadFlow, Init, Increasing
<1> QED
  BY <1>1, <1>2, <1>3 DEF PortInv

LEMMA PortStep == KeepsReady /\ TypeInv /\ PortInv /\ [Next]_vars => PortInv'
<1> SUFFICES ASSUME KeepsReady, TypeInv, PortInv, [Next]_vars PROVE PortInv'
  OBVIOUS
<1>1. CASE Next
  BY <1>1, ScheduledStep, SteadyStep, WriteStep, ReadStep DEF PortInv
<1>2. CASE UNCHANGED vars
  <2>1. UNCHANGED <<script, bgot, bvalid, b_ready, b_cur, pending_b, aw_queue, aw, next_aw>>
        /\ UNCHANGED <<rgot, r, r_cur, r_beat, ar_queue, ar, next_ar, todo, b, bd, bready, rready>>
    BY <1>2 DEF vars, proxyVars, dutVars
  <2>2. WriteFlow' /\ ReadFlow'
    BY <2>1, WriteFrame, ReadFrame DEF PortInv
  <2>3. Scheduled' /\ Steady'
    BY <2>1 DEF PortInv, Scheduled, Steady
  <2> QED
    BY <2>2, <2>3 DEF PortInv
<1> QED
  BY <1>1, <1>2

LEMMA ReadyFixed == [Next]_vars => KeepsReady' = KeepsReady
BY DEF Next, aw_task, w_task, b_task, b_drive_task, ar_task, r_task, axi_monitor,
       Gem5Access, deliver, RisingEdge, vars, KeepsReady

LEMMA PortInvariant == Spec => [](TypeInv /\ (KeepsReady => PortInv))
<1>1. Init => TypeInv /\ (KeepsReady => PortInv)
  BY TypeInit, PortInit
<1>2. TypeInv /\ (KeepsReady => PortInv) /\ [Next]_vars
        => TypeInv' /\ (KeepsReady' => PortInv')
  BY TypeStep, PortStep, ReadyFixed
<1> QED
  BY <1>1, <1>2, PTL DEF Spec

\* The responses a DUT takes that keeps bready and rready high are those of its
\* bursts, each once, in order on its channel (axi_ddr_proxy.py:12-13).
THEOREM ResponsesInOrder == Spec => []InOrder
<1>1. TypeInv /\ (KeepsReady => PortInv) => InOrder
  BY DEF PortInv, WriteFlow, ReadFlow, Increasing, InOrder
<1> QED
  BY <1>1, PortInvariant, PTL

-------------------------------------------------------------------------------
(***************************************************************************)
(* The monitor.  No coroutine but itself runs before it after an edge.     *)
(***************************************************************************)
Others == aw_task \/ w_task \/ b_task \/ b_drive_task \/ ar_task \/ Gem5Access \/ deliver

LEMMA OthersFrame ==
    ASSUME TypeInv, Scheduled, Others \/ r_task
    PROVE  /\ UNCHANGED <<script, axi_mon, next_aw, next_w, next_ar, aw, w, ar, bgot, rgot>>
           /\ "mon" \in todo' <=> "mon" \in todo
           /\ "mon" \in todo => UNCHANGED <<bvalid, rvalid>>
           /\ Others => /\ UNCHANGED <<r, r_cur, r_beat, rvalid>>
                        /\ "r" \in todo' <=> "r" \in todo
<1>1. UNCHANGED <<script, axi_mon, dutVars>>
  BY DEF Others, aw_task, w_task, b_task, b_drive_task, ar_task, r_task, Gem5Access, deliver
<1>2. UNCHANGED <<next_aw, next_w, next_ar, aw, w, ar, bgot, rgot>>
  BY <1>1 DEF dutVars
<1>3. CASE aw_task \/ w_task \/ ar_task
  BY <1>1, <1>2, <1>3 DEF aw_task, w_task, ar_task, Resumes
<1>4. CASE b_task
  BY <1>1, <1>2, <1>4 DEF b_task, b_sent, Resumes
<1>5. CASE b_drive_task
  <2>1. UNCHANGED <<r, r_cur, r_beat, rvalid>> /\ todo' \in {todo, todo \ {"bd"}}
    BY <1>5 DEF b_drive_task, next_edge, Resumes
  <2>2. "mon" \in todo => UNCHANGED <<bvalid, rvalid>>
    BY <1>5 DEF b_drive_task, next_edge, Resumes, Scheduled, Tasks
  <2> QED
    BY <1>1, <1>2, <2>1, <2>2
<1>6. CASE Gem5Access \/ deliver
  BY <1>1, <1>2, <1>6 DEF Gem5Access, deliver, proxyVars
<1>7. CASE r_task /\ ~Others
  <2>1. todo' \in {todo, todo \ {"r"}} /\ UNCHANGED bvalid
    BY <1>7 DEF r_task, r_hold, next_edge, Resumes
  <2>2. "mon" \in todo => UNCHANGED rvalid
    BY <1>7 DEF r_task, r_hold, next_edge, Resumes
  <2> QED
    BY <1>1, <1>2, <1>7, <2>1, <2>2
<1> QED
  BY <1>3, <1>4, <1>5, <1>6, <1>7 DEF Others

\* The write beats.
LEMMA MonitorWStep ==
    ASSUME TypeInv, Scheduled, MonitorW, Next
    PROVE  MonitorW'
<1>a. /\ script \in Scripts /\ w \in Beats \cup {None} /\ next_w \in Beats \cup {None}
      /\ w # None => w.i \in 1 .. NBeats(w.n)
      /\ axi_mon.w \in Seq([val : Beats, beat : Nat]) /\ axi_mon.w_beat \in Nat
  BY DEF TypeInv, TypeOK, DutTypeOK, MonitorTypeOK, BeatsFit
<1>b. \A x \in Beats : x.i \in Nat /\ x.n \in Nat /\ x.n \in Of("write") /\ NBeats(x.n) \in Nat
  BY <1>a, ScriptFacts DEF Beats
<1>1. CASE Others \/ r_task
  <2>1. UNCHANGED <<script, axi_mon, w, next_w>> /\ ("mon" \in todo' <=> "mon" \in todo)
    BY <1>1, OthersFrame
  <2>2. Pins(w)' = Pins(w) /\ NextBeat(w)' = NextBeat(w)
    BY <2>1, ScriptFixed DEF Pins, NextBeat, FirstBeat, After, Of, Bursts, NBeats, Beat
  <2> QED
    BY <2>1, <2>2 DEF MonitorW
<1>2. CASE axi_monitor
  <2>1. UNCHANGED <<script, w, next_w>> /\ "mon" \in todo /\ "mon" \notin todo'
    BY <1>2 DEF axi_monitor, dutVars
  <2>2. Pins(w) = w /\ Pins(w)' = None
    BY <2>1 DEF Pins
  <2>3. CASE w = None
    <3>1. axi_mon'.w = axi_mon.w /\ axi_mon'.w_beat = axi_mon.w_beat
      BY <1>2, <2>3, MonitorFields DEF SeenW, sampled
    <3> QED
      BY <2>1, <2>2, <2>3, <3>1 DEF MonitorW
  <2>4. CASE w # None
    <3>1. /\ w \in Beats /\ w.i \in Nat /\ w.n \in Nat /\ NBeats(w.n) \in Nat
          /\ axi_mon.w_beat = w.i - 1 /\ next_w = NextBeat(w)
      BY <1>a, <1>b, <2>2, <2>4 DEF MonitorW
    <3> DEFINE x == [val |-> w, beat |-> axi_mon.w_beat]
               S == [val : Beats, beat : Nat]
               q == axi_mon.w
               m == Len(q)
    <3>2. x \in S /\ q \in Seq(S) /\ x.beat = w.i - 1 /\ x.val = w
      BY <1>a, <3>1
    <3>3. axi_mon'.w = Append(q, x)
      <4>1. SeenW = x
        BY <2>4 DEF SeenW
      <4>2. x # None
        <5>1. [val : Beats, beat : Nat] \subseteq
                 [val : [n : Nat, i : Nat] \cup Response(Nat), beat : Nat]
          BY <1>b DEF Beats
        <5> QED
          BY <3>2, <5>1, NoneIsNoValue
      <4> QED
        BY <1>2, <4>1, <4>2, MonitorFields DEF sampled
    <3> HIDE DEF x, S, q, m
    <3>4. /\ m \in Nat /\ DOMAIN q = 1 .. m /\ DOMAIN Append(q, x) = 1 .. m + 1
          /\ Append(q, x)[m + 1] = x /\ \A k \in 1 .. m : Append(q, x)[k] = q[k]
      BY <3>2, AppendProperties, LenProperties DEF m
    <3>5. \A k \in DOMAIN axi_mon'.w : axi_mon'.w[k].beat = axi_mon'.w[k].val.i - 1
      <4> SUFFICES ASSUME NEW k \in 1 .. m + 1
                   PROVE  Append(q, x)[k].beat = Append(q, x)[k].val.i - 1
        BY <3>3, <3>4
      <4>1. CASE k \in 1 .. m
        BY <3>4, <4>1 DEF MonitorW, q
      <4>2. CASE k = m + 1
        BY <3>2, <3>4, <4>2
      <4> QED
        BY <3>4, <4>1, <4>2
    <3>6. next_w # None => axi_mon'.w_beat = next_w.i - 1
      <4>1. axi_mon'.w_beat = IF w.i = NBeats(w.n) THEN 0 ELSE axi_mon.w_beat + 1
        BY <1>2, <2>4, MonitorFields DEF beat_after, LastBeat
      <4>2. CASE w.i < NBeats(w.n)
        BY <3>1, <4>1, <4>2 DEF NextBeat, Beat
      <4>3. CASE ~(w.i < NBeats(w.n))
        <5>1. next_w # None => next_w.i = 1
          BY <3>1, <4>3 DEF NextBeat, FirstBeat, Beat
        <5>2. w.i = NBeats(w.n)
          BY <1>a, <3>1, <2>4, <4>3
        <5> QED
          BY <4>1, <5>1, <5>2
      <4> QED
        BY <4>2, <4>3
    <3> QED
      BY <2>1, <2>2, <3>5, <3>6 DEF MonitorW
  <2> QED
    BY <2>3, <2>4
<1>3. CASE RisingEdge
  <2>1. /\ todo = {} /\ todo' = Tasks /\ UNCHANGED <<script, axi_mon>> /\ ShowW
    BY <1>3 DEF RisingEdge, Idle
  <2>2. Pins(w) = None /\ Pins(w)' = w'
    BY <2>1 DEF Pins, Tasks
  <2>3. CASE w' = None /\ UNCHANGED next_w
    BY <2>1, <2>2, <2>3 DEF MonitorW
  <2>4. CASE next_w # None /\ w' = next_w /\ next_w' = NextBeat(next_w)
    <3>1. NextBeat(w)' = NextBeat(next_w)
      BY <2>1, <2>4 DEF NextBeat, FirstBeat, After, Of, Bursts, NBeats, Beat
    <3>2. w' # None
      BY <2>4
    <3> QED
      BY <2>1, <2>2, <2>4, <3>1, <3>2 DEF MonitorW
  <2> QED
    BY <2>1, <2>3, <2>4 DEF ShowW
<1> QED
  BY <1>1, <1>2, <1>3 DEF Next, Others

\* The addresses.
LEMMA ShowsSampled ==
    ASSUME NEW S, NEW q \in Seq(S), NEW x \in S \cup {None}, NEW n,
           Shows(q, n) \/ x = n, n # None
    PROVE  Shows(sampled(q, x), n)
<1>1. CASE x = None
  BY <1>1 DEF sampled
<1>2. CASE x # None
  <2> DEFINE m == Len(q)
             p == Append(q, x)
  <2>1. /\ m \in Nat /\ DOMAIN q = 1 .. m /\ DOMAIN p = 1 .. m + 1 /\ p[m + 1] = x
        /\ \A k \in 1 .. m : p[k] = q[k]
    BY <1>2, AppendProperties, LenProperties
  <2>2. sampled(q, x) = p
    BY <1>2 DEF sampled
  <2> HIDE DEF m, p
  <2>3. CASE Shows(q, n)
    BY <2>1, <2>2, <2>3 DEF Shows
  <2>4. CASE x = n
    <3>1. m + 1 \in DOMAIN p /\ p[m + 1] = n
      BY <2>1, <2>4
    <3> QED
      BY <2>2, <3>1 DEF Shows
  <2> QED
    BY <2>3, <2>4
<1> QED
  BY <1>1, <1>2

LEMMA ShownNext ==
    ASSUME script \in Scripts, NEW kind, NEW x \in Of(kind), NEW n \in Of(kind),
           Past(After(kind, x), n)
    PROVE  n = x \/ n < x
<1>1. Of(kind) \subseteq Nat /\ None \notin Nat
  BY ScriptFacts, NoneIsNoValue
<1>2. CASE After(kind, x) = None
  BY <1>1, <1>2, AfterFacts
<1>3. CASE After(kind, x) # None
  <2>1. n < After(kind, x)
    BY <1>3 DEF Past
  <2>2. /\ After(kind, x) \in Nat /\ \A j \in Of(kind) : j > x => After(kind, x) <= j
    BY <1>1, <1>3, AfterFacts
  <2> QED
    BY <1>1, <2>1, <2>2
<1> QED
  BY <1>2, <1>3

LEMMA PastGrows ==
    ASSUME script \in Scripts, NEW kind, NEW x \in Of(kind), NEW n \in Of(kind), Past(x, n)
    PROVE  Past(After(kind, x), n)
<1>1. Of(kind) \subseteq Nat /\ None \notin Nat
  BY ScriptFacts, NoneIsNoValue
<1>2. n < x
  BY <1>1 DEF Past
<1>3. After(kind, x) = None \/ (After(kind, x) \in Nat /\ After(kind, x) > x)
  BY <1>1, AfterFacts
<1> QED
  BY <1>1, <1>2, <1>3 DEF Past

LEMMA MonitorAStep ==
    ASSUME TypeInv, Scheduled, MonitorA, Next
    PROVE  MonitorA'
<1>a. /\ script \in Scripts /\ None \notin Nat /\ Of("write") \subseteq Nat /\ Of("read") \subseteq Nat
      /\ aw \in Of("write") \cup {None} /\ next_aw \in Of("write") \cup {None}
      /\ ar \in Of("read") \cup {None} /\ next_ar \in Of("read") \cup {None}
      /\ axi_mon.aw \in Seq(Of("write")) /\ axi_mon.ar \in Seq(Of("read"))
  BY ScriptFacts, NoneIsNoValue DEF TypeInv, TypeOK, DutTypeOK, MonitorTypeOK
<1>b. script' = script
  BY DEF Next, aw_task, w_task, b_task, b_drive_task, ar_task, r_task, axi_monitor,
         Gem5Access, deliver, RisingEdge
<1>c. Of("read")' = Of("read") /\ Of("write")' = Of("write")
  BY <1>b, ScriptFixed
<1>1. CASE Others \/ r_task
  <2>1. /\ UNCHANGED <<script, axi_mon, next_aw, next_ar, next_w, aw, ar>>
        /\ "mon" \in todo' <=> "mon" \in todo
    BY <1>1, OthersFrame
  <2>2. Pins(aw)' = Pins(aw) /\ Pins(ar)' = Pins(ar)
    BY <2>1 DEF Pins
  <2> QED
    BY <1>c, <2>1, <2>2 DEF MonitorA, Past, Shows
<1>2. CASE axi_monitor
  <2>1. /\ UNCHANGED <<next_aw, next_ar, next_w, aw, ar>>
        /\ "mon" \in todo
    BY <1>2 DEF axi_monitor, dutVars
  <2>2. Pins(aw) = aw /\ Pins(ar) = ar
    BY <2>1 DEF Pins
  <2>3. /\ axi_mon'.aw = sampled(axi_mon.aw, aw) /\ axi_mon'.ar = sampled(axi_mon.ar, ar)
    BY <1>2, MonitorFields
  <2>4. ASSUME NEW n \in Of("write"), Past(next_aw, n) PROVE Shows(axi_mon'.aw, n)
    <3>1. Shows(axi_mon.aw, n) \/ aw = n
      BY <2>2, <2>4 DEF MonitorA
    <3>2. n # None
      BY <1>a
    <3> QED
      BY <1>a, <2>3, <3>1, <3>2, ShowsSampled
  <2>5. ASSUME NEW n \in Of("read"), Past(next_ar, n) PROVE Shows(axi_mon'.ar, n)
    <3>1. Shows(axi_mon.ar, n) \/ ar = n
      BY <2>2, <2>5 DEF MonitorA
    <3>2. n # None
      BY <1>a
    <3> QED
      BY <1>a, <2>3, <3>1, <3>2, ShowsSampled
  <2>6. \A n \in Of("write") : next_w' = None \/ n < next_w'.n => Past(next_aw', n)
    BY <2>1 DEF MonitorA
  <2> QED
    BY <1>c, <2>1, <2>4, <2>5, <2>6 DEF MonitorA, Past, Shows
<1>3. CASE RisingEdge
  <2>1. /\ todo = {} /\ todo' = Tasks /\ UNCHANGED axi_mon /\ ShowAW /\ ShowW /\ ShowAR
    BY <1>3 DEF RisingEdge, Idle
  <2>2. Pins(aw) = None /\ Pins(aw)' = aw' /\ Pins(ar) = None /\ Pins(ar)' = ar'
    BY <2>1 DEF Pins, Tasks
  <2>3. /\ \A n \in Of("write") : Past(next_aw, n) => Shows(axi_mon.aw, n)
        /\ \A n \in Of("read") : Past(next_ar, n) => Shows(axi_mon.ar, n)
    BY <1>a, <2>2 DEF MonitorA
  <2>4. ASSUME NEW n \in Of("write"), Past(next_aw', n)
        PROVE  Shows(axi_mon.aw, n) \/ aw' = n
    <3>1. CASE UNCHANGED next_aw
      BY <2>3, <2>4, <3>1
    <3>2. CASE next_aw # None /\ aw' = next_aw /\ next_aw' = After("write", next_aw)
      <4>1. n = next_aw \/ n < next_aw
        BY <1>a, <2>4, <3>2, ShownNext
      <4> QED
        BY <2>3, <3>2, <4>1 DEF Past
    <3> QED
      BY <2>1, <3>1, <3>2 DEF ShowAW
  <2>5. ASSUME NEW n \in Of("read"), Past(next_ar', n)
        PROVE  Shows(axi_mon.ar, n) \/ ar' = n
    <3>1. CASE UNCHANGED next_ar
      BY <2>3, <2>5, <3>1
    <3>2. CASE next_ar # None /\ ar' = next_ar /\ next_ar' = After("read", next_ar)
      <4>1. n = next_ar \/ n < next_ar
        BY <1>a, <2>5, <3>2, ShownNext
      <4> QED
        BY <2>3, <3>2, <4>1 DEF Past
    <3> QED
      BY <2>1, <3>1, <3>2 DEF ShowAR
  <2>6. ASSUME NEW n \in Of("write"), Past(next_aw, n) PROVE Past(next_aw', n)
    <3>1. CASE UNCHANGED next_aw
      BY <2>6, <3>1
    <3>2. CASE next_aw # None /\ next_aw' = After("write", next_aw)
      BY <1>a, <2>6, <3>2, PastGrows
    <3> QED
      BY <2>1, <3>1, <3>2 DEF ShowAW
  <2>7. ASSUME NEW n \in Of("write"), next_w' = None \/ n < next_w'.n PROVE Past(next_aw', n)
    <3>1. ASSUME next_w = None \/ n < next_w.n PROVE Past(next_aw', n)
      BY <2>6, <3>1 DEF MonitorA
    <3>2. CASE UNCHANGED next_w
      BY <2>7, <3>1, <3>2
    <3>3. CASE /\ next_w # None /\ next_w' = NextBeat(next_w)
               /\ next_aw' # None => next_w.n < next_aw'
      <4>1. next_w \in Beats /\ next_w.n \in Of("write")
        BY <3>3 DEF TypeInv, TypeOK, DutTypeOK, Beats
      <4>2. next_w.n = n \/ n < next_w.n
        <5>1. CASE next_w.i < NBeats(next_w.n)
          <6>1. next_w' = Beat(next_w.n, next_w.i + 1)
            BY <3>3, <5>1 DEF NextBeat
          <6>2. next_w'.n = next_w.n /\ next_w' # None
            <7>1. next_w' \in [n : Nat, i : Nat]
              BY <1>a, <4>1, <6>1 DEF Beat, Beats
            <7> QED
              BY <6>1, <7>1, NoneIsNoValue DEF Beat
          <6> QED
            BY <2>7, <6>2
        <5>2. CASE ~(next_w.i < NBeats(next_w.n))
          <6>1. next_w' = FirstBeat(After("write", next_w.n))
            BY <3>3, <5>2 DEF NextBeat
          <6>2. Past(After("write", next_w.n), n)
            <7>1. CASE After("write", next_w.n) = None
              BY <7>1 DEF Past
            <7>2. CASE After("write", next_w.n) # None
              <8>1. next_w' = Beat(After("write", next_w.n), 1)
                BY <6>1, <7>2 DEF FirstBeat
              <8>2. After("write", next_w.n) \in Nat
                BY <1>a, <4>1, <7>2, AfterType
              <8>3. next_w' \in [n : Nat, i : Nat] /\ next_w'.n = After("write", next_w.n)
                BY <8>1, <8>2 DEF Beat
              <8> QED
                BY <2>7, <8>3, NoneIsNoValue DEF Past
            <7> QED
              BY <7>1, <7>2
          <6> QED
            BY <1>a, <4>1, <6>2, ShownNext
        <5> QED
          BY <5>1, <5>2
      <4>3. CASE next_w.n = n
        BY <3>3, <4>3 DEF Past
      <4> QED
        BY <3>1, <4>2, <4>3
    <3> QED
      BY <2>1, <3>2, <3>3 DEF ShowW
  <2> QED
    BY <1>c, <2>1, <2>2, <2>4, <2>5, <2>7 DEF MonitorA, Past, Shows
<1> QED
  BY <1>1, <1>2, <1>3 DEF Next, Others

\* The read beats.
LEMMA MonitorRTypes ==
    ASSUME TypeInv
    PROVE  /\ axi_mon.r \in Seq([val : Responses, beat : Nat]) /\ axi_mon.r_beat \in Nat
           /\ \A x \in [val : Responses, beat : Nat] : x.val \in Responses
           /\ rvalid \in Responses \cup {None}
           /\ r # "hold" => rvalid = None
           /\ r = "hold" => /\ rvalid # None /\ rvalid.n = r_cur
                            /\ rvalid.last <=> r_beat = NBeats(r_cur)
                            /\ r_beat \in 1 .. NBeats(r_cur) /\ NBeats(r_cur) \in Nat
           /\ \A x \in [val : Responses, beat : Nat] : x # None
<1>1. /\ axi_mon.r \in Seq([val : Responses, beat : Nat]) /\ axi_mon.r_beat \in Nat
      /\ rvalid \in Responses \cup {None} /\ (r # "hold" => rvalid = None)
      /\ script \in Scripts
  BY DEF TypeInv, TypeOK, MonitorTypeOK, ProxyTypeOK, AtWork
<1>2. \A x \in [val : Responses, beat : Nat] : x.val \in Responses
  OBVIOUS
<1>3. ASSUME r = "hold"
      PROVE  /\ rvalid # None /\ rvalid.n = r_cur /\ (rvalid.last <=> r_beat = NBeats(r_cur))
             /\ r_beat \in 1 .. NBeats(r_cur) /\ NBeats(r_cur) \in Nat
  <2>1. /\ r_cur \in Of("read") /\ r_data \in Seq(Blank)
        /\ Len(r_data) = NBeats(r_cur) /\ r_beat \in 1 .. NBeats(r_cur)
        /\ rvalid = RBeat(r_cur, r_data, r_beat)
    BY <1>3 DEF TypeInv, TypeOK, ProxyTypeOK, AtWork
  <2>2. NBeats(r_cur) \in Nat
    BY <1>1, <2>1, ScriptFacts DEF Of
  <2> QED
    BY <1>1, <2>1, <2>2, RBeatType DEF RBeat
<1>4. \A x \in [val : Responses, beat : Nat] : x # None
  <2>1. Of("read") \subseteq Nat
    BY <1>1, ScriptFacts
  <2>2. Responses \subseteq Response(Nat)
    BY <2>1 DEF Responses, Response
  <2>3. [val : Responses, beat : Nat] \subseteq
           [val : [n : Nat, i : Nat] \cup Response(Nat), beat : Nat]
    BY <2>2
  <2> QED
    BY <2>3, NoneIsNoValue
<1> QED
  BY <1>1, <1>2, <1>3, <1>4

\* A step that leaves the monitor's account and count alone.
LEMMA MonitorRFrame ==
    ASSUME TypeInv, MonitorR, UNCHANGED <<script, axi_mon>>, Counted' = Counted,
           Counted # 0 => r_cur' = r_cur
    PROVE  MonitorR'
<1>1. \A n : NBeats(n)' = NBeats(n)
  BY ScriptFixed
<1>2. \A k \in DOMAIN axi_mon.r : ReadNumbered(k)'
  BY <1>1 DEF MonitorR, ReadNumbered
<1> QED
  BY <1>2 DEF MonitorR

LEMMA MonitorRTask ==
    ASSUME TypeInv, Scheduled, MonitorR, r_task
    PROVE  MonitorR'
<1>1. /\ UNCHANGED <<script, axi_mon, rready>> /\ ("mon" \in todo' <=> "mon" \in todo)
  BY OthersFrame DEF r_task, dutVars
<1>2. Counted' = Counted
  <2>1. \A n : NBeats(n)' = NBeats(n)
    BY <1>1, ScriptFixed
  <2>2. CASE r # "hold" /\ r' # "hold"
    BY <2>2 DEF Counted
  <2>3. CASE r # "hold" /\ r' = "hold"
    <3>1. r_beat' = 1 /\ "r" \notin todo'
      BY <2>3 DEF r_task, r_hold, Resumes
    <3> QED
      BY <2>3, <3>1 DEF Counted
  <2>4. CASE r = "hold"
    <3>1. /\ "r" \in todo /\ "mon" \notin todo /\ "r" \notin todo' /\ UNCHANGED r_cur
          /\ \/ ~rready /\ UNCHANGED <<r, r_beat>>
             \/ rready /\ r_beat < NBeats(r_cur) /\ r_beat' = r_beat + 1 /\ UNCHANGED r
             \/ rready /\ r_beat = NBeats(r_cur) /\ r' = "look"
      BY <2>4 DEF r_task, r_hold, next_edge, Resumes
    <3>2. r_beat \in Nat /\ NBeats(r_cur) \in Nat
      BY <2>4, MonitorRTypes
    <3> QED
      BY <1>1, <2>1, <2>4, <3>1, <3>2 DEF Counted
  <2> QED
    BY <2>2, <2>3, <2>4
<1>3. Counted # 0 => r_cur' = r_cur
  <2>1. r = "hold" => r_cur' = r_cur
    BY DEF r_task, r_hold
  <2> QED
    BY <2>1 DEF Counted
<1> QED
  BY <1>1, <1>2, <1>3, MonitorRFrame

\* The monitor numbers a beat by what it has counted of its burst.
LEMMA MonitorRSample ==
    ASSUME TypeInv, Scheduled, MonitorR, axi_monitor
    PROVE  MonitorR'
<1>1. /\ UNCHANGED <<script, rready, rvalid, r, r_beat, r_cur>>
      /\ "mon" \in todo /\ todo' = todo \ {"mon"}
  BY DEF axi_monitor, dutVars, proxyVars
<1>2. "r" \in todo /\ "r" \in todo' /\ "mon" \notin todo'
  BY <1>1 DEF Scheduled, Tasks
<1>3. \A n : NBeats(n)' = NBeats(n)
  BY <1>1, ScriptFixed
<1>4. axi_mon.r_beat = Counted /\ \A k \in DOMAIN axi_mon.r : ReadNumbered(k)
  BY DEF MonitorR
<1>5. CASE r # "hold" \/ ~rready
  <2>1. rvalid = None \/ ~rready
    BY <1>5, MonitorRTypes
  <2>2. axi_mon'.r = axi_mon.r /\ axi_mon'.r_beat = axi_mon.r_beat
    BY <2>1, MonitorFields DEF SeenR, sampled
  <2>3. Counted' = Counted
    BY <1>1, <1>2, <1>3, <1>5 DEF Counted
  <2>4. \A k \in DOMAIN axi_mon.r : ReadNumbered(k)'
    BY <1>3, <1>4, <2>2 DEF ReadNumbered
  <2> QED
    BY <1>1, <2>2, <2>3, <2>4 DEF MonitorR
<1>6. CASE r = "hold" /\ rready
  <2> DEFINE S == [val : Responses, beat : Nat]
             x == [val |-> rvalid, beat |-> axi_mon.r_beat]
             q == axi_mon.r
             m == Len(q)
  <2>1. /\ rvalid # None /\ rvalid \in Responses /\ rvalid.n = r_cur /\ r_beat \in Nat
        /\ rvalid.last <=> r_beat = NBeats(r_cur)
        /\ r_beat \in 1 .. NBeats(r_cur) /\ NBeats(r_cur) \in Nat
    BY <1>6, MonitorRTypes
  <2>2. x \in S /\ q \in Seq(S) /\ x.val = rvalid /\ x.beat = axi_mon.r_beat /\ x # None
    BY <2>1, MonitorRTypes
  <2>3. axi_mon'.r = Append(q, x)
    <3>1. SeenR = x
      BY <1>6, <2>1 DEF SeenR
    <3> QED
      BY <2>2, <3>1, MonitorFields DEF sampled
  <2>4. axi_mon'.r_beat = IF r_beat = NBeats(r_cur) THEN 0 ELSE axi_mon.r_beat + 1
    BY <1>6, <2>1, MonitorFields DEF beat_after
  <2>5. axi_mon.r_beat = r_beat - 1
    BY <1>1, <1>4, <1>6 DEF Counted
  <2>6. axi_mon'.r_beat = Counted'
    <3>1. Counted' = IF r_beat = NBeats(r_cur) THEN 0 ELSE r_beat
      BY <1>1, <1>2, <1>3, <1>6 DEF Counted
    <3> QED
      BY <2>1, <2>4, <2>5, <3>1
  <2> HIDE DEF S, x, q, m
  <2>7. /\ m \in Nat /\ DOMAIN q = 1 .. m /\ DOMAIN Append(q, x) = 1 .. m + 1
        /\ Append(q, x)[m + 1] = x /\ \A k \in 1 .. m : Append(q, x)[k] = q[k]
        /\ Len(Append(q, x)) = m + 1 /\ Append(q, x) # << >>
        /\ (q = << >> <=> m = 0)
    BY <2>2, AppendProperties, LenProperties, EmptySeq DEF m
  <2>8. ASSUME NEW k \in 1 .. m PROVE ReadNumbered(k)'
    <3>1. axi_mon'.r[k] = axi_mon.r[k] /\ (k > 1 => axi_mon'.r[k - 1] = axi_mon.r[k - 1])
      BY <2>3, <2>7 DEF q
    <3>2. ReadNumbered(k)
      BY <1>4, <2>7 DEF q
    <3> QED
      BY <1>3, <3>1, <3>2 DEF ReadNumbered
  <2>9. ASSUME NEW k, k = m + 1 PROVE ReadNumbered(k)'
    <3>1. axi_mon'.r[k] = x /\ (m > 0 => axi_mon'.r[k - 1] = q[m])
      BY <2>3, <2>7, <2>9
    <3>2. x.val.last <=> x.beat + 1 = NBeats(x.val.n)
      BY <2>1, <2>2, <2>5
    <3>3. IF x.beat = 0
            THEN m = 0 \/ q[m].val.last
            ELSE m > 0 /\ q[m].val.n = x.val.n /\ q[m].beat = x.beat - 1
      BY <2>1, <2>2, <2>7 DEF MonitorR, q, m
    <3>4. (k = 1 <=> m = 0) /\ (k > 1 <=> m > 0) /\ m \in Nat
      BY <2>7, <2>9
    <3>5. axi_mon'.r[k].val.last <=> axi_mon'.r[k].beat + 1 = NBeats(axi_mon.r[k].val.n)'
      BY <1>3, <3>1, <3>2
    <3>6. IF axi_mon'.r[k].beat = 0
            THEN k = 1 \/ axi_mon'.r[k - 1].val.last
            ELSE /\ k > 1 /\ axi_mon'.r[k - 1].val.n = axi_mon'.r[k].val.n
                 /\ axi_mon'.r[k - 1].beat = axi_mon'.r[k].beat - 1
      BY <3>1, <3>3, <3>4
    <3> QED
      BY <3>5, <3>6 DEF ReadNumbered
  <2>10. \A k \in DOMAIN axi_mon'.r : ReadNumbered(k)'
    <3>1. \A k \in 1 .. m + 1 : k \in 1 .. m \/ k = m + 1
      BY <2>7
    <3>2. DOMAIN axi_mon'.r = 1 .. m + 1
      BY <2>3, <2>7
    <3> SUFFICES ASSUME NEW k \in DOMAIN axi_mon'.r PROVE ReadNumbered(k)'
      OBVIOUS
    <3>3. CASE k \in 1 .. m
      BY <2>8, <3>3
    <3>4. CASE k = m + 1
      BY <2>9, <3>4
    <3> QED
      BY <3>1, <3>2, <3>3, <3>4
  <2>11. /\ axi_mon'.r # << >> /\ axi_mon'.r[Len(axi_mon'.r)] = x
         /\ IF axi_mon'.r_beat = 0 THEN x.val.last
            ELSE x.val.n = r_cur' /\ x.beat = axi_mon'.r_beat - 1
    BY <1>1, <2>1, <2>2, <2>3, <2>4, <2>5, <2>7
  <2> QED
    BY <2>6, <2>10, <2>11 DEF MonitorR
<1> QED
  BY <1>5, <1>6

LEMMA MonitorRStep ==
    ASSUME TypeInv, Scheduled, MonitorR, Next
    PROVE  MonitorR'
<1>1. CASE Others
  <2>1. /\ UNCHANGED <<script, axi_mon, r, r_cur, r_beat, rready>>
        /\ "mon" \in todo' <=> "mon" \in todo
        /\ "r" \in todo' <=> "r" \in todo
    <3>1. UNCHANGED rready
      BY <1>1 DEF Others, aw_task, w_task, b_task, b_drive_task, ar_task, Gem5Access, deliver,
                  dutVars
    <3> QED
      BY <1>1, <3>1, OthersFrame
  <2>2. NBeats(r_cur)' = NBeats(r_cur)
    BY <2>1, ScriptFixed DEF NBeats
  <2>3. Counted' = Counted
    BY <2>1, <2>2 DEF Counted
  <2> QED
    BY <2>1, <2>3, MonitorRFrame
<1>2. CASE RisingEdge
  <2>1. /\ todo = {} /\ todo' = Tasks /\ UNCHANGED <<script, axi_mon, r, r_cur, r_beat>>
    BY <1>2 DEF RisingEdge, Idle, proxyVars
  <2>2. "r" \notin todo /\ "mon" \in todo'
    BY <2>1 DEF Tasks
  <2>3. Counted' = Counted
    BY <2>1, <2>2 DEF Counted
  <2> QED
    BY <2>1, <2>3, MonitorRFrame
<1> QED
  BY <1>1, <1>2, MonitorRTask, MonitorRSample DEF Next, Others

LEMMA MonitorInit == Init => MonitorInv
<1> SUFFICES ASSUME Init PROVE MonitorInv
  OBVIOUS
<1>1. /\ script \in Scripts /\ next_aw = After("write", 0) /\ next_ar = After("read", 0)
      /\ next_w = FirstBeat(After("write", 0)) /\ "mon" \notin todo /\ r # "hold"
      /\ axi_mon.b = << >> /\ axi_mon.r = << >> /\ axi_mon.w = << >>
      /\ axi_mon.w_beat = 0 /\ axi_mon.r_beat = 0 /\ bgot = << >> /\ rgot = << >>
  BY DEF Init
<1>3. MonitorR
  BY <1>1 DEF MonitorR, Counted
<1>4. MonitorW
  <2>1. next_w # None => next_w.i = 1
    BY <1>1 DEF FirstBeat, Beat
  <2> QED
    BY <1>1, <2>1 DEF MonitorW, Pins
<1>5. MonitorA
  <2>1. \A kind : \A n \in Of(kind) : n \in Nat /\ n > 0
    BY <1>1, ScriptFacts
  <2>2. \A n \in Of("write") : ~Past(next_aw, n)
    BY <1>1, <2>1, AfterFacts, NoneIsNoValue DEF Past
  <2>3. \A n \in Of("read") : ~Past(next_ar, n)
    BY <1>1, <2>1, AfterFacts, NoneIsNoValue DEF Past
  <2>4. ASSUME NEW n \in Of("write"), next_w = None \/ n < next_w.n PROVE Past(next_aw, n)
    <3>1. CASE next_aw = None
      BY <3>1 DEF Past
    <3>2. CASE next_aw # None
      <4>1. next_aw \in Nat
        BY <1>1, <2>1, <3>2, AfterType
      <4>2. next_w = Beat(next_aw, 1) /\ next_w \in [n : Nat, i : Nat]
        BY <1>1, <3>2, <4>1 DEF FirstBeat, Beat
      <4>3. next_w # None /\ next_w.n = next_aw
        BY <4>2, NoneIsNoValue DEF Beat
      <4> QED
        BY <2>4, <4>3 DEF Past
    <3> QED
      BY <3>1, <3>2
  <2> QED
    BY <2>2, <2>3, <2>4 DEF MonitorA
<1> QED
  BY <1>3, <1>4, <1>5 DEF MonitorInv

LEMMA MonitorStep ==
    TypeInv /\ Scheduled /\ MonitorInv /\ [Next]_vars => MonitorInv'
<1> SUFFICES ASSUME TypeInv, Scheduled, MonitorInv, [Next]_vars PROVE MonitorInv'
  OBVIOUS
<1>1. CASE Next
  BY <1>1, MonitorRStep, MonitorWStep, MonitorAStep DEF MonitorInv
<1>2. CASE UNCHANGED vars
  <2>1. UNCHANGED <<script, axi_mon, todo, r, r_beat, r_cur, rready>>
        /\ UNCHANGED <<w, next_w, aw, next_aw, ar, next_ar>>
    BY <1>2 DEF vars, proxyVars, dutVars
  <2>2. /\ Pins(w)' = Pins(w) /\ Pins(aw)' = Pins(aw) /\ Pins(ar)' = Pins(ar) /\ NBeats(r_cur)' = NBeats(r_cur)
        /\ NextBeat(w)' = NextBeat(w)
    BY <2>1 DEF Pins, NextBeat, FirstBeat, After, Of, Bursts, NBeats, Beat
  <2>3. Of("read")' = Of("read") /\ Of("write")' = Of("write")
    BY <2>1, ScriptFixed
  <2>4. MonitorR'
    <3>1. Counted' = Counted
      BY <2>1, <2>2 DEF Counted
    <3> QED
      BY <2>1, <3>1, MonitorRFrame DEF MonitorInv
  <2>5. MonitorW'
    BY <2>1, <2>2 DEF MonitorInv, MonitorW
  <2>6. MonitorA'
    BY <2>1, <2>2, <2>3 DEF MonitorInv, MonitorA, Past, Shows
  <2> QED
    BY <2>4, <2>5, <2>6 DEF MonitorInv
<1> QED
  BY <1>1, <1>2

LEMMA ShowsConcat ==
    ASSUME NEW S, NEW p \in Seq(S), NEW q \in Seq(S), NEW n, Shows(p, n) \/ Shows(q, n)
    PROVE  Shows(p \o q, n)
<1> DEFINE l == Len(p)
           m == Len(q)
           c == p \o q
<1>1. /\ l \in Nat /\ m \in Nat /\ DOMAIN p = 1 .. l /\ DOMAIN q = 1 .. m
      /\ DOMAIN c = 1 .. l + m
      /\ \A i \in 1 .. l + m : c[i] = IF i <= l THEN p[i] ELSE q[i - l]
  BY ConcatProperties, LenProperties
<1> HIDE DEF l, m, c
<1>2. CASE Shows(p, n)
  <2>1. PICK k \in 1 .. l : p[k] = n
    BY <1>1, <1>2 DEF Shows
  <2>2. k \in 1 .. l + m /\ k <= l
    BY <1>1
  <2>3. k \in DOMAIN c /\ c[k] = n
    BY <1>1, <2>1, <2>2
  <2> QED
    BY <2>3 DEF Shows, c
<1>3. CASE Shows(q, n)
  <2>1. PICK k \in 1 .. m : q[k] = n
    BY <1>1, <1>3 DEF Shows
  <2>2. l + k \in 1 .. l + m /\ ~(l + k <= l) /\ (l + k) - l = k
    BY <1>1
  <2>3. l + k \in DOMAIN c /\ c[l + k] = n
    BY <1>1, <2>1, <2>2
  <2> QED
    BY <2>3 DEF Shows, c
<1> QED
  BY <1>2, <1>3

LEMMA MonitorAgrees ==
    ASSUME TypeInv, MonitorInv
    PROVE  MonitorNumbers
<1> SUFFICES ASSUME Idle
             PROVE  \A n \in Bursts : Shown(n) => Shows(axi_mon.aw \o axi_mon.ar, n)
  BY DEF MonitorNumbers, MonitorInv, MonitorR, MonitorW
<1>1. \A pin : Pins(pin) = None
  BY DEF Pins, Idle
<1>5. ASSUME NEW n \in Bursts, Shown(n) PROVE Shows(axi_mon.aw \o axi_mon.ar, n)
  <2>1. /\ script \in Scripts /\ axi_mon.aw \in Seq(Of("write")) /\ axi_mon.ar \in Seq(Of("read"))
    BY DEF TypeInv, TypeOK, MonitorTypeOK
  <2>2. n \in Nat /\ None \notin Nat /\ Of("write") \subseteq Bursts /\ Of("read") \subseteq Bursts
    BY <2>1, ScriptFacts, NoneIsNoValue
  <2>3. axi_mon.aw \in Seq(Bursts) /\ axi_mon.ar \in Seq(Bursts)
    BY <2>1, <2>2
  <2>4. script[n].kind \in {"read", "write"}
    <3>1. script \in Seq([kind : {"read", "write"}, block : Blocks, strb : Seq(BOOLEAN)])
      BY <2>1, ProxyAssumption
    <3> DEFINE St == Seq(BOOLEAN)
    <3>2. script \in Seq([kind : {"read", "write"}, block : Blocks, strb : St])
      BY <3>1
    <3> HIDE DEF St
    <3>3. script[n] \in [kind : {"read", "write"}, block : Blocks, strb : St]
      BY <3>2, LenProperties, ElementOfSeq DEF Bursts
    <3> QED
      BY <3>3
  <2>5. CASE script[n].kind = "read"
    <3>1. n \in Of("read") /\ Past(next_ar, n)
      BY <1>5, <2>5 DEF Of, Shown, Past
    <3>2. Shows(axi_mon.ar, n)
      BY <1>1, <2>2, <3>1 DEF MonitorInv, MonitorA
    <3> QED
      BY <2>3, <3>2, ShowsConcat
  <2>6. CASE script[n].kind = "write"
    <3>1. n \in Of("write") /\ (next_w = None \/ n < next_w.n)
      BY <1>5, <2>6 DEF Of, Shown
    <3>2. Shows(axi_mon.aw, n)
      BY <1>1, <2>2, <3>1 DEF MonitorInv, MonitorA
    <3> QED
      BY <2>3, <3>2, ShowsConcat
  <2> QED
    BY <2>4, <2>5, <2>6
<1> QED
  BY <1>5

(***************************************************************************)
(* AxiMonitor of axi_mon.py numbers every beat of W and of R by its place  *)
(* in its burst, although it only counts from one `last` to the next, and  *)
(* reports every address: no beat is missed or counted twice, whatever the *)
(* DUT's bready and rready do.                                             *)
(***************************************************************************)
THEOREM BeatsNumbered == Spec => []MonitorNumbers
<1>1. Init => TypeInv /\ Scheduled /\ MonitorInv
  BY TypeInit, MonitorInit DEF Init, Scheduled
<1>2. TypeInv /\ Scheduled /\ MonitorInv /\ [Next]_vars => TypeInv' /\ Scheduled' /\ MonitorInv'
  <2>1. Scheduled /\ UNCHANGED vars => Scheduled'
    BY DEF Scheduled, vars, proxyVars
  <2> QED
    BY <2>1, TypeStep, ScheduledStep, MonitorStep
<1>3. TypeInv /\ MonitorInv => MonitorNumbers
  BY MonitorAgrees
<1> QED
  BY <1>1, <1>2, <1>3, PTL DEF Spec

-------------------------------------------------------------------------------
(***************************************************************************)
(* The memory.  The invariant the refinement of AxiMemory rests on.        *)
(*                                                                         *)
(* A burst is at the broker from the message to its completion, and there  *)
(* it is in one place: a message, a reply or pending.                      *)
(***************************************************************************)
Subject(m) == IF "aw" \in DOMAIN m THEN m.aw ELSE m.ar
AtBroker == Only(b_cur) \cup (IF r = "wait" THEN {r_cur} ELSE {})

MessagesApart ==
    \A i \in DOMAIN to_gem5 :
        /\ Subject(to_gem5[i]) \in AtBroker /\ pending[Subject(to_gem5[i])] = None
        /\ \A j \in DOMAIN to_gem5 : i # j => Subject(to_gem5[i]) # Subject(to_gem5[j])
        /\ \A j \in DOMAIN from_gem5 : Subject(to_gem5[i]) # from_gem5[j].n

RepliesApart ==
    \A i \in DOMAIN from_gem5 :
        /\ from_gem5[i].n \in AtBroker /\ pending[from_gem5[i].n] = None
        /\ \A j \in DOMAIN from_gem5 : i # j => from_gem5[i].n # from_gem5[j].n
        /\ from_gem5[i].n \in Of("write") => from_gem5[i].data = << >>

PendingApart ==
    \A n \in Bursts : pending[n] # None =>
        n \in AtBroker /\ (n \in Of("write") => pending[n] = << >>)

BrokerInv == MessagesApart /\ RepliesApart /\ PendingApart

\* A write gem5 is asked for has all its beats.
Whole(x) == x.beats = [i \in 1 .. NBeats(x.aw) |-> Beat(x.aw, i)]

WholeInv ==
    /\ \A i \in DOMAIN pending_b : Whole(pending_b[i])
    /\ \A i \in DOMAIN to_gem5 : "aw" \in DOMAIN to_gem5[i] => Whole(to_gem5[i])

(***************************************************************************)
(* w_task collects the beats of the write at the head of aw_queue: Coming  *)
(* is the next beat it will see, and the addresses held are those from     *)
(* Coming's write on.                                                      *)
(***************************************************************************)
Coming == IF "w" \in todo /\ w # None THEN w ELSE next_w
AwHeld == Members(aw_queue) \cup (IF "aw" \in todo THEN Only(aw) ELSE {})

CollectInv ==
    /\ Coming = None => beats = << >>
    /\ Coming # None => /\ Coming.i = Len(beats) + 1
                        /\ \A i \in DOMAIN beats : beats[i] = Beat(Coming.n, i)
    /\ "w" \in todo /\ w # None => next_w = NextBeat(w) /\ Past(next_aw, w.n)
    /\ \A n \in Of("write") :
          n \in AwHeld <=> Past(next_aw, n) /\ Coming # None /\ n >= Coming.n

CollectedInv == \A n \in Members(Requested) \cup Only(b_cur) : Coming = None \/ n < Coming.n

\* The last beats the DUT has taken are the first of the read on R, and a read
\* that is finished has been answered.
NTaken == IF "r" \in todo THEN r_beat ELSE r_beat - 1

DataInv ==
    r = "hold" =>
        /\ NTaken <= Len(rgot)
        /\ \A k \in 1 .. Len(rgot) - NTaken : rgot[k].n # r_cur
        /\ \A i \in 1 .. NTaken : rgot[Len(rgot) - NTaken + i] = RBeat(r_cur, r_data, i)

FinishedInv == \A n \in Finished : \E i \in DOMAIN rgot : rgot[i].n = n /\ rgot[i].last

MemoryInv == /\ BrokerInv /\ WholeInv /\ CollectInv /\ CollectedInv
             /\ DataInv /\ FinishedInv

-------------------------------------------------------------------------------
(***************************************************************************)
(* Queues as they grow and shrink, by index.                               *)
(***************************************************************************)
LEMMA AppendAt ==
    ASSUME NEW S, NEW q \in Seq(S), NEW x \in S, NEW p, p = Append(q, x)
    PROVE  /\ Len(q) \in Nat /\ DOMAIN q = 1 .. Len(q) /\ Len(p) = Len(q) + 1
           /\ DOMAIN p = 1 .. Len(q) + 1 /\ p[Len(q) + 1] = x
           /\ \A i \in DOMAIN q : i \in DOMAIN p /\ p[i] = q[i]
           /\ \A i \in DOMAIN p : i \in DOMAIN q \/ i = Len(q) + 1
<1>1. /\ Len(q) \in Nat /\ DOMAIN q = 1 .. Len(q)
      /\ p \in Seq(S) /\ Len(p) = Len(q) + 1
      /\ \A i \in 1 .. Len(q) : p[i] = q[i]
      /\ p[Len(q) + 1] = x
  BY AppendProperties, LenProperties
<1>2. DOMAIN p = 1 .. Len(q) + 1
  BY <1>1, LenProperties
<1> QED
  BY <1>1, <1>2

LEMMA TailAt ==
    ASSUME NEW S, NEW q \in Seq(S), q # << >>, NEW p, p = Tail(q)
    PROVE  /\ 1 \in DOMAIN q /\ q[1] = Head(q) /\ q[1] \in S
           /\ \A i \in DOMAIN p : /\ i \in Nat /\ i + 1 \in DOMAIN q /\ i + 1 # 1
                                  /\ p[i] = q[i + 1]
           /\ \A i \in DOMAIN q : i # 1 => i \in Nat /\ i - 1 \in DOMAIN p /\ p[i - 1] = q[i]
<1>1. /\ Len(q) \in Nat \ {0} /\ DOMAIN q = 1 .. Len(q) /\ DOMAIN p = 1 .. Len(q) - 1
      /\ Head(q) = q[1] /\ Head(q) \in S
      /\ \A i \in 1 .. Len(q) - 1 : p[i] = q[i + 1]
  <2>1. /\ Tail(q) \in Seq(S) /\ Len(Tail(q)) = Len(q) - 1 /\ Head(q) = q[1] /\ Head(q) \in S
        /\ \A i \in 1 .. Len(q) - 1 : Tail(q)[i] = q[i + 1]
    BY HeadTailProperties
  <2>2. /\ Len(q) \in Nat /\ Len(q) # 0 /\ DOMAIN q = 1 .. Len(q)
        /\ DOMAIN Tail(q) = 1 .. Len(Tail(q))
    BY <2>1, LenProperties, EmptySeq
  <2> QED
    BY <2>1, <2>2
<1> QED
  BY <1>1

\* The messages to gem5 and its replies.
WriteMsgs == [aw : Of("write"), beats : Seq(Beats)]
ReadMsgs == [ar : Of("read")]
ReplyMsgs == [n : Bursts, data : Seq(Blank)]

LEMMA MessageFacts ==
    ASSUME TypeInv
    PROVE  /\ script \in Scripts /\ Bursts \subseteq Nat /\ None \notin Nat
           /\ Of("write") \subseteq Bursts /\ Of("read") \subseteq Bursts
           /\ Of("write") \cap Of("read") = {}
           /\ to_gem5 \in Seq(WriteMsgs \cup ReadMsgs) /\ from_gem5 \in Seq(ReplyMsgs)
           /\ pending \in [Bursts -> Seq(Blank) \cup {None}] /\ None \notin Seq(Blank)
           /\ b_cur \in Of("write") \cup {None} /\ r_cur \in Of("read") \cup {None}
           /\ (b = "wait" <=> b_cur # None) /\ (r \in {"wait", "hold"} => r_cur # None)
<1>1. /\ script \in Scripts /\ Bursts \subseteq Nat /\ None \notin Nat
      /\ Of("write") \subseteq Bursts /\ Of("read") \subseteq Bursts
      /\ Of("write") \cap Of("read") = {}
  BY ScriptFacts, NoneIsNoValue DEF TypeInv, TypeOK, Of
<1>2. /\ to_gem5 \in Seq(WriteMsgs \cup ReadMsgs) /\ from_gem5 \in Seq(ReplyMsgs)
      /\ pending \in [Bursts -> Seq(Blank) \cup {None}]
      /\ b_cur \in Of("write") \cup {None} /\ r_cur \in Of("read") \cup {None}
      /\ (b = "wait" <=> b_cur # None) /\ (r \in {"wait", "hold"} => r_cur # None)
  BY DEF TypeInv, TypeOK, MemTypeOK, ProxyTypeOK, AtWork, WriteMsgs, ReadMsgs, ReplyMsgs
<1> QED
  BY <1>1, <1>2, NoneIsNoValue

LEMMA SubjectFacts ==
    /\ \A m \in WriteMsgs : /\ Subject(m) = m.aw /\ m.aw \in Of("write") /\ m.beats \in Seq(Beats)
                            /\ "aw" \in DOMAIN m /\ "ar" \notin DOMAIN m
    /\ \A m \in ReadMsgs : /\ Subject(m) = m.ar /\ m.ar \in Of("read")
                           /\ "ar" \in DOMAIN m /\ "aw" \notin DOMAIN m
BY DEF Subject, WriteMsgs, ReadMsgs

LEMMA MessageAt ==
    ASSUME TypeInv, NEW i \in DOMAIN to_gem5
    PROVE  /\ to_gem5[i] \in WriteMsgs \cup ReadMsgs /\ Subject(to_gem5[i]) \in Bursts
<1> DEFINE S == WriteMsgs \cup ReadMsgs
<1>1. to_gem5 \in Seq(S)
  BY MessageFacts
<1>2. to_gem5[i] \in S
  <2> HIDE DEF S
  <2> QED
    BY <1>1, LenProperties, ElementOfSeq
<1> QED
  BY <1>2, SubjectFacts, MessageFacts

LEMMA ReplyAt ==
    ASSUME TypeInv, NEW i \in DOMAIN from_gem5
    PROVE  /\ from_gem5[i].n \in Bursts /\ from_gem5[i].data \in Seq(Blank)
           /\ from_gem5[i].data # None
<1>1. from_gem5[i] \in ReplyMsgs
  BY MessageFacts, LenProperties, ElementOfSeq
<1> QED
  BY <1>1, MessageFacts DEF ReplyMsgs

-------------------------------------------------------------------------------
(***************************************************************************)
(* The broker: what is sent, performed, delivered and taken.               *)
(***************************************************************************)
LEMMA BrokerFrame ==
    ASSUME BrokerInv, script' = script, AtBroker' = AtBroker,
           UNCHANGED <<to_gem5, from_gem5, pending>>
    PROVE  BrokerInv'
<1>1. \A m : Subject(m)' = Subject(m)
  BY DEF Subject
<1> QED
  BY <1>1, ScriptFixed DEF BrokerInv, MessagesApart, RepliesApart, PendingApart

LEMMA BrokerSend ==
    ASSUME TypeInv, BrokerInv, NEW m \in WriteMsgs \cup ReadMsgs,
           to_gem5' = Append(to_gem5, m), UNCHANGED <<script, from_gem5, pending>>,
           Subject(m) \notin AtBroker, AtBroker' = AtBroker \cup {Subject(m)}
    PROVE  BrokerInv'
<1> DEFINE S == WriteMsgs \cup ReadMsgs
           l == Len(to_gem5) + 1
<1>1. to_gem5 \in Seq(S) /\ m \in S /\ Subject(m) \in Bursts
  BY MessageFacts, SubjectFacts
<1>2. /\ l \in DOMAIN to_gem5' /\ l \notin DOMAIN to_gem5 /\ to_gem5'[l] = m
      /\ \A i \in DOMAIN to_gem5 : to_gem5'[i] = to_gem5[i]
      /\ \A i \in DOMAIN to_gem5' : i \in DOMAIN to_gem5 \/ i = l
  <2> HIDE DEF S
  <2> QED
    BY <1>1, AppendAt
<1> HIDE DEF S, l
<1>3. pending[Subject(m)] = None
  BY <1>1 DEF BrokerInv, PendingApart
<1>4. \A j \in DOMAIN from_gem5 : from_gem5[j].n # Subject(m)
  BY DEF BrokerInv, RepliesApart
<1>5. \A i \in DOMAIN to_gem5 : Subject(to_gem5[i]) # Subject(m)
  BY DEF BrokerInv, MessagesApart
<1>6. MessagesApart'
  <2> SUFFICES ASSUME NEW i \in DOMAIN to_gem5'
               PROVE  /\ Subject(to_gem5'[i]) \in AtBroker' /\ pending[Subject(to_gem5'[i])] = None
                      /\ \A j \in DOMAIN to_gem5' :
                            i # j => Subject(to_gem5'[i]) # Subject(to_gem5'[j])
                      /\ \A j \in DOMAIN from_gem5 : Subject(to_gem5'[i]) # from_gem5[j].n
    BY DEF MessagesApart, Subject
  <2>1. CASE i \in DOMAIN to_gem5
    <3>1. \A j \in DOMAIN to_gem5' : i # j => Subject(to_gem5'[i]) # Subject(to_gem5'[j])
      BY <1>2, <1>5, <2>1 DEF BrokerInv, MessagesApart
    <3> QED
      BY <1>2, <2>1, <3>1 DEF BrokerInv, MessagesApart
  <2>2. CASE i = l
    BY <1>2, <1>3, <1>4, <1>5, <2>2
  <2> QED
    BY <1>2, <2>1, <2>2
<1>7. RepliesApart' /\ PendingApart'
  BY ScriptFixed DEF BrokerInv, RepliesApart, PendingApart
<1> QED
  BY <1>6, <1>7 DEF BrokerInv

LEMMA BrokerTake ==
    ASSUME TypeInv, BrokerInv, NEW n \in Bursts, pending[n] # None,
           pending' = [pending EXCEPT ![n] = None], UNCHANGED <<script, to_gem5, from_gem5>>,
           AtBroker \ {n} \subseteq AtBroker'
    PROVE  BrokerInv'
<1>1. pending' \in [Bursts -> Seq(Blank) \cup {None}] /\ pending'[n] = None
      /\ \A x \in Bursts : x # n => pending'[x] = pending[x]
  BY MessageFacts
<1>2. /\ \A i \in DOMAIN to_gem5 : Subject(to_gem5[i]) \in Bursts /\ Subject(to_gem5[i]) # n
      /\ \A i \in DOMAIN from_gem5 : from_gem5[i].n # n
  BY MessageAt DEF BrokerInv, MessagesApart, RepliesApart
<1>3. \A i \in DOMAIN from_gem5 : from_gem5[i].n \in Bursts
  BY ReplyAt
<1>4. \A m : Subject(m)' = Subject(m)
  BY DEF Subject
<1>5. MessagesApart'
  BY <1>1, <1>2, <1>4 DEF BrokerInv, MessagesApart
<1>6. RepliesApart'
  BY <1>1, <1>2, <1>3, ScriptFixed DEF BrokerInv, RepliesApart
<1>7. PendingApart'
  BY <1>1, ScriptFixed DEF BrokerInv, PendingApart
<1> QED
  BY <1>5, <1>6, <1>7 DEF BrokerInv

\* What gem5 replies.
LEMMA Gem5Replies ==
    ASSUME TypeInv, Gem5Access, NEW h, h = Head(to_gem5)
    PROVE  /\ h = to_gem5[1] /\ 1 \in DOMAIN to_gem5 /\ h \in WriteMsgs \cup ReadMsgs
           /\ \E d \in Seq(Blank) :
                 /\ from_gem5' = Append(from_gem5, [n |-> Subject(h), data |-> d])
                 /\ Subject(h) \in Of("write") => d = << >>
                 /\ Subject(h) \in Of("read") => d = Fetched(Subject(h))
<1>1. to_gem5 # << >>
  BY DEF Gem5Access
<1>2. 1 \in DOMAIN to_gem5 /\ to_gem5[1] = h
  <2> DEFINE S == WriteMsgs \cup ReadMsgs
             p == Tail(to_gem5)
  <2>1. to_gem5 \in Seq(S) /\ p = Tail(to_gem5)
    BY MessageFacts
  <2> HIDE DEF S, p
  <2> QED
    BY <1>1, <2>1, TailAt
<1>3. h \in WriteMsgs \cup ReadMsgs
  BY <1>2, MessageAt
<1>4. CASE h \in WriteMsgs
  <2>1. Subject(h) = h.aw /\ h.aw \in Of("write") /\ "ar" \notin DOMAIN h
    BY <1>4, SubjectFacts
  <2>2. from_gem5' = Append(from_gem5, [n |-> Subject(h), data |-> << >>])
    BY <2>1 DEF Gem5Access
  <2>3. Subject(h) \notin Of("read") /\ << >> \in Seq(Blank)
    BY <2>1, MessageFacts
  <2> QED
    BY <1>2, <1>3, <2>2, <2>3
<1>5. CASE h \in ReadMsgs
  <2>1. Subject(h) = h.ar /\ h.ar \in Of("read") /\ "aw" \notin DOMAIN h
    BY <1>5, SubjectFacts
  <2>2. from_gem5' = Append(from_gem5, [n |-> Subject(h), data |-> Fetched(Subject(h))])
    BY <2>1 DEF Gem5Access
  <2>3. Subject(h) \notin Of("write")
    BY <2>1, MessageFacts
  <2>4. Fetched(Subject(h)) \in Seq(Blank)
    <3> DEFINE x == [n |-> Subject(h), data |-> Fetched(Subject(h))]
    <3>1. from_gem5' = Append(from_gem5, x) /\ x.data = Fetched(Subject(h))
      BY <2>2
    <3> HIDE DEF x
    <3> QED
      BY <2>1, FetchedType
  <2> QED
    BY <1>2, <1>3, <2>2, <2>3, <2>4
<1> QED
  BY <1>3, <1>4, <1>5

LEMMA BrokerGem5 ==
    ASSUME TypeInv, BrokerInv, Gem5Access
    PROVE  BrokerInv'
<1>1. /\ UNCHANGED <<script, proxyVars, pending>> /\ to_gem5' = Tail(to_gem5) /\ to_gem5 # << >>
      /\ AtBroker' = AtBroker
  BY DEF Gem5Access, AtBroker, Only, proxyVars
<1>2. PICK h : h = Head(to_gem5)
  OBVIOUS
<1>3. PICK n : n = Subject(h)
  OBVIOUS
<1>4. 1 \in DOMAIN to_gem5 /\ h = to_gem5[1] /\ h \in WriteMsgs \cup ReadMsgs
  BY <1>2, Gem5Replies
<1>5. PICK d \in Seq(Blank) : /\ from_gem5' = Append(from_gem5, [n |-> n, data |-> d])
                              /\ n \in Of("write") => d = << >>
  BY <1>2, <1>3, Gem5Replies
<1>6. PICK x : x = [n |-> n, data |-> d]
  OBVIOUS
<1>7. PICK l : l = Len(from_gem5) + 1
  OBVIOUS
<1>8. /\ l \in DOMAIN from_gem5' /\ l \notin DOMAIN from_gem5 /\ from_gem5'[l] = x
      /\ \A i \in DOMAIN from_gem5 : from_gem5'[i] = from_gem5[i]
      /\ \A i \in DOMAIN from_gem5' : i \in DOMAIN from_gem5 \/ i = l
  <2>1. n \in Bursts
    BY <1>3, <1>4, MessageAt
  <2>2. from_gem5 \in Seq(ReplyMsgs) /\ x \in ReplyMsgs
    BY <1>5, <1>6, <2>1, MessageFacts DEF ReplyMsgs
  <2> QED
    BY <1>5, <1>6, <1>7, <2>2, AppendAt
<1>9. \A i \in DOMAIN to_gem5' : i + 1 \in DOMAIN to_gem5 /\ i \in Nat /\ i + 1 # 1
                                 /\ to_gem5'[i] = to_gem5[i + 1]
  <2> DEFINE S == WriteMsgs \cup ReadMsgs
  <2>1. to_gem5 \in Seq(S)
    BY MessageFacts
  <2> HIDE DEF S
  <2> QED
    BY <1>1, <2>1, TailAt
<1>10. /\ n \in AtBroker /\ pending[n] = None
       /\ \A i \in DOMAIN to_gem5' : Subject(to_gem5'[i]) # n
       /\ \A j \in DOMAIN from_gem5 : from_gem5[j].n # n
  <2>1. /\ n \in AtBroker /\ pending[n] = None
        /\ \A j \in DOMAIN to_gem5 : 1 # j => n # Subject(to_gem5[j])
        /\ \A j \in DOMAIN from_gem5 : n # from_gem5[j].n
    BY <1>3, <1>4 DEF BrokerInv, MessagesApart
  <2> QED
    BY <1>9, <2>1
<1>11. MessagesApart'
  <2> SUFFICES ASSUME NEW i \in DOMAIN to_gem5'
               PROVE  /\ Subject(to_gem5'[i]) \in AtBroker /\ pending[Subject(to_gem5'[i])] = None
                      /\ \A j \in DOMAIN to_gem5' :
                            i # j => Subject(to_gem5'[i]) # Subject(to_gem5'[j])
                      /\ \A j \in DOMAIN from_gem5' : Subject(to_gem5'[i]) # from_gem5'[j].n
    BY <1>1 DEF MessagesApart, Subject
  <2>1. i + 1 \in DOMAIN to_gem5 /\ i \in Nat /\ to_gem5'[i] = to_gem5[i + 1]
    BY <1>9
  <2>2. \A j \in DOMAIN to_gem5' : i # j => Subject(to_gem5'[i]) # Subject(to_gem5'[j])
    <3> SUFFICES ASSUME NEW j \in DOMAIN to_gem5', i # j
                 PROVE  Subject(to_gem5'[i]) # Subject(to_gem5'[j])
      OBVIOUS
    <3>1. j + 1 \in DOMAIN to_gem5 /\ to_gem5'[j] = to_gem5[j + 1] /\ i + 1 # j + 1
      BY <1>9, <2>1
    <3> QED
      BY <2>1, <3>1 DEF BrokerInv, MessagesApart
  <2>3. \A j \in DOMAIN from_gem5' : Subject(to_gem5'[i]) # from_gem5'[j].n
    BY <1>6, <1>8, <1>10, <2>1 DEF BrokerInv, MessagesApart
  <2> QED
    BY <2>1, <2>2, <2>3 DEF BrokerInv, MessagesApart
<1>12. RepliesApart'
  <2> SUFFICES ASSUME NEW i \in DOMAIN from_gem5'
               PROVE  /\ from_gem5'[i].n \in AtBroker /\ pending[from_gem5'[i].n] = None
                      /\ \A j \in DOMAIN from_gem5' :
                            i # j => from_gem5'[i].n # from_gem5'[j].n
                      /\ from_gem5'[i].n \in Of("write") => from_gem5'[i].data = << >>
    BY <1>1, ScriptFixed DEF RepliesApart
  <2>1. x.n = n /\ x.data = d
    BY <1>6
  <2>2. CASE i \in DOMAIN from_gem5
    <3>1. \A j \in DOMAIN from_gem5' : i # j => from_gem5'[i].n # from_gem5'[j].n
      BY <1>8, <1>10, <2>1, <2>2 DEF BrokerInv, RepliesApart
    <3> QED
      BY <1>8, <2>2, <3>1 DEF BrokerInv, RepliesApart
  <2>3. CASE i = l
    BY <1>5, <1>8, <1>10, <2>1, <2>3
  <2> QED
    BY <1>8, <2>2, <2>3
<1>13. PendingApart'
  BY <1>1, ScriptFixed DEF BrokerInv, PendingApart
<1> QED
  BY <1>11, <1>12, <1>13 DEF BrokerInv

LEMMA Delivered ==
    ASSUME TypeInv, BrokerInv, deliver, NEW h, h = Head(from_gem5)
    PROVE  /\ h = from_gem5[1] /\ 1 \in DOMAIN from_gem5 /\ h \in ReplyMsgs
           /\ h.n \in Bursts /\ h.data \in Seq(Blank) /\ h.data # None
           /\ pending' = [pending EXCEPT ![h.n] = h.data] /\ pending[h.n] = None
           /\ \A i \in DOMAIN from_gem5' :
                 /\ i + 1 \in DOMAIN from_gem5 /\ i \in Nat /\ i + 1 # 1
                 /\ from_gem5'[i] = from_gem5[i + 1] /\ from_gem5'[i].n # h.n
           /\ \A i \in DOMAIN from_gem5 : i # 1 =>
                 i \in Nat /\ i - 1 \in DOMAIN from_gem5' /\ from_gem5'[i - 1] = from_gem5[i]
<1>1. from_gem5 # << >> /\ from_gem5' = Tail(from_gem5) /\ from_gem5 \in Seq(ReplyMsgs)
  BY MessageFacts DEF deliver
<1>2. /\ h = from_gem5[1] /\ 1 \in DOMAIN from_gem5 /\ h \in ReplyMsgs
      /\ \A i \in DOMAIN from_gem5' : /\ i + 1 \in DOMAIN from_gem5 /\ i \in Nat /\ i + 1 # 1
                                      /\ from_gem5'[i] = from_gem5[i + 1]
      /\ \A i \in DOMAIN from_gem5 : i # 1 =>
            i \in Nat /\ i - 1 \in DOMAIN from_gem5' /\ from_gem5'[i - 1] = from_gem5[i]
  BY <1>1, TailAt
<1>3. h.n \in Bursts /\ h.data \in Seq(Blank) /\ h.data # None
  BY <1>2, MessageFacts DEF ReplyMsgs
<1>4. /\ pending[h.n] = None
      /\ \A j \in DOMAIN from_gem5 : 1 # j => h.n # from_gem5[j].n
  BY <1>2 DEF BrokerInv, RepliesApart
<1>5. \A i \in DOMAIN from_gem5' : from_gem5'[i].n # h.n
  BY <1>2, <1>4
<1>6. pending' = [pending EXCEPT ![h.n] = h.data]
  BY DEF deliver
<1> QED
  BY <1>2, <1>3, <1>4, <1>5, <1>6

LEMMA BrokerDeliver ==
    ASSUME TypeInv, BrokerInv, deliver
    PROVE  BrokerInv'
<1>1. /\ UNCHANGED <<script, proxyVars, to_gem5>> /\ AtBroker' = AtBroker
  BY DEF deliver, AtBroker, Only, proxyVars
<1>2. PICK h : h = Head(from_gem5)
  OBVIOUS
<1>3. /\ h = from_gem5[1] /\ 1 \in DOMAIN from_gem5
      /\ h.n \in Bursts /\ pending' = [pending EXCEPT ![h.n] = h.data]
      /\ \A i \in DOMAIN from_gem5' :
            /\ i + 1 \in DOMAIN from_gem5 /\ i \in Nat /\ i + 1 # 1
            /\ from_gem5'[i] = from_gem5[i + 1] /\ from_gem5'[i].n # h.n
  BY <1>2, Delivered
<1>4. pending'[h.n] = h.data /\ \A n \in Bursts : n # h.n => pending'[n] = pending[n]
  BY <1>3, MessageFacts
<1>5. /\ h.n \in AtBroker /\ (h.n \in Of("write") => h.data = << >>)
  BY <1>3 DEF BrokerInv, RepliesApart
<1>6. MessagesApart'
  <2> SUFFICES ASSUME NEW i \in DOMAIN to_gem5
               PROVE  /\ Subject(to_gem5[i]) \in AtBroker /\ pending'[Subject(to_gem5[i])] = None
                      /\ \A j \in DOMAIN to_gem5 :
                            i # j => Subject(to_gem5[i]) # Subject(to_gem5[j])
                      /\ \A j \in DOMAIN from_gem5' : Subject(to_gem5[i]) # from_gem5'[j].n
    BY <1>1 DEF MessagesApart, Subject
  <2>1. Subject(to_gem5[i]) \in Bursts
    BY MessageAt
  <2>2. Subject(to_gem5[i]) # h.n
    BY <1>3 DEF BrokerInv, MessagesApart
  <2> QED
    BY <1>3, <1>4, <2>1, <2>2 DEF BrokerInv, MessagesApart
<1>7. RepliesApart'
  <2> SUFFICES ASSUME NEW i \in DOMAIN from_gem5'
               PROVE  /\ from_gem5'[i].n \in AtBroker /\ pending'[from_gem5'[i].n] = None
                      /\ \A j \in DOMAIN from_gem5' :
                            i # j => from_gem5'[i].n # from_gem5'[j].n
                      /\ from_gem5'[i].n \in Of("write") => from_gem5'[i].data = << >>
    BY <1>1, ScriptFixed DEF RepliesApart
  <2>1. from_gem5'[i].n # h.n /\ from_gem5'[i] = from_gem5[i + 1] /\ i + 1 \in DOMAIN from_gem5
        /\ i \in Nat
    BY <1>3
  <2>2. from_gem5[i + 1].n \in Bursts
    BY <2>1, ReplyAt
  <2>3. \A j \in DOMAIN from_gem5' : i # j => from_gem5'[i].n # from_gem5'[j].n
    <3> SUFFICES ASSUME NEW j \in DOMAIN from_gem5', i # j PROVE from_gem5'[i].n # from_gem5'[j].n
      OBVIOUS
    <3>1. j + 1 \in DOMAIN from_gem5 /\ from_gem5'[j] = from_gem5[j + 1] /\ i + 1 # j + 1
      BY <1>3, <2>1
    <3> QED
      BY <2>1, <3>1 DEF BrokerInv, RepliesApart
  <2> QED
    BY <1>4, <2>1, <2>2, <2>3 DEF BrokerInv, RepliesApart
<1>8. PendingApart'
  BY <1>1, <1>4, <1>5, ScriptFixed DEF BrokerInv, PendingApart
<1> QED
  BY <1>6, <1>7, <1>8 DEF BrokerInv

LEMMA BrokerB ==
    ASSUME TypeInv, BrokerInv, b_task
    PROVE  BrokerInv'
<1>1. UNCHANGED <<script, from_gem5, r, r_cur>>
  BY DEF b_task
<1>2. CASE b = "look" /\ pending_b # << >>
  <2>1. PICK m : m = Head(pending_b)
    OBVIOUS
  <2>2. m \in WriteMsgs /\ m.aw \in Of("write") /\ m.aw # None
    BY <1>2, <2>1, RequestedFacts, MessageFacts DEF WriteBursts, WriteMsgs
  <2>3. /\ to_gem5' = Append(to_gem5, m) /\ b_cur' = m.aw /\ b_cur = None
        /\ UNCHANGED <<script, from_gem5, pending>>
    BY <1>1, <1>2, <2>1, MessageFacts DEF b_task, b_sent
  <2>4. Subject(m) = m.aw /\ m \in WriteMsgs \cup ReadMsgs
    BY <2>2, SubjectFacts
  <2>5. Subject(m) \notin AtBroker /\ AtBroker' = AtBroker \cup {Subject(m)}
    <3>1. Only(b_cur) = {} /\ Only(b_cur)' = {m.aw}
      BY <2>2, <2>3 DEF Only
    <3>2. r = "wait" => r_cur \in Of("read") /\ r_cur # m.aw
      BY <2>2, MessageFacts
    <3> QED
      BY <1>1, <2>4, <3>1, <3>2 DEF AtBroker
  <2> QED
    BY <2>3, <2>4, <2>5, BrokerSend
<1>3. CASE b = "wait" /\ pending[b_cur] # None
  <2>1. b_cur \in Bursts /\ b_cur # None
    BY <1>3, MessageFacts
  <2>2. /\ b_cur' = None /\ pending' = [pending EXCEPT ![b_cur] = None]
        /\ UNCHANGED <<script, to_gem5, from_gem5>>
    BY <1>1, <1>3 DEF b_task
  <2>3. AtBroker \ {b_cur} \subseteq AtBroker'
    BY <1>1 DEF AtBroker, Only
  <2> QED
    BY <1>3, <2>1, <2>2, <2>3, BrokerTake
<1>4. CASE UNCHANGED <<b_cur, to_gem5, pending>>
  BY <1>1, <1>4, BrokerFrame DEF AtBroker, Only
<1> QED
  BY <1>2, <1>3, <1>4 DEF b_task

LEMMA BrokerR ==
    ASSUME TypeInv, BrokerInv, r_task
    PROVE  BrokerInv'
<1>1. UNCHANGED <<script, from_gem5, b_cur>>
  BY DEF r_task
<1>2. CASE r = "look" /\ ar_queue # << >>
  <2>1. PICK n : n = Head(ar_queue)
    OBVIOUS
  <2>2. n \in Of("read")
    BY <1>2, <2>1, HeadTailProperties DEF TypeInv, TypeOK, ProxyTypeOK
  <2>3. PICK m : m = [ar |-> n]
    OBVIOUS
  <2>4. m \in ReadMsgs /\ m \in WriteMsgs \cup ReadMsgs /\ Subject(m) = n
    BY <2>2, <2>3, SubjectFacts DEF ReadMsgs
  <2>5. /\ to_gem5' = Append(to_gem5, m) /\ r_cur' = n /\ r' = "wait"
        /\ UNCHANGED <<script, from_gem5, pending>>
    BY <1>1, <1>2, <2>1, <2>3 DEF r_task, r_hold, ar_next
  <2>6. Subject(m) \notin AtBroker /\ AtBroker' = AtBroker \cup {Subject(m)}
    <3>1. n \notin Only(b_cur) /\ Only(b_cur)' = Only(b_cur)
      BY <1>1, <2>2, MessageFacts DEF Only
    <3> QED
      BY <1>2, <2>4, <2>5, <3>1 DEF AtBroker
  <2> QED
    BY <2>4, <2>5, <2>6, BrokerSend
<1>3. CASE r = "wait" /\ pending[r_cur] # None
  <2>1. r_cur \in Bursts
    BY <1>3, MessageFacts
  <2>2. /\ pending' = [pending EXCEPT ![r_cur] = None]
        /\ UNCHANGED <<script, to_gem5, from_gem5, r_cur>>
    BY <1>1, <1>3 DEF r_task, r_hold
  <2>3. AtBroker \ {r_cur} \subseteq AtBroker'
    BY <1>1 DEF AtBroker, Only
  <2> QED
    BY <1>3, <2>1, <2>2, <2>3, BrokerTake
<1>4. CASE ~(r = "look" /\ ar_queue # << >>) /\ ~(r = "wait" /\ pending[r_cur] # None)
  <2>1. UNCHANGED <<to_gem5, pending>> /\ (r' = "wait" <=> r = "wait") /\ r_cur' = r_cur
    BY <1>4 DEF r_task, r_hold
  <2> QED
    BY <1>1, <2>1, BrokerFrame DEF AtBroker, Only
<1> QED
  BY <1>2, <1>3, <1>4

LEMMA BrokerStep ==
    ASSUME TypeInv, BrokerInv, Next
    PROVE  BrokerInv'
<1>1. CASE aw_task \/ w_task \/ b_drive_task \/ ar_task \/ axi_monitor \/ RisingEdge
  <2>1. UNCHANGED <<script, to_gem5, from_gem5, pending, b_cur, r, r_cur>>
    BY <1>1 DEF aw_task, w_task, b_drive_task, ar_task, axi_monitor, RisingEdge, memVars, proxyVars
  <2> QED
    BY <2>1, BrokerFrame DEF AtBroker, Only
<1> QED
  BY <1>1, BrokerB, BrokerR, BrokerGem5, BrokerDeliver DEF Next

-------------------------------------------------------------------------------
(***************************************************************************)
(* The write data.  What the DUT shows after burst x are the later bursts. *)
(***************************************************************************)
LEMMA AfterPast ==
    ASSUME script \in Scripts, NEW kind, NEW x \in Of(kind), NEW n \in Of(kind)
    PROVE  /\ Past(After(kind, x), n) <=> n <= x
           /\ n > x <=> After(kind, x) # None /\ n >= After(kind, x)
<1>1. Of(kind) \subseteq Nat /\ None \notin Nat
  BY ScriptFacts, NoneIsNoValue
<1>2. CASE After(kind, x) = None
  BY <1>1, <1>2, AfterFacts DEF Past
<1>3. CASE After(kind, x) # None
  <2>1. /\ After(kind, x) \in Nat /\ After(kind, x) > x
        /\ \A j \in Of(kind) : j > x => After(kind, x) <= j
    BY <1>1, <1>3, AfterFacts
  <2> QED
    BY <1>1, <1>3, <2>1 DEF Past
<1> QED
  BY <1>2, <1>3

LEMMA ComingFacts ==
    ASSUME TypeInv
    PROVE  /\ Coming \in Beats \cup {None} /\ None \notin Beats
           /\ \A x \in Beats : x = Beat(x.n, x.i) /\ x.n \in Of("write") /\ x.n \in Nat
           /\ Coming # None => /\ Coming.n \in Of("write") /\ Coming.n \in Nat
                               /\ Coming.i \in 1 .. NBeats(Coming.n)
                               /\ NBeats(Coming.n) \in Nat \ {0}
           /\ script \in Scripts /\ beats \in Seq(Beats)
           /\ aw_queue \in Seq(Of("write")) /\ aw_queue \in Seq(Nat)
           /\ aw \in Of("write") \cup {None} /\ next_aw \in Of("write") \cup {None}
           /\ Of("write") \subseteq Nat /\ None \notin Nat
<1>1. /\ script \in Scripts /\ Of("write") \subseteq Nat /\ None \notin Nat
      /\ \A n \in Of("write") : NBeats(n) \in Nat \ {0}
  BY ScriptFacts, NoneIsNoValue DEF TypeInv, TypeOK
<1>2. /\ next_w \in Beats \cup {None} /\ w \in Beats \cup {None} /\ beats \in Seq(Beats)
      /\ aw_queue \in Seq(Of("write"))
      /\ aw \in Of("write") \cup {None} /\ next_aw \in Of("write") \cup {None}
  BY DEF TypeInv, TypeOK, DutTypeOK, ProxyTypeOK
<1>3. /\ w # None => w.i \in 1 .. NBeats(w.n)
      /\ next_w # None => next_w.i \in 1 .. NBeats(next_w.n)
  BY DEF TypeInv, BeatsFit
<1>4. \A x \in Beats : x = Beat(x.n, x.i) /\ x.n \in Of("write") /\ x.n \in Nat
  BY <1>1 DEF Beats, Beat
<1>5. None \notin Beats
  <2>1. Beats \subseteq [n : Nat, i : Nat]
    BY <1>1 DEF Beats
  <2> QED
    BY <2>1, NoneIsNoValue
<1>6. Coming \in Beats \cup {None} /\ (Coming # None => Coming.i \in 1 .. NBeats(Coming.n))
  BY <1>2, <1>3 DEF Coming
<1>7. aw_queue \in Seq(Nat)
  BY <1>1, <1>2
<1> QED
  BY <1>1, <1>2, <1>4, <1>5, <1>6, <1>7

\* The queue of addresses without its first.
LEMMA MembersRest ==
    ASSUME NEW q \in Seq(Nat), q # << >>, Increasing(q)
    PROVE  Members(Tail(q)) = Members(q) \ {Head(q)}
<1>1. Members(Tail(q)) \subseteq Members(q) \ {Head(q)}
  BY MembersTail
<1>2. PICK p : p = Tail(q)
  OBVIOUS
<1>3. /\ q[1] = Head(q)
      /\ \A i \in DOMAIN q : i # 1 => i \in Nat /\ i - 1 \in DOMAIN p /\ p[i - 1] = q[i]
  BY <1>2, TailAt
<1>4. \A x \in Members(q) : x # Head(q) => x \in Members(p)
  <2> SUFFICES ASSUME NEW i \in DOMAIN q, q[i] # Head(q) PROVE q[i] \in Members(p)
    BY DEF Members
  <2>1. i - 1 \in DOMAIN p /\ p[i - 1] = q[i]
    BY <1>3
  <2> QED
    BY <2>1 DEF Members
<1> QED
  BY <1>1, <1>2, <1>4

LEMMA CollectFrame ==
    ASSUME CollectInv, script' = script,
           UNCHANGED <<beats, w, next_w, next_aw, aw_queue, aw>>,
           "w" \in todo' <=> "w" \in todo, "aw" \in todo' <=> "aw" \in todo
    PROVE  CollectInv' /\ Coming' = Coming
<1>1. Coming' = Coming /\ AwHeld' = AwHeld
  BY DEF Coming, AwHeld, Members, Only
<1>2. \A x : NextBeat(x)' = NextBeat(x)
  <2>1. Of("write")' = Of("write")
    BY ScriptFixed
  <2> QED
    BY <2>1 DEF NextBeat, NBeats, FirstBeat, Beat, After
<1> QED
  BY <1>1, <1>2, ScriptFixed DEF CollectInv, Past, Beat

LEMMA CollectAw ==
    ASSUME TypeInv, CollectInv, aw_task
    PROVE  CollectInv' /\ Coming' = Coming
<1>1. /\ UNCHANGED <<script, beats, w, next_w, next_aw, aw>>
      /\ aw_queue' = sampled(aw_queue, aw) /\ "aw" \in todo /\ todo' = todo \ {"aw"}
  BY DEF aw_task, Resumes, dutVars
<1>2. Coming' = Coming
  BY <1>1 DEF Coming
<1>3. AwHeld' = AwHeld
  <2>1. Members(aw_queue') = Members(aw_queue) \cup Only(aw)
    <3>1. CASE aw = None
      BY <1>1, <3>1 DEF sampled, Only
    <3>2. CASE aw # None
      BY <1>1, <3>2, ComingFacts, MembersAppend DEF sampled, Only
    <3> QED
      BY <3>1, <3>2
  <2>2. AwHeld' = Members(aw_queue')
    BY <1>1 DEF AwHeld, Members
  <2> QED
    BY <1>1, <2>1, <2>2 DEF AwHeld
<1>4. \A x : NextBeat(x)' = NextBeat(x)
  <2>1. Of("write")' = Of("write")
    BY <1>1, ScriptFixed
  <2> QED
    BY <1>1, <2>1 DEF NextBeat, NBeats, FirstBeat, Beat, After
<1>5. "w" \in todo' <=> "w" \in todo
  BY <1>1
<1> QED
  BY <1>1, <1>2, <1>3, <1>4, <1>5, ScriptFixed DEF CollectInv, Past, Beat

\* w_task appends the beat it sees.
LEMMA Collected ==
    ASSUME TypeInv, CollectInv, "w" \in todo, w # None, NEW p, p = Append(beats, w)
    PROVE  /\ w \in Beats /\ Coming = w /\ Len(p) = w.i /\ DOMAIN p = 1 .. w.i
           /\ p \in Seq(Beats)
           /\ \A i \in 1 .. w.i : p[i] = Beat(w.n, i)
<1>1. Coming = w /\ w \in Beats /\ beats \in Seq(Beats) /\ w = Beat(w.n, w.i)
  BY ComingFacts DEF Coming
<1>2. w.i = Len(beats) + 1 /\ \A i \in DOMAIN beats : beats[i] = Beat(w.n, i)
  BY <1>1 DEF CollectInv
<1>3. PICK S : S = Beats
  OBVIOUS
<1>4. /\ DOMAIN p = 1 .. w.i /\ Len(p) = w.i /\ p[w.i] = w
      /\ \A i \in DOMAIN beats : p[i] = beats[i]
      /\ \A i \in DOMAIN p : i \in DOMAIN beats \/ i = w.i
  <2>1. beats \in Seq(S) /\ w \in S
    BY <1>1, <1>3
  <2> QED
    BY <1>2, <2>1, AppendAt
<1>5. p \in Seq(S)
  BY <1>1, <1>3, AppendProperties
<1> QED
  BY <1>1, <1>2, <1>3, <1>4, <1>5

\* The address at the head of aw_queue is that of the write collected.
LEMMA HeadIsComing ==
    ASSUME TypeInv, CollectInv, WriteFlow, "aw" \notin todo, "w" \in todo, w # None
    PROVE  /\ aw_queue # << >> /\ Head(aw_queue) = w.n
           /\ Members(Tail(aw_queue)) = AwHeld \ {w.n} /\ AwHeld = Members(aw_queue)
<1>1. Coming = w /\ w.n \in Of("write") /\ w.n \in Nat /\ AwHeld = Members(aw_queue)
  BY ComingFacts DEF Coming, AwHeld
<1>2. w.n \in Members(aw_queue)
  BY <1>1 DEF CollectInv
<1>3. aw_queue # << >>
  <2>1. aw_queue = << >> => Members(aw_queue) = {}
    BY DEF Members
  <2> QED
    BY <1>2, <2>1
<1>4. aw_queue \in Seq(Nat) /\ Increasing(aw_queue) /\ aw_queue \in Seq(Of("write"))
  BY ComingFacts DEF WriteFlow
<1>5. Head(aw_queue) \in Members(aw_queue) /\ Head(aw_queue) <= w.n
  BY <1>2, <1>3, <1>4, MembersTail
<1>6. Head(aw_queue) \in Of("write") /\ Head(aw_queue) \in Nat
  BY <1>3, <1>4, HeadTailProperties
<1>7. Head(aw_queue) >= w.n
  BY <1>1, <1>5, <1>6 DEF CollectInv
<1>8. Head(aw_queue) = w.n
  BY <1>1, <1>5, <1>6, <1>7
<1> QED
  BY <1>1, <1>3, <1>4, <1>8, MembersRest

\* Writes that are waiting for gem5 have been collected.
WritesInv == WholeInv /\ CollectedInv

LEMMA CollectW ==
    ASSUME TypeInv, CollectInv, WritesInv, WriteFlow, w_task
    PROVE  CollectInv' /\ WritesInv'
<1>1. /\ UNCHANGED <<script, w, next_w, next_aw, aw, b_cur, to_gem5>>
      /\ "w" \in todo /\ todo' = todo \ {"w"} /\ "aw" \notin todo
  BY DEF w_task, Resumes, dutVars, memVars, AwFirst
<1>2. /\ Coming' = next_w /\ "w" \notin todo' /\ "aw" \notin todo'
      /\ AwHeld = Members(aw_queue) /\ AwHeld' = Members(aw_queue')
  BY <1>1 DEF Coming, AwHeld, Members
<1>3. \A n : Past(next_aw, n)' <=> Past(next_aw, n)
  BY <1>1 DEF Past
<1>4. CASE w = None
  <2>1. UNCHANGED <<aw_queue, beats, pending_b>> /\ Coming = next_w
    BY <1>4 DEF w_task, Coming, LastBeat
  <2>2. CollectInv'
    BY <1>1, <1>2, <1>3, <2>1, ScriptFixed DEF CollectInv, Beat
  <2>3. Requested' = Requested /\ Only(b_cur)' = Only(b_cur)
    BY <1>1, <2>1 DEF Requested, Addresses, Only
  <2>4. CollectedInv'
    BY <1>2, <2>1, <2>3 DEF WritesInv, CollectedInv, Members
  <2>5. WholeInv'
    BY <1>1, <2>1, ScriptFixed DEF WritesInv, WholeInv, Whole, Beat
  <2> QED
    BY <2>2, <2>4, <2>5 DEF WritesInv
<1>5. CASE w # None
  <2>1. PICK p : p = Append(beats, w)
    OBVIOUS
  <2>2. /\ w \in Beats /\ Coming = w /\ Len(p) = w.i /\ DOMAIN p = 1 .. w.i /\ p \in Seq(Beats)
        /\ \A i \in 1 .. w.i : p[i] = Beat(w.n, i)
    BY <1>1, <1>5, <2>1, Collected
  <2>3. /\ w.n \in Of("write") /\ w.n \in Nat /\ w.i \in 1 .. NBeats(w.n)
        /\ NBeats(w.n) \in Nat \ {0} /\ next_w = NextBeat(w) /\ script \in Scripts
        /\ None \notin Nat /\ None \notin Beats
    BY <1>1, <1>5, <2>2, ComingFacts DEF CollectInv
  <2>4. CASE ~LastBeat
    <3>1. beats' = p /\ UNCHANGED <<aw_queue, pending_b>>
      BY <1>5, <2>1, <2>4 DEF w_task
    <3>2. /\ next_w = Beat(w.n, w.i + 1) /\ next_w.n = w.n /\ next_w.i = w.i + 1
          /\ next_w # None
      <4>1. w.i < NBeats(w.n)
        BY <1>5, <2>3, <2>4 DEF LastBeat
      <4>2. Beat(w.n, w.i + 1) \in Beats
        BY <2>3 DEF Beat, Beats
      <4> QED
        BY <2>3, <4>1, <4>2 DEF NextBeat, Beat
    <3>3. CollectInv'
      <4>1. /\ Coming' # None /\ Coming'.i = Len(beats') + 1
            /\ \A i \in DOMAIN beats' : beats'[i] = Beat(Coming.n, i)'
        BY <1>2, <2>2, <3>1, <3>2 DEF Beat
      <4>2. AwHeld' = AwHeld /\ Coming'.n = Coming.n /\ Coming # None
        BY <1>2, <1>5, <2>2, <3>1, <3>2
      <4> QED
        BY <1>1, <1>2, <1>3, <4>1, <4>2, ScriptFixed DEF CollectInv
    <3>4. Requested' = Requested /\ Only(b_cur)' = Only(b_cur)
      BY <1>1, <3>1 DEF Requested, Addresses, Only
    <3>5. CollectedInv'
      BY <1>2, <1>5, <2>2, <3>2, <3>4 DEF WritesInv, CollectedInv, Members
    <3>6. WholeInv'
      BY <1>1, <3>1, ScriptFixed DEF WritesInv, WholeInv, Whole, Beat
    <3> QED
      BY <3>3, <3>5, <3>6 DEF WritesInv
  <2>5. CASE LastBeat
    <3>1. /\ aw_queue # << >> /\ Head(aw_queue) = w.n
          /\ Members(Tail(aw_queue)) = AwHeld \ {w.n}
      BY <1>1, <1>5, HeadIsComing
    <3>2. PICK x : x = [aw |-> w.n, beats |-> p]
      OBVIOUS
    <3>3. /\ pending_b' = Append(pending_b, x) /\ aw_queue' = Tail(aw_queue) /\ beats' = << >>
      BY <1>5, <2>1, <2>5, <3>1, <3>2 DEF w_task
    <3>4. w.i = NBeats(w.n) /\ next_w = FirstBeat(After("write", w.n))
      BY <2>3, <2>5 DEF LastBeat, NextBeat
    <3>5. \A n \in Of("write") :
             n > w.n <=> next_w # None /\ n >= next_w.n
      <4>1. \A n \in Of("write") :
               n > w.n <=> After("write", w.n) # None /\ n >= After("write", w.n)
        BY <2>3, AfterPast
      <4>2. After("write", w.n) # None =>
               /\ next_w = Beat(After("write", w.n), 1) /\ next_w # None
               /\ next_w.n = After("write", w.n) /\ next_w.i = 1
        <5> SUFFICES ASSUME After("write", w.n) # None
                     PROVE  /\ next_w = Beat(After("write", w.n), 1) /\ next_w # None
                            /\ next_w.n = After("write", w.n) /\ next_w.i = 1
          OBVIOUS
        <5>1. After("write", w.n) \in Of("write")
          BY <2>3, AfterType
        <5>2. Beat(After("write", w.n), 1) \in Beats
          BY <5>1 DEF Beat, Beats
        <5> QED
          BY <2>3, <3>4, <5>2 DEF FirstBeat, Beat
      <4>3. After("write", w.n) = None => next_w = None
        BY <3>4 DEF FirstBeat
      <4> QED
        BY <4>1, <4>2, <4>3
    <3>6. next_w # None => next_w.i = 1 /\ next_w.n > w.n /\ next_w.n \in Nat
      <4>1. next_w # None => next_w.i = 1
        BY <3>4 DEF FirstBeat, Beat
      <4>2. next_w # None => next_w.n \in Of("write") /\ next_w.n \in Nat
        <5>1. next_w \in Beats \cup {None}
          BY DEF TypeInv, TypeOK, DutTypeOK
        <5> QED
          BY <5>1, ComingFacts
      <4> QED
        BY <3>5, <4>1, <4>2
    <3>7. CollectInv'
      <4>1. /\ Coming' = None => beats' = << >>
            /\ Coming' # None => /\ Coming'.i = Len(beats') + 1
                                 /\ \A i \in DOMAIN beats' : beats'[i] = Beat(Coming.n, i)'
        BY <1>2, <3>3, <3>6
      <4>2. \A n \in Of("write") :
               n \in AwHeld' <=> Past(next_aw, n) /\ next_w # None /\ n >= next_w.n
        <5> SUFFICES ASSUME NEW n \in Of("write")
                     PROVE  n \in AwHeld' <=> Past(next_aw, n) /\ next_w # None /\ n >= next_w.n
          OBVIOUS
        <5>1. n \in AwHeld' <=> n \in AwHeld /\ n # w.n
          BY <1>2, <3>1, <3>3
        <5>2. n \in AwHeld <=> Past(next_aw, n) /\ n >= w.n
          BY <1>5, <2>2 DEF CollectInv
        <5>3. n \in Nat
          BY ComingFacts
        <5> QED
          BY <2>3, <3>5, <5>1, <5>2, <5>3
      <4> QED
        BY <1>1, <1>2, <1>3, <4>1, <4>2, ScriptFixed DEF CollectInv
    <3>8. x \in WriteBursts /\ x.aw = w.n /\ x.beats = p
      BY <2>2, <2>3, <3>2 DEF WriteBursts
    <3>9. Members(Requested)' = Members(Requested) \cup {w.n}
      <4>1. Requested' = Append(Requested, w.n)
        BY <3>3, <3>8, RequestedFacts DEF Requested, Addresses
      <4>2. Members(Append(Requested, w.n)) = Members(Requested) \cup {w.n}
        BY <2>3, MembersAppend, RequestedFacts
      <4>3. Members(Requested)' = Members(Requested')
        BY DEF Members
      <4> QED
        BY <4>1, <4>2, <4>3
    <3>10. CollectedInv'
      <4> SUFFICES ASSUME NEW n \in Members(Requested)' \cup Only(b_cur)', next_w # None
                   PROVE  n < next_w.n
        BY <1>2 DEF CollectedInv
      <4>1. n = w.n \/ n \in Members(Requested) \cup Only(b_cur)
        BY <1>1, <3>9 DEF Only
      <4>2. CASE n = w.n
        BY <2>3, <3>6, <4>2
      <4>3. CASE n \in Members(Requested) \cup Only(b_cur)
        <5>1. n < w.n
          BY <1>5, <2>2, <4>3 DEF WritesInv, CollectedInv
        <5>2. n \in Nat
          <6>1. Members(Requested) \subseteq Nat
            BY RequestedFacts, MembersType
          <6>2. Only(b_cur) \subseteq Nat
            BY MessageFacts DEF Only
          <6> QED
            BY <4>3, <6>1, <6>2
        <5> QED
          BY <2>3, <3>6, <5>1, <5>2
      <4> QED
        BY <4>1, <4>2, <4>3
    <3>11. WholeInv'
      <4>1. Whole(x)
        <5>1. p = [i \in 1 .. NBeats(w.n) |-> Beat(w.n, i)]
          <6>1. p = [i \in 1 .. w.i |-> p[i]]
            BY <2>2, LenProperties
          <6> QED
            BY <2>2, <3>4, <6>1
        <5> QED
          BY <3>8, <5>1 DEF Whole
      <4>2. \A y : Whole(y)' = Whole(y)
        BY <1>1, ScriptFixed DEF Whole, Beat
      <4>3. PICK S : S = WriteBursts
        OBVIOUS
      <4>4. pending_b \in Seq(S) /\ x \in S
        BY <3>8, <4>3, RequestedFacts
      <4>5. \A i \in DOMAIN pending_b' : \/ i \in DOMAIN pending_b /\ pending_b'[i] = pending_b[i]
                                         \/ pending_b'[i] = x
        BY <3>3, <4>4, AppendAt
      <4> QED
        BY <1>1, <4>1, <4>2, <4>5 DEF WritesInv, WholeInv
    <3> QED
      BY <3>7, <3>10, <3>11 DEF WritesInv
  <2> QED
    BY <2>4, <2>5
<1> QED
  BY <1>4, <1>5

LEMMA CollectEdge ==
    ASSUME TypeInv, CollectInv, MonitorA, RisingEdge
    PROVE  CollectInv' /\ Coming' = Coming
<1>1. /\ UNCHANGED <<script, beats, aw_queue>> /\ todo = {} /\ todo' = Tasks
      /\ "w" \in todo' /\ "aw" \in todo'
  BY DEF RisingEdge, Idle, proxyVars, Tasks
<1>2. /\ Coming = next_w /\ AwHeld = Members(aw_queue)
      /\ AwHeld' = Members(aw_queue) \cup Only(aw') /\ Coming' = IF w' # None THEN w' ELSE next_w'
  BY <1>1 DEF Coming, AwHeld, Members, Only
<1>3. Coming' = Coming /\ (w' # None => next_w # None /\ w' = next_w /\ next_w' = NextBeat(next_w))
  BY <1>2 DEF RisingEdge, ShowW
<1>4. w' # None => Past(next_aw', w'.n)
  BY <1>3 DEF RisingEdge, ShowW, Past
<1>5. /\ script \in Scripts /\ next_aw \in Of("write") \cup {None} /\ Of("write") \subseteq Nat
      /\ None \notin Nat
  BY ComingFacts
<1>6. \A n \in Of("write") :
         n \in AwHeld' <=> Past(next_aw', n) /\ Coming # None /\ n >= Coming.n
  <2>1. CASE aw' = None /\ UNCHANGED next_aw
    BY <1>2, <2>1 DEF CollectInv, Only
  <2>2. CASE next_aw # None /\ aw' = next_aw /\ next_aw' = After("write", next_aw)
    <3>1. next_aw \in Of("write") /\ next_aw \in Nat
      BY <1>5, <2>2
    <3>2. Coming # None /\ next_aw >= Coming.n /\ Coming.n \in Nat
      <4>1. ~Past(next_aw, next_aw)
        BY <1>5, <3>1 DEF Past
      <4>2. ~(next_w = None \/ next_aw < next_w.n)
        BY <3>1, <4>1 DEF MonitorA
      <4> QED
        BY <1>2, <3>1, <4>2, ComingFacts
    <3>3. AwHeld' = AwHeld \cup {next_aw}
      BY <1>2, <2>2 DEF Only
    <3> SUFFICES ASSUME NEW n \in Of("write")
                 PROVE  n \in AwHeld' <=> Past(next_aw', n) /\ Coming # None /\ n >= Coming.n
      OBVIOUS
    <3>4. Past(next_aw', n) <=> n <= next_aw
      BY <1>5, <2>2, <3>1, AfterPast
    <3>5. Past(next_aw, n) <=> n < next_aw
      BY <2>2 DEF Past
    <3>6. n \in AwHeld <=> n < next_aw /\ n >= Coming.n
      BY <3>2, <3>5 DEF CollectInv
    <3>7. n \in Nat
      BY <1>5
    <3> QED
      BY <3>1, <3>2, <3>3, <3>4, <3>6, <3>7
  <2> QED
    BY <2>1, <2>2 DEF RisingEdge, ShowAW
<1>7. "w" \in todo' /\ w' # None => next_w' = NextBeat(w)' /\ Past(next_aw, w.n)'
  <2>1. NextBeat(next_w) = NextBeat(w)' \/ w' = None
    <3>1. Of("write")' = Of("write")
      BY <1>1, ScriptFixed
    <3> QED
      BY <1>1, <1>3, <3>1 DEF NextBeat, NBeats, FirstBeat, Beat, After
  <2> QED
    BY <1>3, <1>4, <2>1 DEF Past
<1>8. /\ Coming' = None => beats' = << >>
      /\ Coming' # None => /\ Coming'.i = Len(beats') + 1
                           /\ \A i \in DOMAIN beats' : beats'[i] = Beat(Coming.n, i)'
  BY <1>1, <1>3 DEF CollectInv, Beat
<1>9. \A n \in Of("write")' :
         n \in AwHeld' <=> Past(next_aw, n)' /\ Coming' # None /\ n >= Coming'.n
  BY <1>1, <1>3, <1>6, ScriptFixed DEF Past
<1>10. CollectInv'
  BY <1>7, <1>8, <1>9 DEF CollectInv
<1> QED
  BY <1>3, <1>10

LEMMA CollectStep ==
    ASSUME TypeInv, CollectInv, WritesInv, WriteFlow, MonitorA, Next
    PROVE  CollectInv' /\ (Coming' = Coming \/ w_task)
<1>1. CASE aw_task \/ w_task \/ RisingEdge
  BY <1>1, CollectAw, CollectW, CollectEdge
<1>2. CASE b_task \/ b_drive_task \/ ar_task \/ r_task \/ axi_monitor \/ Gem5Access \/ deliver
  <2>1. /\ UNCHANGED <<script, beats, w, next_w, next_aw, aw_queue, aw>>
        /\ \E c \in {"b", "bd", "ar", "r", "mon"} : todo' \in {todo, todo \ {c}}
    BY <1>2 DEF b_task, b_drive_task, ar_task, r_task, r_hold, axi_monitor, Gem5Access, deliver,
                next_edge, Resumes, proxyVars, dutVars
  <2> QED
    BY <2>1, CollectFrame
<1> QED
  BY <1>1, <1>2 DEF Next

LEMMA WritesFrame ==
    ASSUME WritesInv, script' = script, Coming' = Coming,
           UNCHANGED <<pending_b, b_cur, to_gem5>>
    PROVE  WritesInv'
<1>1. Requested' = Requested /\ Only(b_cur)' = Only(b_cur)
  BY DEF Requested, Addresses, Only
<1>2. CollectedInv'
  BY <1>1 DEF WritesInv, CollectedInv, Members
<1>3. \A y : Whole(y)' = Whole(y)
  BY ScriptFixed DEF Whole, Beat
<1> QED
  BY <1>2, <1>3 DEF WritesInv, WholeInv

LEMMA WritesB ==
    ASSUME TypeInv, WritesInv, WriteFlow, b_task, Coming' = Coming
    PROVE  WritesInv'
<1>1. script' = script
  BY DEF b_task
<1>2. \A y : Whole(y)' = Whole(y)
  BY <1>1, ScriptFixed DEF Whole, Beat
<1>3. CASE b = "look" /\ pending_b # << >>
  <2>1. PICK m : m = Head(pending_b)
    OBVIOUS
  <2>2. PICK S : S = WriteBursts
    OBVIOUS
  <2>3. /\ pending_b \in Seq(S) /\ pending_b' = Tail(pending_b) /\ b_cur' = m.aw
        /\ to_gem5' = Append(to_gem5, m)
    BY <1>3, <2>1, <2>2, RequestedFacts DEF b_task, b_sent
  <2>4. /\ 1 \in DOMAIN pending_b /\ pending_b[1] = m /\ m \in S
        /\ \A i \in DOMAIN pending_b' : i + 1 \in DOMAIN pending_b /\ pending_b'[i] = pending_b[i + 1]
    BY <1>3, <2>1, <2>3, TailAt
  <2>5. \A i \in DOMAIN to_gem5' : \/ i \in DOMAIN to_gem5 /\ to_gem5'[i] = to_gem5[i]
                                   \/ to_gem5'[i] = m
    <3>1. PICK R : R = WriteMsgs \cup ReadMsgs
      OBVIOUS
    <3>2. to_gem5 \in Seq(R) /\ m \in R
      BY <2>2, <2>4, <3>1, MessageFacts DEF WriteBursts, WriteMsgs
    <3> QED
      BY <2>3, <3>2, AppendAt
  <2>6. WholeInv'
    BY <1>2, <2>4, <2>5 DEF WritesInv, WholeInv
  <2>7. Members(Requested)' \cup Only(b_cur)' \subseteq Members(Requested)
    <3>1. /\ Requested \in Seq(Nat) /\ Requested # << >> /\ Head(Requested) = m.aw
          /\ Addresses(Tail(pending_b)) = Tail(Requested)
      BY <1>3, <2>1, RequestedFacts
    <3>2. Requested' = Tail(Requested)
      BY <2>3, <3>1 DEF Requested, Addresses
    <3>3. m.aw \in Members(Requested) /\ Members(Tail(Requested)) \subseteq Members(Requested)
      BY <3>1, MembersTail DEF WriteFlow
    <3>4. Members(Requested)' = Members(Tail(Requested)) /\ Only(b_cur)' \subseteq {m.aw}
      BY <2>3, <3>2 DEF Members, Only
    <3> QED
      BY <3>3, <3>4
  <2>8. CollectedInv'
    BY <2>7 DEF WritesInv, CollectedInv
  <2> QED
    BY <2>6, <2>8 DEF WritesInv
<1>4. CASE ~(b = "look" /\ pending_b # << >>)
  <2>1. UNCHANGED <<pending_b, to_gem5>> /\ b_cur' \in {b_cur, None}
    BY <1>4 DEF b_task
  <2>2. Requested' = Requested /\ Only(b_cur)' \subseteq Only(b_cur)
    BY <2>1 DEF Requested, Addresses, Only
  <2>3. CollectedInv'
    BY <2>2 DEF WritesInv, CollectedInv, Members
  <2> QED
    BY <1>2, <2>1, <2>3 DEF WritesInv, WholeInv
<1> QED
  BY <1>3, <1>4

LEMMA WritesStep ==
    ASSUME TypeInv, CollectInv, WritesInv, WriteFlow, MonitorA, Next
    PROVE  WritesInv'
<1>1. CASE w_task
  BY <1>1, CollectW
<1>2. CASE b_task
  <2>1. Coming' = Coming
    BY <1>2 DEF b_task, Resumes, dutVars, Coming
  <2> QED
    BY <1>2, <2>1, WritesB
<1>3. CASE r_task \/ Gem5Access
  <2>1. /\ UNCHANGED <<script, pending_b, b_cur, w, next_w>>
        /\ todo' \in {todo, todo \ {"r"}}
    BY <1>3 DEF r_task, r_hold, next_edge, Resumes, Gem5Access, proxyVars, dutVars
  <2>2. Coming' = Coming /\ Requested' = Requested /\ Only(b_cur)' = Only(b_cur)
    BY <2>1 DEF Coming, Requested, Addresses, Only
  <2>3. CollectedInv'
    BY <2>2 DEF WritesInv, CollectedInv, Members
  <2>4. \A i \in DOMAIN to_gem5' : "aw" \in DOMAIN to_gem5'[i] =>
           \E j \in DOMAIN to_gem5 : to_gem5'[i] = to_gem5[j]
    <3>1. PICK R : R = WriteMsgs \cup ReadMsgs
      OBVIOUS
    <3>2. to_gem5 \in Seq(R)
      BY <3>1, MessageFacts
    <3>3. CASE Gem5Access
      <4>1. to_gem5 # << >> /\ to_gem5' = Tail(to_gem5)
        BY <3>3 DEF Gem5Access
      <4> QED
        BY <3>2, <4>1, TailAt
    <3>4. CASE r_task /\ r = "look" /\ ar_queue # << >>
      <4>1. Head(ar_queue) \in Of("read")
        BY <3>4, HeadTailProperties DEF TypeInv, TypeOK, ProxyTypeOK
      <4>2. PICK m : m = [ar |-> Head(ar_queue)]
        OBVIOUS
      <4>3. m \in ReadMsgs /\ m \in R /\ "aw" \notin DOMAIN m
        BY <3>1, <4>1, <4>2 DEF ReadMsgs
      <4>4. to_gem5' = Append(to_gem5, m)
        BY <3>4, <4>2 DEF r_task, r_hold, ar_next
      <4> QED
        BY <3>2, <4>3, <4>4, AppendAt
    <3>5. CASE r_task /\ ~(r = "look" /\ ar_queue # << >>)
      BY <3>5 DEF r_task, r_hold
    <3> QED
      BY <1>3, <3>3, <3>4, <3>5
  <2>5. \A y : Whole(y)' = Whole(y)
    BY <2>1, ScriptFixed DEF Whole, Beat
  <2>6. WholeInv'
    BY <2>1, <2>4, <2>5 DEF WritesInv, WholeInv
  <2> QED
    BY <2>3, <2>6 DEF WritesInv
<1>4. CASE aw_task \/ RisingEdge
  <2>1. UNCHANGED <<script, pending_b, b_cur, to_gem5>>
    BY <1>4 DEF aw_task, RisingEdge, memVars, proxyVars
  <2> QED
    BY <1>4, <2>1, CollectAw, CollectEdge, WritesFrame
<1>5. CASE b_drive_task \/ ar_task \/ axi_monitor \/ deliver
  <2>1. /\ UNCHANGED <<script, pending_b, b_cur, to_gem5, w, next_w>>
        /\ \E c \in {"bd", "ar", "mon"} : todo' \in {todo, todo \ {c}}
    BY <1>5 DEF b_drive_task, ar_task, axi_monitor, deliver, next_edge, Resumes,
                memVars, proxyVars, dutVars
  <2>2. Coming' = Coming
    BY <2>1 DEF Coming
  <2> QED
    BY <2>1, <2>2, WritesFrame
<1> QED
  BY <1>1, <1>2, <1>3, <1>4, <1>5 DEF Next

-------------------------------------------------------------------------------
(***************************************************************************)
(* The read data.                                                          *)
(***************************************************************************)
LEMMA TakenFacts ==
    ASSUME TypeInv
    PROVE  /\ Len(rgot) \in Nat /\ DOMAIN rgot = 1 .. Len(rgot) /\ r_beat \in Nat
           /\ script \in Scripts
           /\ r = "hold" => /\ r_cur \in Of("read") /\ r_beat \in 1 .. NBeats(r_cur)
                            /\ NBeats(r_cur) \in Nat \ {0} /\ NTaken \in Nat
                            /\ rvalid = RBeat(r_cur, r_data, r_beat) /\ rvalid # None
                            /\ r_data \in Seq(Blank) /\ Len(r_data) = NBeats(r_cur)
                            /\ rvalid \in Responses
<1>1. Len(rgot) \in Nat /\ DOMAIN rgot = 1 .. Len(rgot) /\ r_beat \in Nat /\ script \in Scripts
  BY ReadFacts, LenProperties
<1>2. ASSUME r = "hold"
      PROVE  /\ r_cur \in Of("read") /\ r_beat \in 1 .. NBeats(r_cur)
             /\ rvalid = RBeat(r_cur, r_data, r_beat)
             /\ r_data \in Seq(Blank) /\ Len(r_data) = NBeats(r_cur)
  BY <1>2 DEF TypeInv, TypeOK, ProxyTypeOK, AtWork
<1>3. ASSUME r = "hold" PROVE NBeats(r_cur) \in Nat \ {0}
  BY <1>1, <1>2, <1>3, ScriptFacts
<1>4. ASSUME r = "hold" PROVE rvalid # None /\ rvalid \in Responses
  BY <1>1, <1>2, <1>4, RBeatType
<1>5. ASSUME r = "hold" PROVE NTaken \in Nat
  BY <1>1, <1>2, <1>3, <1>5 DEF NTaken
<1> QED
  BY <1>1, <1>2, <1>3, <1>4, <1>5

\* The DUT has no beat of a read that waits for its completion.
LEMMA NoneOfRead ==
    ASSUME TypeInv, ReadFlow, r = "wait"
    PROVE  \A i \in DOMAIN rgot : rgot[i].n # r_cur
<1>1. Finished = {rgot[i].n : i \in DOMAIN rgot} /\ r_cur \in Nat
  BY FinishedAll, ReadFacts
<1>2. \A y \in Finished : y < r_cur
  <2>1. 1 \in DOMAIN ReadStages /\ 2 \in DOMAIN ReadStages /\ 1 < 2
        /\ ReadStages[1] = Finished /\ r_cur \in ReadStages[2]
    BY ReadShape
  <2> QED
    BY <2>1 DEF ReadFlow, Ordered
<1> SUFFICES ASSUME NEW i \in DOMAIN rgot PROVE rgot[i].n # r_cur
  OBVIOUS
<1>3. rgot[i].n \in Finished /\ ~(r_cur < r_cur)
  BY <1>1
<1> QED
  BY <1>2, <1>3

LEMMA DataFrame ==
    ASSUME DataInv, FinishedInv, script' = script,
           UNCHANGED <<rgot, r, r_cur, r_beat, r_data>>, "r" \in todo' <=> "r" \in todo
    PROVE  DataInv' /\ FinishedInv'
<1>1. NTaken' = NTaken /\ Finished' = Finished
  BY DEF NTaken, Finished
<1>2. \A i : RBeat(r_cur, r_data, i)' = RBeat(r_cur, r_data, i)
  BY ScriptFixed DEF RBeat
<1> QED
  BY <1>1, <1>2 DEF DataInv, FinishedInv

LEMMA DataR ==
    ASSUME TypeInv, DataInv, FinishedInv, ReadFlow, Steady, Scheduled, r_task
    PROVE  DataInv' /\ FinishedInv'
<1>1. UNCHANGED <<script, rgot>> /\ todo' \in {todo, todo \ {"r"}}
  BY DEF r_task, r_hold, next_edge, Resumes, dutVars
<1>2. CASE r # "hold" /\ r' # "hold"
  BY <1>1, <1>2 DEF DataInv, FinishedInv, Finished
<1>3. CASE r # "hold" /\ r' = "hold"
  <2>1. r = "wait" /\ r_cur' = r_cur /\ r_beat' = 1 /\ "r" \notin todo'
    BY <1>3 DEF r_task, r_hold, Resumes
  <2>2. NTaken' = 0
    BY <2>1 DEF NTaken
  <2>3. \A i \in DOMAIN rgot : rgot[i].n # r_cur
    BY <2>1, NoneOfRead
  <2>4. DataInv'
    BY <1>1, <2>1, <2>2, <2>3, TakenFacts DEF DataInv
  <2>5. Finished' \subseteq Finished
    BY <1>1, <1>3 DEF Finished
  <2> QED
    BY <1>1, <2>4, <2>5 DEF FinishedInv
<1>4. CASE r = "hold" /\ r' = "hold"
  <2>1. /\ "r" \in todo /\ "r" \notin todo' /\ r_beat' = r_beat + 1
        /\ UNCHANGED <<r_cur, r_data>>
    BY <1>4 DEF r_task, r_hold, next_edge, Resumes, Steady
  <2>2. NTaken' = NTaken
    BY <2>1, TakenFacts DEF NTaken
  <2>3. \A i : RBeat(r_cur, r_data, i)' = RBeat(r_cur, r_data, i)
    BY <1>1, <2>1, ScriptFixed DEF RBeat
  <2>4. Finished' = Finished
    BY <1>1, <1>4, <2>1 DEF Finished
  <2> QED
    BY <1>1, <1>4, <2>1, <2>2, <2>3, <2>4 DEF DataInv, FinishedInv
<1>5. CASE r = "hold" /\ r' # "hold"
  <2>1. "r" \in todo /\ r_beat = NBeats(r_cur)
    BY <1>5 DEF r_task, r_hold, next_edge, Resumes, Steady
  <2>2. /\ NTaken = r_beat /\ NTaken \in 1 .. NTaken /\ NTaken <= Len(rgot)
        /\ Len(rgot) \in DOMAIN rgot /\ Len(rgot) - NTaken + NTaken = Len(rgot)
    BY <1>5, <2>1, TakenFacts DEF NTaken, DataInv
  <2>3. rgot[Len(rgot)] = RBeat(r_cur, r_data, r_beat)
    <3>1. rgot[Len(rgot) - NTaken + NTaken] = RBeat(r_cur, r_data, NTaken)
      BY <1>5, <2>2 DEF DataInv
    <3> QED
      BY <2>2, <3>1
  <2>4. rgot[Len(rgot)].n = r_cur /\ rgot[Len(rgot)].last
    <3>1. RBeat(r_cur, r_data, r_beat).n = r_cur
      BY DEF RBeat
    <3>2. RBeat(r_cur, r_data, r_beat).last = (r_beat = NBeats(r_cur))
      BY DEF RBeat
    <3>3. RBeat(r_cur, r_data, r_beat).last
      BY <2>1, <3>2, Zenon
    <3> QED
      BY <2>3, <3>1, <3>3
  <2>5. Finished' \subseteq Finished \cup {r_cur}
    BY <1>1, <1>5 DEF Finished
  <2>6. FinishedInv'
    BY <1>1, <2>2, <2>4, <2>5 DEF FinishedInv
  <2> QED
    BY <1>5, <2>6 DEF DataInv
<1> QED
  BY <1>2, <1>3, <1>4, <1>5

\* The DUT takes what is on R.
LEMMA EdgeTakes ==
    ASSUME TypeInv, Steady, RisingEdge
    PROVE  \/ r # "hold" /\ rgot' = rgot
           \/ /\ r = "hold" /\ rgot' = Append(rgot, rvalid) /\ rvalid.n = r_cur
              /\ Len(rgot') = Len(rgot) + 1 /\ rgot'[Len(rgot) + 1] = rvalid
              /\ DOMAIN rgot' = 1 .. Len(rgot) + 1
              /\ \A i \in DOMAIN rgot : rgot'[i] = rgot[i]
<1>1. CASE r # "hold"
  BY <1>1 DEF RisingEdge, Steady, TypeInv, AtWork
<1>2. CASE r = "hold"
  <2>1. rvalid # None /\ rvalid \in Responses /\ rvalid.n = r_cur
    BY <1>2, TakenFacts DEF RBeat
  <2>2. rgot' = Append(rgot, rvalid)
    BY <2>1 DEF RisingEdge, Steady
  <2>3. PICK S : S = Responses
    OBVIOUS
  <2>4. rgot \in Seq(S) /\ rvalid \in S
    BY <2>1, <2>3, ReadFacts
  <2> QED
    BY <1>2, <2>1, <2>2, <2>4, AppendAt
<1> QED
  BY <1>1, <1>2

LEMMA DataEdge ==
    ASSUME TypeInv, DataInv, FinishedInv, Steady, RisingEdge
    PROVE  DataInv' /\ FinishedInv'
<1>1. /\ UNCHANGED <<script, r, r_cur, r_beat, r_data>> /\ todo = {} /\ todo' = Tasks
      /\ "r" \in todo'
  BY DEF RisingEdge, Idle, proxyVars, Tasks
<1>2. CASE r # "hold"
  <2>1. rgot' = rgot
    BY <1>2, EdgeTakes
  <2> QED
    BY <1>1, <1>2, <2>1 DEF DataInv, FinishedInv, Finished
<1>3. CASE r = "hold"
  <2>1. /\ Len(rgot') = Len(rgot) + 1 /\ rgot'[Len(rgot) + 1] = rvalid /\ rvalid.n = r_cur
        /\ DOMAIN rgot' = 1 .. Len(rgot) + 1
        /\ \A i \in DOMAIN rgot : rgot'[i] = rgot[i]
    BY <1>3, EdgeTakes
  <2>2. NTaken' = r_beat /\ NTaken = r_beat - 1
    BY <1>1 DEF NTaken
  <2>3. \A i : RBeat(r_cur, r_data, i)' = RBeat(r_cur, r_data, i)
    BY <1>1, ScriptFixed DEF RBeat
  <2>4. /\ Len(rgot) \in Nat /\ DOMAIN rgot = 1 .. Len(rgot) /\ r_beat \in Nat \ {0}
        /\ rvalid = RBeat(r_cur, r_data, r_beat)
    BY <1>3, TakenFacts
  <2>5. /\ r_beat - 1 <= Len(rgot)
        /\ \A k \in 1 .. Len(rgot) - (r_beat - 1) : rgot[k].n # r_cur
        /\ \A i \in 1 .. r_beat - 1 :
              rgot[Len(rgot) - (r_beat - 1) + i] = RBeat(r_cur, r_data, i)
    BY <1>3, <2>2 DEF DataInv
  <2>6. PICK m : m = Len(rgot)
    OBVIOUS
  <2>7. PICK t : t = r_beat - 1
    OBVIOUS
  <2>8. m \in Nat /\ t \in Nat /\ t <= m /\ r_beat = t + 1 /\ DOMAIN rgot = 1 .. m
    BY <2>4, <2>5, <2>6, <2>7
  <2>9. /\ \A k \in 1 .. m - t : rgot[k].n # r_cur
        /\ \A i \in 1 .. t : rgot[m - t + i] = RBeat(r_cur, r_data, i)
    BY <2>5, <2>6, <2>7
  <2>10. \A k \in 1 .. m - t : rgot'[k].n # r_cur
    BY <2>1, <2>8, <2>9
  <2>11. \A i \in 1 .. t + 1 : rgot'[m - t + i] = RBeat(r_cur, r_data, i)
    <3> SUFFICES ASSUME NEW i \in 1 .. t + 1
                 PROVE  rgot'[m - t + i] = RBeat(r_cur, r_data, i)
      OBVIOUS
    <3>1. CASE i \in 1 .. t
      <4>1. m - t + i \in DOMAIN rgot
        BY <2>8, <3>1
      <4> QED
        BY <2>1, <2>9, <3>1, <4>1
    <3>2. CASE i = t + 1
      <4>1. m - t + i = m + 1
        BY <2>8, <3>2
      <4> QED
        BY <2>1, <2>4, <2>6, <2>8, <3>2, <4>1
    <3> QED
      BY <2>8, <3>1, <3>2
  <2>12. DataInv'
    <3>1. Len(rgot') = m + 1 /\ NTaken' = t + 1 /\ (m + 1) - (t + 1) = m - t /\ t + 1 <= m + 1
      BY <2>1, <2>2, <2>6, <2>8
    <3> QED
      BY <1>1, <1>3, <2>3, <2>10, <2>11, <3>1 DEF DataInv
  <2>13. FinishedInv'
    <3> SUFFICES ASSUME NEW i \in DOMAIN rgot', rgot'[i].n # r_cur
                 PROVE  \E j \in DOMAIN rgot' : rgot'[j].n = rgot'[i].n /\ rgot'[j].last
      BY <1>1, <1>3 DEF FinishedInv, Finished
    <3>1. i \in DOMAIN rgot /\ rgot'[i] = rgot[i] /\ DOMAIN rgot \subseteq DOMAIN rgot'
      BY <2>1, <2>4
    <3>2. rgot[i].n \in Finished
      BY <3>1 DEF Finished
    <3> QED
      BY <2>1, <3>1, <3>2 DEF FinishedInv
  <2> QED
    BY <2>12, <2>13
<1> QED
  BY <1>2, <1>3

LEMMA DataStep ==
    ASSUME TypeInv, DataInv, FinishedInv, ReadFlow, Steady, Scheduled, Next
    PROVE  DataInv' /\ FinishedInv'
<1>1. CASE aw_task \/ w_task \/ b_task \/ b_drive_task \/ ar_task \/ axi_monitor
  <2>1. /\ UNCHANGED <<script, rgot, r, r_cur, r_beat, r_data>>
        /\ \E c \in {"aw", "w", "b", "bd", "ar", "mon"} : todo' \in {todo, todo \ {c}}
    BY <1>1 DEF aw_task, w_task, b_task, b_drive_task, ar_task, axi_monitor, next_edge, Resumes,
                dutVars, proxyVars
  <2> QED
    BY <2>1, DataFrame
<1>2. CASE Gem5Access \/ deliver
  <2>1. UNCHANGED <<script, rgot, r, r_cur, r_beat, r_data, todo>>
    BY <1>2 DEF Gem5Access, deliver, dutVars, proxyVars
  <2> QED
    BY <2>1, DataFrame
<1> QED
  BY <1>1, <1>2, DataR, DataEdge DEF Next

LEMMA MemoryInit == Init => MemoryInv
<1> SUFFICES ASSUME Init PROVE MemoryInv
  OBVIOUS
<1>1. /\ to_gem5 = << >> /\ from_gem5 = << >> /\ pending = [n \in Bursts |-> None]
      /\ pending_b = << >> /\ b_cur = None /\ r = "look" /\ todo = {} /\ beats = << >>
      /\ aw_queue = << >> /\ rgot = << >> /\ script \in Scripts
      /\ next_aw = After("write", 0) /\ next_w = FirstBeat(After("write", 0))
  BY DEF Init
<1>2. BrokerInv
  BY <1>1 DEF BrokerInv, MessagesApart, RepliesApart, PendingApart
<1>3. WholeInv /\ DataInv /\ FinishedInv
  BY <1>1 DEF WholeInv, DataInv, FinishedInv, Finished
<1>4. CollectedInv
  <2>1. Members(Requested) = {} /\ Only(b_cur) = {}
    BY <1>1 DEF Members, Requested, Addresses, Only
  <2> QED
    BY <2>1 DEF CollectedInv
<1>5. CollectInv
  <2>1. Coming = next_w /\ AwHeld = {}
    BY <1>1 DEF Coming, AwHeld, Members
  <2>2. Coming # None => Coming.i = 1
    BY <1>1, <2>1 DEF FirstBeat, Beat
  <2>3. \A n \in Of("write") : ~Past(next_aw, n)
    <3>1. \A n \in Of("write") : n \in Nat /\ n > 0
      BY <1>1, ScriptFacts
    <3> QED
      BY <1>1, <3>1, AfterFacts, NoneIsNoValue DEF Past
  <2> QED
    BY <1>1, <2>1, <2>2, <2>3 DEF CollectInv
<1> QED
  BY <1>2, <1>3, <1>4, <1>5 DEF MemoryInv

LEMMA MemoryStep ==
    TypeInv /\ PortInv /\ MonitorInv /\ MemoryInv /\ [Next]_vars => MemoryInv'
<1> SUFFICES ASSUME TypeInv, PortInv, MonitorInv, MemoryInv, [Next]_vars PROVE MemoryInv'
  OBVIOUS
<1>1. /\ BrokerInv /\ CollectInv /\ DataInv /\ FinishedInv /\ WholeInv /\ CollectedInv /\ WritesInv
      /\ WriteFlow /\ ReadFlow /\ Steady /\ Scheduled /\ MonitorA
  BY DEF MemoryInv, WritesInv, PortInv, MonitorInv
<1>2. CASE Next
  <2>1. BrokerInv'
    BY <1>1, <1>2, BrokerStep
  <2>2. CollectInv'
    BY <1>1, <1>2, CollectStep
  <2>3. WritesInv'
    BY <1>1, <1>2, WritesStep
  <2>4. DataInv' /\ FinishedInv'
    BY <1>1, <1>2, DataStep
  <2> QED
    BY <2>1, <2>2, <2>3, <2>4 DEF MemoryInv, WritesInv
<1>3. CASE UNCHANGED vars
  <2>1. /\ UNCHANGED <<script, to_gem5, from_gem5, pending, b_cur, r, r_cur, todo>>
        /\ UNCHANGED <<beats, w, next_w, next_aw, aw_queue, aw, pending_b, rgot, r_beat, r_data>>
    BY <1>3 DEF vars, proxyVars, dutVars, memVars
  <2>2. BrokerInv'
    BY <1>1, <2>1, BrokerFrame DEF AtBroker, Only
  <2>3. CollectInv' /\ Coming' = Coming
    BY <1>1, <2>1, CollectFrame
  <2>4. WritesInv'
    BY <1>1, <2>1, <2>3, WritesFrame
  <2>5. DataInv' /\ FinishedInv'
    BY <1>1, <2>1, DataFrame
  <2> QED
    BY <2>2, <2>3, <2>4, <2>5 DEF MemoryInv, WritesInv
<1> QED
  BY <1>2, <1>3

ProxyInv == TypeInv /\ PortInv /\ MonitorInv /\ MemoryInv

LEMMA ProxyInvariant == Spec => [](TypeInv /\ (KeepsReady => ProxyInv))
<1>1. Init => TypeInv /\ (KeepsReady => ProxyInv)
  BY TypeInit, PortInit, MonitorInit, MemoryInit DEF ProxyInv
<1>2. TypeInv /\ (KeepsReady => ProxyInv) /\ [Next]_vars
        => TypeInv' /\ (KeepsReady' => ProxyInv')
  BY TypeStep, PortStep, MonitorStep, MemoryStep, ReadyFixed DEF ProxyInv, PortInv
<1> QED
  BY <1>1, <1>2, PTL DEF Spec

-------------------------------------------------------------------------------
(***************************************************************************)
(* The mapping to AxiMemory.                                               *)
(***************************************************************************)
LEMMA KindFacts ==
    ASSUME TypeInv, NEW n \in Bursts
    PROVE  /\ n \in Nat /\ n # None
           /\ n \in Of("read") <=> script[n].kind = "read"
           /\ n \in Of("write") <=> script[n].kind # "read"
<1>1. script \in Scripts
  BY DEF TypeInv, TypeOK
<1>2. script[n].kind \in {"read", "write"}
  <2>1. script \in Seq([kind : {"read", "write"}, block : Blocks, strb : Seq(BOOLEAN)])
    BY <1>1, ProxyAssumption
  <2>2. PICK St : St = Seq(BOOLEAN)
    OBVIOUS
  <2>3. script \in Seq([kind : {"read", "write"}, block : Blocks, strb : St])
    BY <2>1, <2>2
  <2>4. script[n] \in [kind : {"read", "write"}, block : Blocks, strb : St]
    BY <2>3, LenProperties, ElementOfSeq DEF Bursts
  <2> QED
    BY <2>4
<1>3. n \in Nat /\ n # None
  BY <1>1, ScriptFacts, NoneIsNoValue
<1> QED
  BY <1>2, <1>3 DEF Of

\* A write has its response, a read its last beat.
Answered(n) ==
    IF script[n].kind = "read" THEN \E i \in DOMAIN rgot : rgot[i].n = n /\ rgot[i].last
                               ELSE \E i \in DOMAIN bgot : bgot[i] = n

LEMMA AnswersFacts ==
    ASSUME TypeInv, PortInv, NEW n \in Bursts
    PROVE  (Answered(n) /\ Answers(n) = 1) \/ (~Answered(n) /\ Answers(n) = 0)
<1>1. /\ rgot \in Seq(Responses) /\ bgot \in Seq(Of("write"))
      /\ \A i, j \in DOMAIN bgot : i < j => bgot[i] < bgot[j]
      /\ \A i, j \in DOMAIN rgot :
            i < j => \/ rgot[i].n < rgot[j].n
                     \/ rgot[i].n = rgot[j].n /\ ~rgot[i].last
  BY DEF TypeInv, TypeOK, DutTypeOK, PortInv, WriteFlow, ReadFlow, Increasing
<1>2. DOMAIN rgot \subseteq Nat /\ DOMAIN bgot \subseteq Nat /\ n \in Nat
  BY <1>1, LenProperties, KindFacts
<1>3. PICK T : T = IF script[n].kind = "read" THEN {i \in BeatsOf(n) : rgot[i].last}
                   ELSE {i \in DOMAIN bgot : bgot[i] = n}
  OBVIOUS
<1>4. Answers(n) = Cardinality(T)
  BY <1>3 DEF Answers
<1>5. Answered(n) <=> T # {}
  BY <1>3 DEF Answered, BeatsOf
<1>6. \A i, j \in T : i = j
  <2> SUFFICES ASSUME NEW i \in T, NEW j \in T, i < j PROVE FALSE
    BY <1>2, <1>3 DEF BeatsOf
  <2> QED
    BY <1>1, <1>2, <1>3 DEF BeatsOf
<1>7. CASE T = {}
  BY <1>4, <1>5, <1>7, FS_EmptySet
<1>8. CASE T # {}
  <2>1. PICK x \in T : TRUE
    BY <1>8
  <2>2. T = {x}
    BY <1>6, <2>1
  <2> QED
    BY <1>4, <1>5, <1>8, <2>2, FS_Singleton
<1> QED
  BY <1>7, <1>8

LEMMA StageIs ==
    ASSUME TypeInv, PortInv, NEW n \in Bursts
    PROVE  /\ BurstStage(n) = IF Answered(n) THEN "answered"
                              ELSE IF Performed(n) THEN "performed"
                              ELSE IF Shown(n) THEN "issued" ELSE "idle"
           /\ Answers(n) > 0 <=> Answered(n)
<1>1. CASE Answered(n) /\ Answers(n) = 1
  BY <1>1 DEF BurstStage
<1>2. CASE ~Answered(n) /\ Answers(n) = 0
  BY <1>2 DEF BurstStage
<1> QED
  BY <1>1, <1>2, AnswersFacts

\* A write answers no data.
LEMMA NoData ==
    ASSUME NEW n, BeatsOf(n) = {}
    PROVE  Data(n) = << >>
  BY DEF Data

LEMMA WriteData ==
    ASSUME TypeInv, NEW n \in Of("write")
    PROVE  Data(n) = << >>
<1>1. \A i \in DOMAIN rgot : rgot[i] \in Responses
  BY ReadFacts, LenProperties, ElementOfSeq
<1>2. BeatsOf(n) = {}
  BY <1>1, MessageFacts DEF BeatsOf, Responses, Response
<1> QED
  BY <1>2, NoData

LEMMA LeastIs ==
    ASSUME NEW S, S \subseteq Nat, NEW a \in S, \A k \in S : a <= k
    PROVE  Least(S) = a
<1>1. \E x \in S : \A k \in S : x <= k
  OBVIOUS
<1>2. Least(S) \in S /\ \A k \in S : Least(S) <= k
  BY <1>1 DEF Least
<1>3. Least(S) <= a /\ a <= Least(S) /\ Least(S) \in Nat /\ a \in Nat
  BY <1>2
<1> QED
  BY <1>3

\* A read that is answered while r_task still drives has what gem5 replied.
LEMMA DataIs ==
    ASSUME TypeInv, PortInv, DataInv, r = "hold", Answered(r_cur)
    PROVE  Data(r_cur) = r_data
<1>1. /\ r_cur \in Of("read") /\ NBeats(r_cur) \in Nat \ {0} /\ r_data \in Seq(Blank)
      /\ Len(r_data) = NBeats(r_cur) /\ Len(rgot) \in Nat /\ DOMAIN rgot = 1 .. Len(rgot)
  BY TakenFacts
<1>2. \E i \in DOMAIN rgot : rgot[i].n = r_cur /\ rgot[i].last
  BY <1>1 DEF Answered, Of
<1>3. "r" \in todo /\ r_beat = NBeats(r_cur)
  BY <1>2 DEF PortInv, ReadFlow
<1>4. NTaken = NBeats(r_cur)
  BY <1>3 DEF NTaken
<1>5. PICK N : N = NBeats(r_cur)
  OBVIOUS
<1>6. PICK m : m = Len(rgot)
  OBVIOUS
<1>7. /\ N \in Nat \ {0} /\ m \in Nat /\ DOMAIN rgot = 1 .. m /\ N <= m
      /\ \A k \in 1 .. m - N : rgot[k].n # r_cur
      /\ \A i \in 1 .. N : rgot[m - N + i] = RBeat(r_cur, r_data, i)
  BY <1>1, <1>4, <1>5, <1>6 DEF DataInv
<1>8. \A i \in 1 .. N : rgot[m - N + i].n = r_cur /\ rgot[m - N + i].data = r_data[i]
  <2>1. \A i : RBeat(r_cur, r_data, i).n = r_cur /\ RBeat(r_cur, r_data, i).data = r_data[i]
    BY DEF RBeat
  <2> QED
    BY <1>7, <2>1
<1>9. BeatsOf(r_cur) = m - N + 1 .. m
  <2>1. \A k \in 1 .. m : k \in m - N + 1 .. m => rgot[k].n = r_cur
    <3> SUFFICES ASSUME NEW k \in m - N + 1 .. m PROVE rgot[k].n = r_cur
      OBVIOUS
    <3>1. k - (m - N) \in 1 .. N /\ m - N + (k - (m - N)) = k
      BY <1>7
    <3> QED
      BY <1>8, <3>1
  <2>2. \A k \in 1 .. m : k \notin m - N + 1 .. m => rgot[k].n # r_cur
    BY <1>7
  <2>3. m - N + 1 .. m \subseteq 1 .. m
    BY <1>7
  <2> QED
    BY <1>7, <2>1, <2>2, <2>3 DEF BeatsOf
<1>10. Least(BeatsOf(r_cur)) = m - N + 1
  <2>1. m - N + 1 \in BeatsOf(r_cur) /\ \A k \in BeatsOf(r_cur) : m - N + 1 <= k
    BY <1>7, <1>9
  <2>2. BeatsOf(r_cur) \subseteq Nat
    BY <1>7, <1>9
  <2> QED
    BY <2>1, <2>2, LeastIs
<1>11. {k + 1 - (m - N + 1) : k \in BeatsOf(r_cur)} = 1 .. N
  <2>1. \A k \in BeatsOf(r_cur) : k + 1 - (m - N + 1) \in 1 .. N
    BY <1>7, <1>9
  <2>2. \A i \in 1 .. N : i + (m - N) \in BeatsOf(r_cur)
                          /\ i = (i + (m - N)) + 1 - (m - N + 1)
    BY <1>7, <1>9
  <2> QED
    BY <2>1, <2>2
<1>12. Data(r_cur) = [i \in 1 .. N |-> rgot[i + (m - N + 1) - 1].data]
  BY <1>10, <1>11 DEF Data
<1>13. \A i \in 1 .. N : rgot[i + (m - N + 1) - 1].data = r_data[i]
  <2> SUFFICES ASSUME NEW i \in 1 .. N PROVE rgot[i + (m - N + 1) - 1].data = r_data[i]
    OBVIOUS
  <2>1. i + (m - N + 1) - 1 = m - N + i
    BY <1>7
  <2> QED
    BY <1>8, <2>1
<1>14. r_data = [i \in 1 .. N |-> r_data[i]]
  BY <1>1, <1>5, LenProperties
<1> QED
  BY <1>12, <1>13, <1>14

\* At the broker a burst is neither answered nor on its way back.
LEMMA AtBrokerFacts ==
    ASSUME TypeInv, PortInv, NEW n \in AtBroker
    PROVE  /\ n \in Bursts /\ ~Answered(n)
           /\ n \notin {b_ready[i] : i \in DOMAIN b_ready} /\ bvalid # n
           /\ ~(r = "hold" /\ r_cur = n)
<1>1. /\ n \in Bursts
      /\ \/ n = b_cur /\ n \in Of("write") /\ b_cur # None
         \/ n = r_cur /\ n \in Of("read") /\ r = "wait"
  BY MessageFacts DEF AtBroker, Only
<1>2. /\ b_ready \in Seq(Of("write")) /\ bvalid \in Of("write") \cup {None}
      /\ bgot \in Seq(Of("write"))
  BY DEF TypeInv, TypeOK, ProxyTypeOK, DutTypeOK
<1>3. Members(b_ready) \subseteq Of("write") /\ Members(b_ready) = {b_ready[i] : i \in DOMAIN b_ready}
  BY <1>2, MembersType DEF Members
<1>4. n \in Nat /\ None \notin Nat /\ Of("write") \cap Of("read") = {} /\ r_cur \notin Of("write")
  BY <1>1, MessageFacts
<1>5. CASE n = b_cur /\ n \in Of("write")
  <2>1. /\ \A x \in Members(bgot) : x < n
        /\ \A x \in Members(b_ready) : x < n
        /\ "bd" \notin todo => \A x \in Only(bvalid) : x < n
    <3>1. n \in WriteStages[4] /\ Ordered(WriteStages)
      BY <1>4, <1>5, WriteShape DEF Only, PortInv, WriteFlow
    <3>2. /\ 1 \in DOMAIN WriteStages /\ 2 \in DOMAIN WriteStages /\ 3 \in DOMAIN WriteStages
          /\ 4 \in DOMAIN WriteStages /\ 1 < 4 /\ 2 < 4 /\ 3 < 4
      BY WriteShape
    <3>3. \A k \in DOMAIN WriteStages : k < 4 => \A x \in WriteStages[k] : x < n
      BY <3>1, <3>2 DEF Ordered
    <3> QED
      BY <3>2, <3>3, WriteShape
  <2>2. ~(n < n)
    BY <1>4
  <2>3. n \notin Members(bgot) /\ n \notin Members(b_ready)
    BY <2>1, <2>2
  <2>4. bvalid # n
    <3>1. CASE "bd" \in todo
      BY <1>4, <2>3, <3>1 DEF PortInv, WriteFlow, Members
    <3>2. CASE "bd" \notin todo
      BY <1>4, <2>1, <2>2, <3>2 DEF Only
    <3> QED
      BY <3>1, <3>2
  <2>5. ~Answered(n)
    BY <1>5, <2>3 DEF Answered, Members, Of
  <2> QED
    BY <1>1, <1>3, <1>4, <1>5, <2>3, <2>4, <2>5
<1>6. CASE n = r_cur /\ n \in Of("read") /\ r = "wait"
  <2>1. ~Answered(n)
    BY <1>6, NoneOfRead DEF Answered, Of, PortInv
  <2> QED
    BY <1>1, <1>2, <1>3, <1>4, <1>6, <2>1
<1> QED
  BY <1>1, <1>5, <1>6

LEMMA RepliesIs ==
    ASSUME RepliesApart, NEW i \in DOMAIN from_gem5
    PROVE  Replies(from_gem5[i].n) = {from_gem5[i].data}
<1>1. \A j \in DOMAIN from_gem5 : from_gem5[j].n = from_gem5[i].n => j = i
  BY DEF RepliesApart
<1>2. {j \in DOMAIN from_gem5 : from_gem5[j].n = from_gem5[i].n} = {i}
  BY <1>1
<1> QED
  BY <1>2 DEF Replies

LEMMA NoReplies ==
    ASSUME NEW n, \A i \in DOMAIN from_gem5 : from_gem5[i].n # n
    PROVE  Replies(n) = {}
  BY DEF Replies

\* What a burst found, while it is at the broker and when it is not.
LEMMA FoundAtBroker ==
    ASSUME TypeInv, PortInv, NEW n \in AtBroker
    PROVE  Found(n) = IF pending[n] # None THEN pending[n]
                      ELSE IF Replies(n) # {} THEN CHOOSE d \in Replies(n) : TRUE ELSE << >>
<1>1. n \in Bursts /\ ~Answered(n) /\ ~(r = "hold" /\ r_cur = n)
  BY AtBrokerFacts
<1>2. ~(Answers(n) > 0)
  BY <1>1, StageIs
<1> QED
  BY <1>1, <1>2 DEF Found

LEMMA FoundAway ==
    ASSUME TypeInv, PortInv, BrokerInv, NEW n \in Bursts, n \notin AtBroker
    PROVE  /\ Found(n) = IF r = "hold" /\ r_cur = n THEN r_data
                         ELSE IF Answered(n) THEN Data(n) ELSE << >>
           /\ pending[n] = None /\ Replies(n) = {}
<1>1. pending[n] = None
  BY DEF BrokerInv, PendingApart
<1>2. \A i \in DOMAIN from_gem5 : from_gem5[i].n # n
  BY DEF BrokerInv, RepliesApart
<1>3. Replies(n) = {}
  BY <1>2, NoReplies
<1>4. Answers(n) > 0 <=> Answered(n)
  BY StageIs
<1> QED
  BY <1>1, <1>3, <1>4 DEF Found

LEMMA FoundWrite ==
    ASSUME TypeInv, PortInv, BrokerInv, NEW n \in Of("write")
    PROVE  Found(n) = << >>
<1>1. n \in Bursts /\ n # r_cur
  BY MessageFacts, KindFacts
<1>2. CASE n \notin AtBroker
  BY <1>1, <1>2, FoundAway, WriteData
<1>3. CASE n \in AtBroker
  <2>1. pending[n] # None => pending[n] = << >>
    BY <1>1 DEF BrokerInv, PendingApart
  <2>2. Replies(n) # {} => Replies(n) = {<< >>}
    <3>1. CASE \A i \in DOMAIN from_gem5 : from_gem5[i].n # n
      BY <3>1, NoReplies
    <3>2. CASE \E i \in DOMAIN from_gem5 : from_gem5[i].n = n
      <4>1. PICK i \in DOMAIN from_gem5 : from_gem5[i].n = n
        BY <3>2
      <4>2. Replies(n) = {from_gem5[i].data} /\ from_gem5[i].data = << >>
        BY <4>1, RepliesIs DEF BrokerInv, RepliesApart
      <4> QED
        BY <4>2
    <3> QED
      BY <3>1, <3>2
  <2>3. Replies(n) # {} => (CHOOSE d \in Replies(n) : TRUE) = << >>
    BY <2>2
  <2> QED
    BY <1>3, <2>1, <2>3, FoundAtBroker
<1> QED
  BY <1>2, <1>3

\* The mapped state of every burst.
Settled ==
    \A n \in Bursts :
        /\ BurstStage(n) = IF Answered(n) THEN "answered"
                           ELSE IF Performed(n) THEN "performed"
                           ELSE IF Shown(n) THEN "issued" ELSE "idle"
        /\ Answers(n) > 0 <=> Answered(n)
        /\ Answered(n) => Data(n) = Found(n)
        /\ n \in Of("write") => Found(n) = << >>

LEMMA ProxySettled == ProxyInv => Settled
<1> SUFFICES ASSUME ProxyInv, NEW n \in Bursts
             PROVE  /\ BurstStage(n) = IF Answered(n) THEN "answered"
                                       ELSE IF Performed(n) THEN "performed"
                                       ELSE IF Shown(n) THEN "issued" ELSE "idle"
                    /\ Answers(n) > 0 <=> Answered(n)
                    /\ Answered(n) => Data(n) = Found(n)
                    /\ n \in Of("write") => Found(n) = << >>
  BY DEF Settled
<1>1. TypeInv /\ PortInv /\ BrokerInv /\ DataInv
  BY DEF ProxyInv, MemoryInv
<1>2. Answered(n) => Data(n) = Found(n)
  <2> SUFFICES ASSUME Answered(n) PROVE Data(n) = Found(n)
    OBVIOUS
  <2>1. n \notin AtBroker
    BY <1>1, AtBrokerFacts
  <2> QED
    BY <1>1, <2>1, FoundAway, DataIs
<1>3. n \in Of("write") => Found(n) = << >>
  BY <1>1, FoundWrite
<1>4. /\ BurstStage(n) = IF Answered(n) THEN "answered"
                         ELSE IF Performed(n) THEN "performed"
                         ELSE IF Shown(n) THEN "issued" ELSE "idle"
      /\ Answers(n) > 0 <=> Answered(n)
  BY <1>1, StageIs
<1> QED
  BY <1>2, <1>3, <1>4

\* What a step that gem5 does not take may do to a burst.
Going(n) ==
    /\ Answered(n) => Answered(n)'
    /\ Answered(n)' => Answered(n) \/ Performed(n)
    /\ ~Answered(n)' => (Performed(n)' <=> Performed(n))
    /\ Shown(n) => Shown(n)'
    /\ n \in Of("read") => Found(n)' = Found(n)

LEMMA MemEdge ==
    ASSUME ProxyInv, ProxyInv', UNCHANGED <<script, ddr>>, \A n \in Bursts : Going(n)
    PROVE  Mem!Edge
<1>1. Bursts' = Bursts /\ Of("write")' = Of("write")
  BY ScriptFixed
<1>2. Settled /\ Settled'
  BY ProxySettled, PTL
<1>3. \A n \in Bursts : Found(n)' = Found(n)
  <2> SUFFICES ASSUME NEW n \in Bursts PROVE Found(n)' = Found(n)
    OBVIOUS
  <2>1. CASE n \in Of("read")
    BY <2>1 DEF Going
  <2>2. CASE n \in Of("write")
    BY <1>1, <1>2, <2>2 DEF Settled
  <2> QED
    BY <2>1, <2>2, KindFacts DEF ProxyInv
<1>4. \A n \in Bursts :
         /\ BurstStage(n)' \in {"idle", "issued", "performed", "answered"}
         /\ \/ BurstStage(n)' = BurstStage(n)
            \/ BurstStage(n) = "idle" /\ BurstStage(n)' = "issued"
            \/ BurstStage(n) = "performed" /\ BurstStage(n)' = "answered"
         /\ BurstStage(n)' = "answered" <=> Answers(n)' > 0
         /\ Answers(n)' > 0 => Data(n)' = Found(n)
  <2> SUFFICES ASSUME NEW n \in Bursts
               PROVE  /\ BurstStage(n)' \in {"idle", "issued", "performed", "answered"}
                      /\ \/ BurstStage(n)' = BurstStage(n)
                         \/ BurstStage(n) = "idle" /\ BurstStage(n)' = "issued"
                         \/ BurstStage(n) = "performed" /\ BurstStage(n)' = "answered"
                      /\ BurstStage(n)' = "answered" <=> Answers(n)' > 0
                      /\ Answers(n)' > 0 => Data(n)' = Found(n)
    OBVIOUS
  <2>1. /\ BurstStage(n) = IF Answered(n) THEN "answered"
                           ELSE IF Performed(n) THEN "performed"
                           ELSE IF Shown(n) THEN "issued" ELSE "idle"
        /\ BurstStage(n)' = IF Answered(n)' THEN "answered"
                            ELSE IF Performed(n)' THEN "performed"
                            ELSE IF Shown(n)' THEN "issued" ELSE "idle"
        /\ Answers(n)' > 0 <=> Answered(n)'
        /\ Answered(n)' => Data(n)' = Found(n)'
    BY <1>1, <1>2 DEF Settled
  <2>2. Going(n)
    OBVIOUS
  <2> QED
    BY <1>3, <2>1, <2>2 DEF Going
<1>5. PICK stage : stage = [n \in Bursts |-> BurstStage(n)]
  OBVIOUS
<1>6. PICK stage2 : stage2 = [n \in Bursts |-> BurstStage(n)']
  OBVIOUS
<1>7. PICK found : found = [n \in Bursts |-> Found(n)]
  OBVIOUS
<1>8. /\ stage2 \in [Bursts -> {"idle", "issued", "performed", "answered"}]
      /\ \A n \in Bursts : \/ stage2[n] = stage[n]
                           \/ stage[n] = "idle" /\ stage2[n] = "issued"
                           \/ stage[n] = "performed" /\ stage2[n] = "answered"
  BY <1>4, <1>5, <1>6
<1>9. [n \in Bursts |-> IF Answers(n)' > 0 THEN Data(n)' ELSE << >>]
        = [n \in Bursts |-> IF stage2[n] = "answered" THEN found[n] ELSE << >>]
  BY <1>4, <1>6, <1>7
<1>10. [n \in Bursts |-> BurstStage(n)]' = stage2
  BY <1>1, <1>6
<1>11. [n \in Bursts |-> Found(n)]' = found
  BY <1>1, <1>3, <1>7
<1>12. [n \in Bursts |-> IF Answers(n) > 0 THEN Data(n) ELSE << >>]'
          = [n \in Bursts |-> IF stage2[n] = "answered" THEN found[n] ELSE << >>]
  BY <1>1, <1>9
<1> QED
  BY <1>5, <1>7, <1>8, <1>10, <1>11, <1>12 DEF Mem!Edge, Mem!Moves, Mem!Bursts, Bursts

-------------------------------------------------------------------------------
(***************************************************************************)
(* The steps between the broker and the pins.                              *)
(***************************************************************************)
LEMMA TakenFrame ==
    ASSUME script' = script, UNCHANGED <<rgot, bgot>>
    PROVE  \A n : /\ Answered(n)' <=> Answered(n)
                  /\ Answers(n)' = Answers(n) /\ Data(n)' = Data(n)
<1>1. \A n : BeatsOf(n)' = BeatsOf(n)
  BY DEF BeatsOf
<1>2. \A n : Answered(n)' <=> Answered(n)
  BY DEF Answered
<1>3. \A n : Answers(n)' = Answers(n)
  BY <1>1 DEF Answers
<1>4. \A n : Data(n)' = Data(n)
  BY <1>1 DEF Data
<1> QED
  BY <1>2, <1>3, <1>4

\* Nothing the DUT has or sees changes.
LEMMA PortFrame ==
    ASSUME script' = script, UNCHANGED <<rgot, bgot, next_ar, next_w>>
    PROVE  \A n : /\ Answered(n)' <=> Answered(n)
                  /\ Shown(n)' <=> Shown(n)
                  /\ Answers(n)' = Answers(n) /\ Data(n)' = Data(n)
  BY TakenFrame DEF Shown

LEMMA GoingFrame ==
    ASSUME script' = script,
           UNCHANGED <<rgot, bgot, next_ar, next_w, from_gem5, pending, b_ready, bvalid, r, r_cur,
                       r_data>>
    PROVE  \A n : Going(n)
<1>1. \A n : /\ Answered(n)' <=> Answered(n)
             /\ Shown(n)' <=> Shown(n)
             /\ Answers(n)' = Answers(n) /\ Data(n)' = Data(n)
  BY PortFrame
<1>2. \A n : Replies(n)' = Replies(n)
  BY DEF Replies
<1>3. \A n : Performed(n)' <=> Performed(n)
  BY <1>2 DEF Performed
<1>4. \A n : Found(n)' = Found(n)
  <2> SUFFICES ASSUME NEW n PROVE Found(n)' = Found(n)
    OBVIOUS
  <2>1. Answers(n)' = Answers(n) /\ Data(n)' = Data(n) /\ Replies(n)' = Replies(n)
    BY <1>1, <1>2
  <2> QED
    BY <2>1 DEF Found
<1> QED
  BY <1>1, <1>3, <1>4 DEF Going

LEMMA GoingB ==
    ASSUME ProxyInv, b_task, NEW n \in Bursts
    PROVE  Going(n)
<1>1. UNCHANGED <<script, rgot, bgot, next_ar, next_w, from_gem5, bvalid, r, r_cur, r_data>>
  BY DEF b_task, dutVars
<1>2. CASE b = "wait" /\ pending[b_cur] # None
  <2>1. /\ pending' = [pending EXCEPT ![b_cur] = None] /\ b_ready' = Append(b_ready, b_cur)
        /\ b_cur \in Of("write") /\ b_cur \in Bursts /\ b_cur # None
    BY <1>2, MessageFacts DEF b_task, ProxyInv
  <2>2. /\ pending' \in [Bursts -> Seq(Blank) \cup {None}] /\ pending'[b_cur] = None
        /\ \A x \in Bursts : x # b_cur => pending'[x] = pending[x]
    BY <2>1, MessageFacts DEF ProxyInv
  <2>3. {b_ready'[i] : i \in DOMAIN b_ready'} = {b_ready[i] : i \in DOMAIN b_ready} \cup {b_cur}
    <3>1. b_ready \in Seq(Nat) /\ b_cur \in Nat
      BY <2>1, MessageFacts DEF ProxyInv, TypeInv, TypeOK, ProxyTypeOK
    <3>2. Members(b_ready') = Members(b_ready) \cup {b_cur}
      BY <2>1, <3>1, MembersAppend
    <3> QED
      BY <3>2 DEF Members
  <2>4. /\ Answered(n)' <=> Answered(n)
        /\ Shown(n)' <=> Shown(n)
        /\ Answers(n)' = Answers(n) /\ Data(n)' = Data(n)
    BY <1>1, PortFrame
  <2>5. Replies(n)' = Replies(n)
    BY <1>1 DEF Replies
  <2>6. Performed(n)' <=> Performed(n)
    BY <1>1, <1>2, <2>2, <2>3, <2>5 DEF Performed
  <2>7. n \in Of("read") => Found(n)' = Found(n)
    <3> SUFFICES ASSUME n \in Of("read") PROVE Found(n)' = Found(n)
      OBVIOUS
    <3>1. pending'[n] = pending[n]
      BY <2>1, <2>2, MessageFacts DEF ProxyInv
    <3> QED
      BY <1>1, <2>4, <2>5, <3>1 DEF Found
  <2> QED
    BY <2>4, <2>6, <2>7 DEF Going
<1>3. CASE UNCHANGED <<pending, b_ready>>
  BY <1>1, <1>3, GoingFrame
<1> QED
  BY <1>2, <1>3 DEF b_task, b_sent

LEMMA GoingBDrive ==
    ASSUME ProxyInv, b_drive_task, NEW n \in Bursts
    PROVE  Going(n)
<1>1. /\ UNCHANGED <<script, rgot, bgot, next_ar, next_w, from_gem5, pending, r, r_cur, r_data>>
      /\ n # None
  BY KindFacts DEF b_drive_task, dutVars, memVars, ProxyInv
<1>2. /\ Answered(n)' <=> Answered(n)
      /\ Shown(n)' <=> Shown(n)
      /\ Answers(n)' = Answers(n) /\ Data(n)' = Data(n)
  BY <1>1, PortFrame
<1>3. Replies(n)' = Replies(n)
  BY <1>1 DEF Replies
<1>4. Found(n)' = Found(n)
  BY <1>1, <1>2, <1>3 DEF Found
<1>5. ~Answered(n) => (Performed(n)' <=> Performed(n))
  <2>1. CASE bd = "look" /\ b_ready # << >>
    <3>1. /\ bvalid' = Head(b_ready) /\ b_ready' = Tail(b_ready) /\ bvalid = None
          /\ b_ready \in Seq(Nat) /\ Increasing(b_ready)
      <4>1. bvalid = None /\ b_ready \in Seq(Of("write")) /\ Increasing(b_ready)
        BY <2>1 DEF ProxyInv, TypeInv, TypeOK, ProxyTypeOK, AtWork, PortInv, WriteFlow
      <4>2. Of("write") \subseteq Nat
        BY MessageFacts DEF ProxyInv
      <4> QED
        BY <2>1, <4>1, <4>2 DEF b_drive_task
    <3>2. /\ Members(Tail(b_ready)) = Members(b_ready) \ {Head(b_ready)}
          /\ Head(b_ready) \in Members(b_ready)
      BY <2>1, <3>1, MembersRest, MembersTail
    <3>3. {b_ready'[i] : i \in DOMAIN b_ready'} = Members(b_ready) \ {Head(b_ready)}
      BY <3>1, <3>2 DEF Members
    <3>4. {b_ready[i] : i \in DOMAIN b_ready} = Members(b_ready)
      BY DEF Members
    <3> QED
      BY <1>1, <1>3, <3>1, <3>2, <3>3, <3>4 DEF Performed
  <2>2. CASE UNCHANGED <<b_ready, bvalid>>
    BY <1>1, <1>3, <2>2 DEF Performed
  <2>3. CASE bd = "hold" /\ bvalid' = None /\ UNCHANGED b_ready
    <3>1. CASE bvalid = n
      <4>1. "bd" \in todo
        BY <2>3 DEF b_drive_task, next_edge, Resumes
      <4>2. \E i \in DOMAIN bgot : bgot[i] = n
        BY <1>1, <3>1, <4>1 DEF ProxyInv, PortInv, WriteFlow
      <4>3. n \in Of("write")
        BY <1>1, <3>1 DEF ProxyInv, TypeInv, TypeOK, ProxyTypeOK
      <4> QED
        BY <4>2, <4>3 DEF Answered, Of
    <3>2. CASE bvalid # n
      BY <1>1, <1>3, <2>3, <3>2 DEF Performed
    <3> QED
      BY <3>1, <3>2
  <2> QED
    BY <2>1, <2>2, <2>3 DEF b_drive_task
<1> QED
  BY <1>2, <1>4, <1>5 DEF Going

\* When r_task looks at the edge of a read's last beat, the DUT has it.
LEMMA LastTaken ==
    ASSUME TypeInv, DataInv, r = "hold", "r" \in todo, r_beat = NBeats(r_cur)
    PROVE  Answered(r_cur)
<1>1. /\ NTaken = r_beat /\ NTaken \in 1 .. NTaken /\ NTaken <= Len(rgot)
      /\ Len(rgot) \in DOMAIN rgot /\ Len(rgot) - NTaken + NTaken = Len(rgot)
  BY TakenFacts DEF NTaken, DataInv
<1>2. rgot[Len(rgot) - NTaken + NTaken] = RBeat(r_cur, r_data, NTaken)
  BY <1>1 DEF DataInv
<1>3. rgot[Len(rgot)] = RBeat(r_cur, r_data, r_beat)
  BY <1>1, <1>2
<1>4. RBeat(r_cur, r_data, r_beat).n = r_cur
  BY DEF RBeat
<1>5. RBeat(r_cur, r_data, r_beat).last = (r_beat = NBeats(r_cur))
  BY DEF RBeat
<1>6. RBeat(r_cur, r_data, r_beat).last
  BY <1>5, Zenon
<1>7. r_cur \in Of("read")
  BY TakenFacts
<1> QED
  BY <1>1, <1>3, <1>4, <1>6, <1>7 DEF Answered, Of

LEMMA GoingR ==
    ASSUME ProxyInv, r_task, NEW n \in Bursts
    PROVE  Going(n)
<1>1. UNCHANGED <<script, rgot, bgot, next_ar, next_w, from_gem5, bvalid, b_ready>>
  BY DEF r_task, dutVars
<1>2. /\ Answered(n)' <=> Answered(n)
      /\ Shown(n)' <=> Shown(n)
      /\ Answers(n)' = Answers(n) /\ Data(n)' = Data(n)
  BY <1>1, PortFrame
<1>3. Replies(n)' = Replies(n)
  BY <1>1 DEF Replies
<1>4. TypeInv /\ PortInv /\ DataInv /\ Steady
  BY DEF ProxyInv, MemoryInv, PortInv
<1>5. CASE r # "hold" /\ r' # "hold"
  <2>1. UNCHANGED pending
    BY <1>5 DEF r_task, r_hold
  <2>2. Performed(n)' <=> Performed(n)
    BY <1>1, <1>3, <1>5, <2>1 DEF Performed
  <2>3. Found(n)' = Found(n)
    BY <1>1, <1>2, <1>3, <1>5, <2>1 DEF Found
  <2> QED
    BY <1>2, <2>2, <2>3 DEF Going
<1>6. CASE r # "hold" /\ r' = "hold"
  <2>1. /\ r = "wait" /\ pending[r_cur] # None /\ r_cur' = r_cur /\ r_data' = pending[r_cur]
        /\ pending' = [pending EXCEPT ![r_cur] = None]
    BY <1>6 DEF r_task, r_hold
  <2>2. r_cur \in Bursts /\ r_cur \in AtBroker
    BY <1>4, <2>1, MessageFacts DEF AtBroker
  <2>3. /\ pending'[r_cur] = None
        /\ \A x \in Bursts : x # r_cur => pending'[x] = pending[x]
    BY <1>4, <2>1, <2>2, MessageFacts
  <2>4. Performed(n)' <=> Performed(n)
    BY <1>1, <1>3, <1>6, <2>1, <2>3 DEF Performed
  <2>5. CASE n = r_cur
    <3>1. Found(n) = pending[r_cur]
      BY <1>4, <2>1, <2>2, <2>5, FoundAtBroker
    <3>2. Found(n)' = r_data'
      BY <1>6, <2>1, <2>5 DEF Found
    <3> QED
      BY <1>2, <2>1, <2>4, <3>1, <3>2 DEF Going
  <2>6. CASE n # r_cur
    <3>1. Found(n)' = Found(n)
      BY <1>2, <1>3, <2>1, <2>3, <2>6 DEF Found
    <3> QED
      BY <1>2, <2>4, <3>1 DEF Going
  <2> QED
    BY <2>5, <2>6
<1>7. CASE r = "hold" /\ r' = "hold"
  <2>1. UNCHANGED <<pending, r_cur, r_data>>
    BY <1>7 DEF r_task, r_hold
  <2> QED
    BY <1>1, <1>7, <2>1, GoingFrame
<1>8. CASE r = "hold" /\ r' # "hold"
  <2>1. /\ UNCHANGED <<pending, r_cur, r_data>> /\ "r" \in todo /\ r_beat = NBeats(r_cur)
    BY <1>4, <1>8 DEF r_task, r_hold, next_edge, Resumes, Steady
  <2>2. Answered(r_cur)
    BY <1>4, <1>8, <2>1, LastTaken
  <2>3. ~Answered(n)' => (Performed(n)' <=> Performed(n))
    BY <1>1, <1>2, <1>3, <1>8, <2>1, <2>2 DEF Performed
  <2>4. CASE n = r_cur
    <3>1. Found(n) = r_data
      BY <1>8, <2>4 DEF Found
    <3>2. Answers(n) > 0
      BY <1>4, <2>2, <2>4, StageIs
    <3>3. Found(n)' = Data(n)
      BY <1>2, <1>8, <3>2 DEF Found
    <3>4. Data(n) = r_data
      BY <1>4, <1>8, <2>2, <2>4, DataIs
    <3> QED
      BY <1>2, <2>3, <3>1, <3>3, <3>4 DEF Going
  <2>5. CASE n # r_cur
    <3>1. Found(n)' = Found(n)
      BY <1>2, <1>3, <2>1, <2>5 DEF Found
    <3> QED
      BY <1>2, <2>3, <3>1 DEF Going
  <2> QED
    BY <2>4, <2>5
<1> QED
  BY <1>5, <1>6, <1>7, <1>8

LEMMA GoingDeliver ==
    ASSUME ProxyInv, deliver, NEW n \in Bursts
    PROVE  Going(n)
<1>1. /\ UNCHANGED <<script, rgot, bgot, next_ar, next_w, bvalid, b_ready, r, r_cur, r_data, b_cur>>
      /\ TypeInv /\ PortInv /\ BrokerInv
  BY DEF deliver, dutVars, proxyVars, ProxyInv, MemoryInv
<1>2. /\ Answered(n)' <=> Answered(n)
      /\ Shown(n)' <=> Shown(n)
      /\ Answers(n)' = Answers(n) /\ Data(n)' = Data(n)
  BY <1>1, PortFrame
<1>3. PICK h : h = Head(from_gem5)
  OBVIOUS
<1>4. /\ h = from_gem5[1] /\ 1 \in DOMAIN from_gem5
      /\ h.n \in Bursts /\ h.data # None
      /\ pending' = [pending EXCEPT ![h.n] = h.data] /\ pending[h.n] = None
      /\ \A i \in DOMAIN from_gem5' :
            /\ i + 1 \in DOMAIN from_gem5 /\ i \in Nat /\ i + 1 # 1
            /\ from_gem5'[i] = from_gem5[i + 1] /\ from_gem5'[i].n # h.n
      /\ \A i \in DOMAIN from_gem5 : i # 1 =>
            i \in Nat /\ i - 1 \in DOMAIN from_gem5' /\ from_gem5'[i - 1] = from_gem5[i]
  BY <1>1, <1>3, Delivered
<1>5. /\ pending'[h.n] = h.data
      /\ \A x \in Bursts : x # h.n => pending'[x] = pending[x]
  BY <1>1, <1>4, MessageFacts
<1>6. CASE n = h.n
  <2>1. Replies(n) = {h.data} /\ n \in AtBroker
    BY <1>1, <1>4, <1>6, RepliesIs DEF BrokerInv, RepliesApart
  <2>2. Performed(n)' /\ Performed(n)
    BY <1>4, <1>5, <1>6, <2>1 DEF Performed
  <2>3. Found(n) = h.data
    <3>1. Found(n) = CHOOSE d \in {h.data} : TRUE
      BY <1>1, <1>4, <1>6, <2>1, FoundAtBroker
    <3> QED
      BY <3>1
  <2>4. ~(r = "hold" /\ r_cur = n) /\ ~(Answers(n) > 0)
    BY <1>1, <2>1, AtBrokerFacts, StageIs
  <2>5. Found(n)' = h.data
    BY <1>1, <1>2, <1>4, <1>5, <1>6, <2>4 DEF Found
  <2> QED
    BY <1>2, <2>2, <2>3, <2>5 DEF Going
<1>7. CASE n # h.n
  <2>1. Replies(n)' = Replies(n)
    <3>1. \A i \in DOMAIN from_gem5' : from_gem5'[i].n = n =>
             \E j \in DOMAIN from_gem5 : from_gem5[j] = from_gem5'[i]
      BY <1>4
    <3>2. \A i \in DOMAIN from_gem5 : from_gem5[i].n = n =>
             \E j \in DOMAIN from_gem5' : from_gem5'[j] = from_gem5[i]
      BY <1>4, <1>7
    <3>3. \A d \in Replies(n)' : d \in Replies(n)
      BY <3>1 DEF Replies
    <3>4. \A d \in Replies(n) : d \in Replies(n)'
      BY <3>2 DEF Replies
    <3> QED
      BY <3>3, <3>4
  <2>2. pending'[n] = pending[n]
    BY <1>5, <1>7
  <2>3. Performed(n)' <=> Performed(n)
    BY <1>1, <2>1, <2>2 DEF Performed
  <2>4. Found(n)' = Found(n)
    BY <1>1, <1>2, <2>1, <2>2 DEF Found
  <2> QED
    BY <1>2, <2>3, <2>4 DEF Going
<1> QED
  BY <1>6, <1>7

LEMMA NextBeatLater ==
    ASSUME script \in Scripts, NEW x \in Beats, x.i \in 1 .. NBeats(x.n),
           NEW n \in Of("write"), n < x.n
    PROVE  NextBeat(x) = None \/ n < NextBeat(x).n
<1>1. x.n \in Of("write") /\ x.i \in Nat /\ x.n \in Nat /\ n \in Nat
  BY ScriptFacts DEF Beats
<1>2. CASE x.i < NBeats(x.n)
  BY <1>2 DEF NextBeat, Beat
<1>3. CASE ~(x.i < NBeats(x.n))
  <2>1. NextBeat(x) = FirstBeat(After("write", x.n))
    BY <1>3 DEF NextBeat
  <2>2. CASE After("write", x.n) = None
    BY <2>1, <2>2 DEF FirstBeat
  <2>3. CASE After("write", x.n) # None
    <3>1. After("write", x.n) \in Nat /\ After("write", x.n) > x.n
      BY <1>1, <2>3, AfterFacts, ScriptFacts
    <3>2. NextBeat(x) = Beat(After("write", x.n), 1)
      BY <2>1, <2>3 DEF FirstBeat
    <3> QED
      BY <1>1, <3>1, <3>2 DEF Beat
  <2> QED
    BY <2>2, <2>3
<1> QED
  BY <1>2, <1>3

LEMMA ShownStays ==
    ASSUME TypeInv, RisingEdge, NEW n \in Bursts, Shown(n)
    PROVE  Shown(n)'
<1>1. /\ script \in Scripts /\ script' = script
      /\ next_ar \in Of("read") \cup {None} /\ next_w \in Beats \cup {None}
      /\ next_w # None => next_w.i \in 1 .. NBeats(next_w.n)
  BY DEF RisingEdge, TypeInv, TypeOK, DutTypeOK, BeatsFit
<1>2. CASE script[n].kind = "read"
  <2>1. n \in Of("read") /\ Past(next_ar, n)
    BY <1>2 DEF Shown, Past, Of
  <2>2. Past(next_ar', n)
    BY <1>1, <2>1, PastGrows DEF RisingEdge, ShowAR
  <2> QED
    BY <1>1, <1>2, <2>2 DEF Shown, Past
<1>3. CASE script[n].kind # "read"
  <2>1. n \in Of("write") /\ (next_w = None \/ n < next_w.n)
    BY <1>3, KindFacts DEF Shown
  <2>2. next_w' = None \/ n < next_w'.n
    BY <1>1, <2>1, NextBeatLater DEF RisingEdge, ShowW
  <2> QED
    BY <1>1, <1>3, <2>2 DEF Shown
<1> QED
  BY <1>2, <1>3

LEMMA GoingEdge ==
    ASSUME ProxyInv, RisingEdge, NEW n \in Bursts
    PROVE  Going(n)
<1>1. /\ UNCHANGED <<script, from_gem5, pending, b_ready, bvalid, r, r_cur, r_data>>
      /\ TypeInv /\ PortInv /\ Steady /\ n # None
  BY KindFacts DEF RisingEdge, proxyVars, memVars, ProxyInv, PortInv
<1>2. Replies(n)' = Replies(n)
  BY <1>1 DEF Replies
<1>3. Performed(n)' <=> Performed(n)
  BY <1>1, <1>2 DEF Performed
<1>4. Shown(n) => Shown(n)'
  BY <1>1, ShownStays
<1>5. /\ DOMAIN rgot \subseteq DOMAIN rgot' /\ \A i \in DOMAIN rgot : rgot'[i] = rgot[i]
      /\ \A i \in DOMAIN rgot' : i \in DOMAIN rgot \/ (r = "hold" /\ rgot'[i].n = r_cur)
  <2>1. CASE r # "hold"
    BY <1>1, <2>1, EdgeTakes
  <2>2. CASE r = "hold"
    <3>1. /\ rgot'[Len(rgot) + 1] = rvalid /\ rvalid.n = r_cur
          /\ DOMAIN rgot' = 1 .. Len(rgot) + 1 /\ Len(rgot) \in Nat /\ DOMAIN rgot = 1 .. Len(rgot)
          /\ \A i \in DOMAIN rgot : rgot'[i] = rgot[i]
      BY <1>1, <2>2, EdgeTakes, TakenFacts
    <3>2. \A i \in 1 .. Len(rgot) + 1 : i \in 1 .. Len(rgot) \/ i = Len(rgot) + 1
      BY <3>1
    <3> QED
      BY <2>2, <3>1, <3>2
  <2> QED
    BY <2>1, <2>2
<1>6. /\ DOMAIN bgot \subseteq DOMAIN bgot' /\ \A i \in DOMAIN bgot : bgot'[i] = bgot[i]
      /\ \A i \in DOMAIN bgot' : i \in DOMAIN bgot \/ bgot'[i] = bvalid
  <2>1. bgot' = IF bvalid # None THEN Append(bgot, bvalid) ELSE bgot
    BY <1>1 DEF RisingEdge, Steady
  <2>2. PICK S : S = Of("write")
    OBVIOUS
  <2>3. bgot \in Seq(S) /\ (bvalid # None => bvalid \in S)
    BY <1>1, <2>2 DEF TypeInv, TypeOK, DutTypeOK, ProxyTypeOK
  <2>4. CASE bvalid = None
    BY <2>1, <2>4
  <2>5. CASE bvalid # None
    BY <2>1, <2>3, <2>5, AppendAt
  <2> QED
    BY <2>4, <2>5
<1>7. CASE n \in Of("read")
  <2>1. script[n].kind = "read"
    BY <1>7 DEF Of
  <2>2. Answered(n) => Answered(n)'
    BY <1>1, <1>5, <2>1 DEF Answered
  <2>3. Answered(n)' => Answered(n) \/ Performed(n)
    BY <1>1, <1>5, <2>1 DEF Answered, Performed
  <2>4. Found(n)' = Found(n)
    <3>1. CASE r = "hold" /\ r_cur = n
      BY <1>1, <3>1 DEF Found
    <3>2. CASE ~(r = "hold" /\ r_cur = n)
      <4>1. BeatsOf(n)' = BeatsOf(n)
        BY <1>5, <3>2 DEF BeatsOf
      <4>2. \A k \in BeatsOf(n) : k \in DOMAIN rgot /\ rgot'[k] = rgot[k]
        BY <1>5 DEF BeatsOf
      <4>3. Answers(n)' = Answers(n)
        <5>1. {i \in BeatsOf(n) : rgot'[i].last} = {i \in BeatsOf(n) : rgot[i].last}
          BY <4>2
        <5> QED
          BY <1>1, <2>1, <4>1, <5>1 DEF Answers
      <4>4. Data(n)' = Data(n)
        <5>1. PICK l : l = Least(BeatsOf(n))
          OBVIOUS
        <5>2. PICK D : D = {k + 1 - l : k \in BeatsOf(n)}
          OBVIOUS
        <5>3. \A i \in D : rgot'[i + l - 1] = rgot[i + l - 1]
          <6> SUFFICES ASSUME NEW k \in BeatsOf(n)
                       PROVE  rgot'[(k + 1 - l) + l - 1] = rgot[(k + 1 - l) + l - 1]
            BY <5>2
          <6>1. k \in Nat /\ BeatsOf(n) \subseteq Nat
            BY <1>1, TakenFacts DEF BeatsOf
          <6>2. l \in Nat
            <7>1. \E m \in BeatsOf(n) : \A x \in BeatsOf(n) : m <= x
              BY <6>1, LeastExists
            <7> QED
              BY <5>1, <6>1, <7>1 DEF Least
          <6>3. (k + 1 - l) + l - 1 = k
            BY <6>1, <6>2
          <6> QED
            BY <4>2, <6>3
        <5>4. Data(n) = [i \in D |-> rgot[i + l - 1].data]
          BY <5>1, <5>2 DEF Data
        <5>5. Data(n)' = [i \in D |-> rgot'[i + l - 1].data]
          BY <4>1, <5>1, <5>2 DEF Data, Least
        <5> QED
          BY <5>3, <5>4, <5>5
      <4> QED
        BY <1>1, <1>2, <3>2, <4>3, <4>4 DEF Found
    <3> QED
      BY <3>1, <3>2
  <2> QED
    BY <1>3, <1>4, <2>2, <2>3, <2>4 DEF Going
<1>8. CASE n \notin Of("read")
  <2>1. script[n].kind # "read"
    BY <1>8 DEF Of
  <2>2. Answered(n) => Answered(n)'
    BY <1>1, <1>6, <2>1 DEF Answered
  <2>3. Answered(n)' => Answered(n) \/ Performed(n)
    BY <1>1, <1>6, <2>1 DEF Answered, Performed
  <2> QED
    BY <1>3, <1>4, <1>8, <2>2, <2>3 DEF Going
<1> QED
  BY <1>7, <1>8

-------------------------------------------------------------------------------
(***************************************************************************)
(* gem5's step performs a burst that was issued.                           *)
(***************************************************************************)
LEMMA RequestShown ==
    ASSUME ProxyInv, NEW n \in AtBroker
    PROVE  Shown(n)
<1>1. TypeInv /\ CollectedInv /\ CollectInv /\ Ordered(ReadStages) /\ script \in Scripts
  BY MessageFacts DEF ProxyInv, MemoryInv, PortInv, ReadFlow
<1>2. CASE n = b_cur /\ b_cur # None
  <2>1. n \in Of("write") /\ n \in Bursts
    BY <1>1, <1>2, MessageFacts
  <2>2. Coming = None \/ n < Coming.n
    BY <1>1, <1>2 DEF CollectedInv, Only
  <2>3. next_w = None \/ n < next_w.n
    <3>1. CASE "w" \in todo /\ w # None
      <4>1. Coming = w /\ next_w = NextBeat(w) /\ w \in Beats /\ w.i \in 1 .. NBeats(w.n)
        BY <1>1, <3>1, ComingFacts DEF CollectInv, Coming
      <4>2. n < w.n
        BY <2>2, <3>1, <4>1
      <4> QED
        BY <1>1, <2>1, <4>1, <4>2, NextBeatLater
    <3>2. CASE ~("w" \in todo /\ w # None)
      BY <2>2, <3>2 DEF Coming
    <3> QED
      BY <3>1, <3>2
  <2> QED
    BY <1>1, <2>1, <2>3, KindFacts DEF Shown
<1>3. CASE n = r_cur /\ r = "wait"
  <2>1. n \in Of("read") /\ n \in Bursts
    BY <1>1, <1>3, MessageFacts
  <2>2. ASSUME next_ar # None PROVE n < next_ar
    <3>1. next_ar \in From("read", next_ar)
      BY <1>1, <2>2, ReadFacts DEF From
    <3>2. n \in ReadStages[2] /\ next_ar \in ReadStages[5] /\ 2 \in DOMAIN ReadStages
          /\ 5 \in DOMAIN ReadStages /\ 2 < 5
      BY <1>3, <3>1, ReadShape
    <3> QED
      BY <1>1, <3>2 DEF Ordered
  <2> QED
    BY <1>1, <2>1, <2>2, KindFacts DEF Shown
<1> QED
  BY <1>2, <1>3 DEF AtBroker, Only

\* What gem5 does with a write that has all its beats.
LEMMA WrittenIs ==
    ASSUME script \in Scripts, NEW m \in WriteMsgs, Whole(m)
    PROVE  Written(m) = Mem!Stored(ddr, m.aw)
<1>1. m.aw \in Of("write") /\ m.aw \in Bursts
  BY SubjectFacts, ScriptFacts
<1>2. DOMAIN script[m.aw].strb = 1 .. NBeats(m.aw) /\ NBeats(m.aw) \in Nat
  BY <1>1, ScriptFacts
<1>3. PICK n : n = m.aw
  OBVIOUS
<1>4. m.beats = [i \in 1 .. NBeats(n) |-> Beat(n, i)]
  BY <1>3 DEF Whole
<1>5. DOMAIN m.beats = 1 .. NBeats(n) /\ \A i \in 1 .. NBeats(n) : m.beats[i].n = n
                                                                 /\ m.beats[i].i = i
  BY <1>4 DEF Beat
<1>6. ASSUME NEW a \in Blocks PROVE Written(m)[a] = Mem!Stored(ddr, n)[a]
  <2>1. PICK i : i = a + 1 - script[n].block
    OBVIOUS
  <2>2. Written(m)[a] = IF /\ i \in DOMAIN m.beats /\ i <= NBeats(n)
                           /\ script[m.beats[i].n].strb[m.beats[i].i]
                          THEN <<m.beats[i].n, m.beats[i].i>> ELSE ddr[a]
    <3>1. script[m.aw].block = script[n].block /\ NBeats(m.aw) = NBeats(n)
      BY <1>3
    <3> QED
      BY <2>1, <3>1, Zenon DEF Written
  <2>3. Mem!Stored(ddr, n)[a] = IF i \in DOMAIN script[n].strb /\ script[n].strb[i]
                                  THEN <<n, i>> ELSE ddr[a]
    BY <2>1 DEF Mem!Stored
  <2>4. CASE i \in 1 .. NBeats(n)
    <3>1. /\ i \in DOMAIN m.beats /\ i <= NBeats(n) /\ i \in DOMAIN script[n].strb
          /\ m.beats[i].n = n /\ m.beats[i].i = i
      BY <1>2, <1>3, <1>5, <2>4
    <3> QED
      BY <2>2, <2>3, <3>1
  <2>5. CASE i \notin 1 .. NBeats(n)
    BY <1>2, <1>3, <1>5, <2>2, <2>3, <2>5
  <2> QED
    BY <2>4, <2>5
<1>7. Written(m) = [a \in Blocks |-> Written(m)[a]]
  BY Zenon DEF Written
<1>8. Mem!Stored(ddr, n) = [a \in Blocks |-> Mem!Stored(ddr, n)[a]]
  BY DEF Mem!Stored
<1> QED
  BY <1>3, <1>6, <1>7, <1>8

LEMMA FetchedIs ==
    ASSUME script \in Scripts, NEW n \in Bursts
    PROVE  Fetched(n) = Mem!Fetched(ddr, n)
<1>1. DOMAIN script[n].strb = 1 .. NBeats(n)
  BY ScriptFacts
<1> QED
  BY <1>1 DEF Fetched, Mem!Fetched

LEMMA Gem5Performs ==
    ASSUME ProxyInv, ProxyInv', Gem5Access
    PROVE  \E n \in Bursts : Mem!Perform(n)
<1>1. /\ UNCHANGED <<script, rgot, bgot, next_ar, next_w, pending, b_ready, bvalid, r, r_cur,
                     r_data>>
      /\ TypeInv /\ PortInv /\ BrokerInv /\ WholeInv
  BY DEF Gem5Access, dutVars, proxyVars, ProxyInv, MemoryInv
<1>2. Bursts' = Bursts /\ Of("write")' = Of("write")
  BY <1>1, ScriptFixed
<1>3. Settled /\ Settled'
  BY ProxySettled, PTL
<1>4. PICK h : h = Head(to_gem5)
  OBVIOUS
<1>5. PICK n : n = Subject(h)
  OBVIOUS
<1>6. h = to_gem5[1] /\ 1 \in DOMAIN to_gem5 /\ h \in WriteMsgs \cup ReadMsgs
  BY <1>1, <1>4, Gem5Replies
<1>7. PICK d \in Seq(Blank) :
         /\ from_gem5' = Append(from_gem5, [n |-> n, data |-> d])
         /\ n \in Of("write") => d = << >>
         /\ n \in Of("read") => d = Fetched(n)
  BY <1>1, <1>4, <1>5, Gem5Replies
<1>8. /\ n \in AtBroker /\ n \in Bursts /\ pending[n] = None
      /\ \A j \in DOMAIN from_gem5 : from_gem5[j].n # n
  BY <1>1, <1>5, <1>6, MessageAt DEF BrokerInv, MessagesApart
<1>9. /\ Replies(n) = {} /\ Replies(n)' = {d}
      /\ \A x \in Bursts : x # n => Replies(x)' = Replies(x)
  <2>1. PICK e : e = [n |-> n, data |-> d]
    OBVIOUS
  <2>2. from_gem5 \in Seq(ReplyMsgs) /\ e \in ReplyMsgs /\ e.n = n /\ e.data = d
    BY <1>1, <1>7, <1>8, <2>1, MessageFacts DEF ReplyMsgs
  <2>3. PICK l : l = Len(from_gem5) + 1
    OBVIOUS
  <2>4. /\ l \in DOMAIN from_gem5' /\ l \notin DOMAIN from_gem5 /\ from_gem5'[l] = e
        /\ \A i \in DOMAIN from_gem5 : i \in DOMAIN from_gem5' /\ from_gem5'[i] = from_gem5[i]
        /\ \A i \in DOMAIN from_gem5' : i \in DOMAIN from_gem5 \/ i = l
    BY <1>7, <2>1, <2>2, <2>3, AppendAt
  <2>5. {j \in DOMAIN from_gem5' : from_gem5'[j].n = n} = {l}
    BY <1>8, <2>2, <2>4
  <2>6. Replies(n)' = {d}
    BY <2>2, <2>4, <2>5 DEF Replies
  <2>7. ASSUME NEW x \in Bursts, x # n PROVE Replies(x)' = Replies(x)
    <3>1. {j \in DOMAIN from_gem5' : from_gem5'[j].n = x} = {j \in DOMAIN from_gem5 : from_gem5[j].n = x}
      BY <2>2, <2>4, <2>7
    <3>2. \A j \in DOMAIN from_gem5 : from_gem5'[j].data = from_gem5[j].data
      BY <2>4
    <3> QED
      BY <3>1, <3>2 DEF Replies
  <2>8. Replies(n) = {}
    BY <1>8, NoReplies
  <2> QED
    BY <2>6, <2>7, <2>8
<1>10. /\ ~Answered(n) /\ ~Performed(n) /\ Shown(n) /\ ~(r = "hold" /\ r_cur = n)
  BY <1>1, <1>8, <1>9, AtBrokerFacts, RequestShown DEF Performed
<1>11. \A x \in Bursts : /\ Answered(x)' <=> Answered(x)
                         /\ Shown(x)' <=> Shown(x)
                         /\ Answers(x)' = Answers(x) /\ Data(x)' = Data(x)
  BY <1>1, PortFrame
<1>12. Performed(n)' /\ \A x \in Bursts : x # n => (Performed(x)' <=> Performed(x))
  BY <1>1, <1>9 DEF Performed
<1>13. PICK stage : stage = [x \in Bursts |-> BurstStage(x)]
  OBVIOUS
<1>14. PICK found : found = [x \in Bursts |-> Found(x)]
  OBVIOUS
<1>15. /\ BurstStage(n) = "issued" /\ BurstStage(n)' = "performed"
       /\ \A x \in Bursts : x # n => BurstStage(x)' = BurstStage(x)
  BY <1>2, <1>3, <1>8, <1>10, <1>11, <1>12 DEF Settled
<1>16. /\ stage[n] = "issued"
       /\ [x \in Bursts |-> BurstStage(x)]' = [stage EXCEPT ![n] = "performed"]
  BY <1>2, <1>8, <1>13, <1>15
<1>17. \A x \in Bursts : x # n => Found(x)' = Found(x)
  <2> SUFFICES ASSUME NEW x \in Bursts, x # n PROVE Found(x)' = Found(x)
    OBVIOUS
  <2>1. Answers(x)' = Answers(x) /\ Data(x)' = Data(x) /\ Replies(x)' = Replies(x)
    BY <1>9, <1>11
  <2> QED
    BY <1>1, <2>1 DEF Found
<1>18. [x \in Bursts |-> IF Answers(x) > 0 THEN Data(x) ELSE << >>]'
          = [x \in Bursts |-> IF Answers(x) > 0 THEN Data(x) ELSE << >>]
  BY <1>2, <1>11
<1>19. CASE n \in Of("write")
  <2>1. [x \in Bursts |-> Found(x)]' = found
    <3>1. Found(n)' = Found(n)
      BY <1>2, <1>3, <1>8, <1>19 DEF Settled
    <3> QED
      BY <1>2, <1>14, <1>17, <3>1
  <2>2. ddr' = Mem!Stored(ddr, n)
    <3>1. h \in WriteMsgs
      BY <1>1, <1>5, <1>6, <1>19, SubjectFacts, MessageFacts
    <3>2. n = h.aw /\ Whole(h) /\ "aw" \in DOMAIN h /\ "ar" \notin DOMAIN h
      BY <1>1, <1>5, <1>6, <3>1, SubjectFacts DEF WholeInv
    <3>3. ddr' = Written(h)
      BY <1>4, <3>2 DEF Gem5Access
    <3>4. script \in Scripts
      BY <1>1, MessageFacts
    <3> QED
      BY <3>1, <3>2, <3>3, <3>4, WrittenIs
  <2>3. script[n].kind = "write"
    BY <1>19 DEF Of
  <2>4. Mem!Perform(n)
    BY <1>1, <1>13, <1>14, <1>16, <1>18, <2>1, <2>2, <2>3 DEF Mem!Perform
  <2> QED
    BY <1>8, <2>4
<1>20. CASE n \in Of("read")
  <2>1. Found(n)' = Fetched(n)
    <3>1. ~(Answers(n) > 0)
      BY <1>3, <1>8, <1>10 DEF Settled
    <3>2. Found(n)' = CHOOSE x \in {d} : TRUE
      BY <1>1, <1>8, <1>9, <1>10, <1>11, <3>1 DEF Found
    <3> QED
      BY <1>7, <1>20, <3>2
  <2>2. Fetched(n) = Mem!Fetched(ddr, n)
    BY <1>1, <1>8, FetchedIs, MessageFacts
  <2>3. [x \in Bursts |-> Found(x)]' = [found EXCEPT ![n] = Mem!Fetched(ddr, n)]
    BY <1>2, <1>8, <1>14, <1>17, <2>1, <2>2
  <2>4. ddr' = ddr
    <3>1. h \in ReadMsgs
      BY <1>1, <1>5, <1>6, <1>20, SubjectFacts, MessageFacts
    <3>2. "aw" \notin DOMAIN h
      BY <3>1, SubjectFacts
    <3> QED
      BY <1>4, <3>2 DEF Gem5Access
  <2>5. script[n].kind = "read"
    BY <1>20 DEF Of
  <2>6. Mem!Perform(n)
    BY <1>1, <1>13, <1>14, <1>16, <1>18, <2>3, <2>4, <2>5 DEF Mem!Perform
  <2> QED
    BY <1>8, <2>6
<1> QED
  BY <1>1, <1>8, <1>19, <1>20, KindFacts

LEMMA MappedInit == KeepsReady /\ Init => Mem!Init
<1> SUFFICES ASSUME KeepsReady, Init PROVE Mem!Init
  OBVIOUS
<1>1. TypeInv /\ PortInv /\ ProxyInv /\ script \in Scripts
  BY TypeInit, PortInit, MonitorInit, MemoryInit DEF ProxyInv, Init
<1>2. /\ from_gem5 = << >> /\ pending = [n \in Bursts |-> None] /\ b_ready = << >>
      /\ bvalid = None /\ r = "look" /\ rgot = << >> /\ bgot = << >>
      /\ next_ar = After("read", 0) /\ next_w = FirstBeat(After("write", 0))
      /\ ddr = [a \in Blocks |-> None]
  BY DEF Init
<1>3. ASSUME NEW n \in Bursts
      PROVE  BurstStage(n) = "idle" /\ Found(n) = << >> /\ ~(Answers(n) > 0)
  <2>1. ~Answered(n)
    BY <1>2 DEF Answered
  <2>2. Replies(n) = {} /\ ~Performed(n)
    <3>1. Replies(n) = {}
      BY <1>2, NoReplies
    <3>2. n # None
      BY <1>1, KindFacts
    <3> QED
      BY <1>2, <3>1, <3>2 DEF Performed
  <2>3. ~Shown(n)
    <3>1. \A kind : \A j \in Of(kind) : j \in Nat /\ j > 0
      BY <1>1, ScriptFacts
    <3>2. CASE n \in Of("read")
      <4>1. ~Past(next_ar, n)
        BY <1>1, <1>2, <3>1, <3>2, AfterFacts, NoneIsNoValue DEF Past
      <4> QED
        BY <3>2, <4>1 DEF Past, Shown, Of
    <3>3. CASE n \in Of("write")
      <4>1. ~Past(After("write", 0), n)
        BY <1>1, <3>1, <3>3, AfterFacts, NoneIsNoValue DEF Past
      <4>2. After("write", 0) # None /\ ~(n < After("write", 0))
        BY <4>1 DEF Past
      <4>3. After("write", 0) \in Nat
        BY <1>1, <3>1, <4>2, AfterType
      <4>4. next_w = Beat(After("write", 0), 1) /\ next_w \in [n : Nat, i : Nat]
        BY <1>2, <4>2, <4>3 DEF FirstBeat, Beat
      <4>5. next_w # None /\ next_w.n = After("write", 0)
        BY <4>4, NoneIsNoValue DEF Beat
      <4> QED
        BY <1>1, <3>3, <4>2, <4>5, KindFacts DEF Shown
    <3> QED
      BY <1>1, <3>2, <3>3, KindFacts
  <2>4. n \notin AtBroker
    BY <1>1, AtBrokerFacts DEF Init, AtBroker, Only
  <2>5. Found(n) = << >>
    BY <1>1, <1>2, <2>1, <2>4, FoundAway DEF ProxyInv, MemoryInv
  <2> QED
    BY <1>1, <2>1, <2>2, <2>3, <2>5, StageIs
<1>4. [n \in Bursts |-> BurstStage(n)] = [n \in Bursts |-> "idle"]
  BY <1>3
<1>5. [n \in Bursts |-> Found(n)] = [n \in Bursts |-> << >>]
  BY <1>3
<1>6. [n \in Bursts |-> IF Answers(n) > 0 THEN Data(n) ELSE << >>] = [n \in Bursts |-> << >>]
  BY <1>3
<1> QED
  BY <1>2, <1>4, <1>5, <1>6 DEF Mem!Init, Mem!Bursts, Bursts

LEMMA MappedStep == ProxyInv /\ ProxyInv' /\ [Next]_vars => Mem!Next
<1> SUFFICES ASSUME ProxyInv, ProxyInv', [Next]_vars PROVE Mem!Next
  OBVIOUS
<1>1. CASE Gem5Access
  BY <1>1, Gem5Performs DEF Mem!Next, Mem!Bursts, Bursts
<1>2. CASE b_task \/ b_drive_task \/ r_task \/ deliver \/ RisingEdge
  <2>1. UNCHANGED <<script, ddr>>
    BY <1>2 DEF b_task, b_drive_task, r_task, deliver, RisingEdge, memVars
  <2>2. \A n \in Bursts : Going(n)
    BY <1>2, GoingB, GoingBDrive, GoingR, GoingDeliver, GoingEdge
  <2> QED
    BY <2>1, <2>2, MemEdge DEF Mem!Next
<1>3. CASE aw_task \/ w_task \/ ar_task \/ axi_monitor \/ UNCHANGED vars
  <2>1. /\ UNCHANGED <<script, ddr>>
        /\ UNCHANGED <<rgot, bgot, next_ar, next_w, from_gem5, pending, b_ready, bvalid, r, r_cur,
                       r_data>>
    BY <1>3 DEF aw_task, w_task, ar_task, axi_monitor, vars, proxyVars, memVars, dutVars
  <2>2. \A n \in Bursts : Going(n)
    BY <2>1, GoingFrame
  <2> QED
    BY <2>1, <2>2, MemEdge DEF Mem!Next
<1> QED
  BY <1>1, <1>2, <1>3 DEF Next

\* A DUT that keeps bready and rready high sees one memory: whatever the
\* script, each of its bursts takes effect at once, between its last address
\* or data beat and its response, on the blocks it named and with its own
\* data, and a read is answered what those blocks held at that moment ("gem5's
\* DDR stays the single source of truth for memory contents",
\* axi_ddr_proxy.py:5-6).
THEOREM MemoryImplemented == Spec => ImplementsMemory
<1>1. Init => (KeepsReady => Mem!Init)
  BY MappedInit
<1>2. (KeepsReady => ProxyInv) /\ (KeepsReady' => ProxyInv') /\ [Next]_vars
        => [KeepsReady => Mem!Next]_(Mem!memVars)
  BY MappedStep, ReadyFixed
<1> QED
  BY <1>1, <1>2, ProxyInvariant, PTL DEF Spec, ImplementsMemory
===============================================================================
