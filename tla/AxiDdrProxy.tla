------------------------------ MODULE AxiDdrProxy -----------------------------
(***************************************************************************)
(* AxiDdrProxyBfm of axi_ddr_proxy.py: six coroutines that answer the      *)
(* DUT's AXI bursts from gem5's DDR, through MemBroker.                    *)
(*                                                                         *)
(* As in ChiLinkDriver, `todo` holds the coroutines woken by the falling   *)
(* edge.  awready, wready and arready are high for good, so an address or  *)
(* a data beat stays on its pins for one cycle and is sampled once.  The   *)
(* broker's messages and gem5's replies are two FIFO streams (see          *)
(* CosimBarrier); when they move is left open.                             *)
(*                                                                         *)
(* A burst is known by its number in `script`; beat i of write n carries   *)
(* the data <<n, i>>.                                                      *)
(***************************************************************************)
EXTENDS Naturals, Sequences, FiniteSets

CONSTANTS
    Scripts,        \* sequences of [kind, block, strb], see AxiMemory
    Blocks,         \* the 32-byte blocks of the DDR
    ReadyVaries,    \* the scripts with which the DUT may lower bready and rready
    None

\* The contents of a block: beat i of write n, or nothing.  A response on R.
Blank == {None} \cup (Nat \X Nat)
Response(readers) == [n : readers, data : Blank, last : BOOLEAN]

ASSUME ProxyAssumption ==
    /\ Blocks \subseteq Nat
    /\ ReadyVaries \subseteq Scripts
    /\ Scripts \subseteq
          Seq([kind : {"read", "write"}, block : Blocks, strb : Seq(BOOLEAN)])

\* awlen and arlen count the beats after the first, so a burst has one at
\* least; Blocks are all the blocks a burst may name.
ASSUME BurstAssumption ==
    \A s \in Scripts : \A n \in DOMAIN s :
        /\ s[n].strb # << >>
        /\ \A i \in DOMAIN s[n].strb : s[n].block + i - 1 \in Blocks

ASSUME NoneIsNoValue ==
    /\ None \notin Nat \cup [n : Nat, i : Nat] \cup Response(Nat)
    /\ None \notin [val : [n : Nat, i : Nat] \cup Response(Nat), beat : Nat]
    /\ None \notin Seq(Blank)

VARIABLES
    script,
    \* AxiDdrProxyBfm
    aw_queue, beats, pending_b, b_ready, ar_queue,
    b, bd, r,       \* where b_task, b_drive_task and r_task stand
    b_cur,          \* the write b_task has at the broker
    r_cur, r_beat,  \* the read r_task works on, and its beat
    r_data,         \* what broker.read returned
    bvalid, rvalid, \* what the pins carry, or None
    todo,
    \* MemBroker and gem5
    to_gem5, from_gem5,
    pending,        \* pending[n]: the broker's completion for burst n, or None
    ddr,
    \* the DUT
    next_aw, next_w, next_ar,   \* what it shows next
    aw, w, ar,      \* its pins: a burst, a beat, a burst, or None
    bready, rready,
    bgot, rgot,     \* the B responses and R beats it has taken
    axi_mon         \* what AxiMonitor has published, and its two beat counters

proxyVars == <<aw_queue, beats, pending_b, b_ready, ar_queue, b, bd, r, b_cur, r_cur,
               r_beat, r_data, bvalid, rvalid>>
memVars == <<to_gem5, from_gem5, pending, ddr>>
dutVars == <<next_aw, next_w, next_ar, aw, w, ar, bready, rready, bgot, rgot>>
vars == <<script, proxyVars, todo, memVars, dutVars, axi_mon>>

Bursts == DOMAIN script
Of(kind) == {n \in Bursts : script[n].kind = kind}
NBeats(n) == Len(script[n].strb)
Beat(n, i) == [n |-> n, i |-> i]
KeepsReady == script \notin ReadyVaries
Readies == IF KeepsReady THEN {TRUE} ELSE BOOLEAN

Least(S) == CHOOSE m \in S : \A k \in S : m <= k

\* The first burst of a kind after burst n, or None.
After(kind, n) ==
    LET later == {j \in Of(kind) : j > n}
    IN  IF later = {} THEN None ELSE Least(later)

FirstBeat(n) == IF n = None THEN None ELSE Beat(n, 1)

Init ==
    /\ script \in Scripts
    /\ aw_queue = << >> /\ beats = << >> /\ pending_b = << >> /\ b_ready = << >>
    /\ ar_queue = << >>
    /\ b = "look" /\ bd = "look" /\ r = "look"
    /\ b_cur = None /\ r_cur = None /\ r_beat = 0 /\ r_data = << >>
    /\ bvalid = None /\ rvalid = None /\ todo = {}
    /\ to_gem5 = << >> /\ from_gem5 = << >>
    /\ pending = [n \in Bursts |-> None]
    /\ ddr = [a \in Blocks |-> None]
    /\ aw = None /\ w = None /\ ar = None
    /\ next_aw = After("write", 0) /\ next_w = FirstBeat(After("write", 0))
    /\ next_ar = After("read", 0)
    /\ bready \in Readies /\ rready \in Readies
    /\ bgot = << >> /\ rgot = << >>
    /\ axi_mon = [aw |-> << >>, w |-> << >>, b |-> << >>, ar |-> << >>, r |-> << >>,
                  w_beat |-> 0, r_beat |-> 0]

-------------------------------------------------------------------------------
(***************************************************************************)
(* The write path.  aw_task was started before w_task and waits on the     *)
(* same edge every time, so it resumes first.                              *)
(***************************************************************************)
Resumes(c) == c \in todo /\ "mon" \notin todo /\ todo' = todo \ {c}

\* Mutant: valid is not looked at.
sampled_always(q, pin) == Append(q, pin)

sampled(q, pin) == IF pin = None THEN q ELSE Append(q, pin)

aw_task ==
    /\ Resumes("aw")
    /\ aw_queue' = sampled(aw_queue, aw)
    /\ UNCHANGED <<script, beats, pending_b, b_ready, ar_queue, b, bd, r, b_cur, r_cur,
                   r_beat, r_data, bvalid, rvalid, memVars, dutVars, axi_mon>>

\* Mutant: w_task may come first.
AwFirst_any == TRUE

AwFirst == "aw" \notin todo

LastBeat == w # None /\ w.i = NBeats(w.n)

w_task ==
    /\ AwFirst /\ Resumes("w")
    /\ \/ /\ w = None
          /\ UNCHANGED <<aw_queue, beats, pending_b>>
       \/ /\ w # None /\ ~LastBeat
          /\ beats' = Append(beats, w)
          /\ UNCHANGED <<aw_queue, pending_b>>
       \/ /\ LastBeat /\ aw_queue = << >>           \* the burst is dropped
          /\ beats' = << >>
          /\ UNCHANGED <<aw_queue, pending_b>>
       \/ /\ LastBeat /\ aw_queue # << >>
          /\ pending_b' = Append(pending_b, [aw |-> Head(aw_queue),
                                             beats |-> Append(beats, w)])
          /\ aw_queue' = Tail(aw_queue) /\ beats' = << >>
    /\ UNCHANGED <<script, b_ready, ar_queue, b, bd, r, b_cur, r_cur, r_beat, r_data,
                   bvalid, rvalid, memVars, dutVars, axi_mon>>

\* Mutant: the response does not wait for the DDR.
b_posted(n) == b' = "look" /\ b_ready' = Append(b_ready, n)

\* broker.write sends, and returns once its completion is in.
b_sent(n) == b' = "wait" /\ UNCHANGED b_ready

b_task ==
    /\ \/ /\ b = "look" /\ pending_b = << >>
          /\ b' = "poll"
          /\ UNCHANGED <<todo, pending_b, b_cur, b_ready, to_gem5, pending>>
       \/ /\ b = "look" /\ pending_b # << >>
          /\ pending_b' = Tail(pending_b)
          /\ b_cur' = Head(pending_b).aw
          /\ to_gem5' = Append(to_gem5, Head(pending_b))
          /\ b_sent(Head(pending_b).aw)
          /\ UNCHANGED <<todo, pending>>
       \/ /\ b = "poll" /\ Resumes("b") /\ b' = "look"
          /\ UNCHANGED <<pending_b, b_cur, b_ready, to_gem5, pending>>
       \/ /\ b = "wait" /\ Resumes("b")
          /\ IF pending[b_cur] = None
               THEN UNCHANGED <<b, b_cur, b_ready, pending>>
               ELSE /\ b' = "look" /\ b_cur' = None
                    /\ pending' = [pending EXCEPT ![b_cur] = None]
                    /\ b_ready' = Append(b_ready, b_cur)
          /\ UNCHANGED <<pending_b, to_gem5>>
    /\ UNCHANGED <<script, aw_queue, beats, ar_queue, bd, r, r_cur, r_beat, r_data,
                   bvalid, rvalid, from_gem5, ddr, dutVars, axi_mon>>

\* Mutant: no FallingEdge is awaited between two beats.
next_edge_now(c) == UNCHANGED todo

next_edge(c) == Resumes(c)

b_drive_task ==
    /\ \/ /\ bd = "look" /\ b_ready = << >>
          /\ bd' = "poll" /\ UNCHANGED <<todo, b_ready, bvalid>>
       \/ /\ bd = "look" /\ b_ready # << >>
          /\ bvalid' = Head(b_ready) /\ b_ready' = Tail(b_ready)
          /\ bd' = "hold" /\ UNCHANGED todo
       \/ /\ bd = "poll" /\ Resumes("bd") /\ bd' = "look"
          /\ UNCHANGED <<b_ready, bvalid>>
       \/ /\ bd = "hold" /\ next_edge("bd")
          /\ IF bready THEN bd' = "look" /\ bvalid' = None
                       ELSE UNCHANGED <<bd, bvalid>>
          /\ UNCHANGED b_ready
    /\ UNCHANGED <<script, aw_queue, beats, pending_b, ar_queue, b, r, b_cur, r_cur,
                   r_beat, r_data, rvalid, memVars, dutVars, axi_mon>>

-------------------------------------------------------------------------------
(***************************************************************************)
(* The read path.                                                          *)
(***************************************************************************)
ar_task ==
    /\ Resumes("ar")
    /\ ar_queue' = sampled(ar_queue, ar)
    /\ UNCHANGED <<script, aw_queue, beats, pending_b, b_ready, b, bd, r, b_cur, r_cur,
                   r_beat, r_data, bvalid, rvalid, memVars, dutVars, axi_mon>>

RBeat(n, data, i) == [n |-> n, data |-> data[i], last |-> i = NBeats(n)]

\* Mutant: the newest address first.
ar_next_newest == [n |-> ar_queue[Len(ar_queue)],
                   rest |-> SubSeq(ar_queue, 1, Len(ar_queue) - 1)]

ar_next == [n |-> Head(ar_queue), rest |-> Tail(ar_queue)]

r_hold ==
    /\ r = "hold" /\ next_edge("r")
    /\ \/ /\ ~rready
          /\ UNCHANGED <<r, r_beat, rvalid>>
       \/ /\ rready /\ r_beat < NBeats(r_cur)
          /\ r_beat' = r_beat + 1 /\ rvalid' = RBeat(r_cur, r_data, r_beat + 1)
          /\ UNCHANGED r
       \/ /\ rready /\ r_beat = NBeats(r_cur)
          /\ r' = "look" /\ r_beat' = 0 /\ rvalid' = None
    /\ UNCHANGED <<ar_queue, r_cur, r_data, to_gem5, pending>>

r_task ==
    /\ \/ /\ r = "look" /\ ar_queue = << >>
          /\ r' = "poll"
          /\ UNCHANGED <<todo, ar_queue, r_cur, r_beat, r_data, rvalid, to_gem5, pending>>
       \/ /\ r = "look" /\ ar_queue # << >>
          /\ r_cur' = ar_next.n /\ ar_queue' = ar_next.rest
          /\ to_gem5' = Append(to_gem5, [ar |-> ar_next.n])
          /\ r' = "wait" /\ UNCHANGED <<todo, r_beat, r_data, rvalid, pending>>
       \/ /\ r = "poll" /\ Resumes("r") /\ r' = "look"
          /\ UNCHANGED <<ar_queue, r_cur, r_beat, r_data, rvalid, to_gem5, pending>>
       \/ /\ r = "wait" /\ Resumes("r")
          /\ IF pending[r_cur] = None
               THEN UNCHANGED <<r, r_beat, r_data, rvalid, pending>>
               ELSE /\ r' = "hold" /\ r_beat' = 1 /\ r_data' = pending[r_cur]
                    /\ rvalid' = RBeat(r_cur, pending[r_cur], 1)
                    /\ pending' = [pending EXCEPT ![r_cur] = None]
          /\ UNCHANGED <<ar_queue, r_cur, to_gem5>>
       \/ r_hold
    /\ UNCHANGED <<script, aw_queue, beats, pending_b, b_ready, b, bd, b_cur, bvalid,
                   from_gem5, ddr, dutVars, axi_mon>>

-------------------------------------------------------------------------------
(***************************************************************************)
(* gem5 performs the accesses in the order they come (FakeDdr.read and     *)
(* write) and replies; MemBroker.deliver files the completion.             *)
(***************************************************************************)
Written(m) ==
    [a \in Blocks |->
        LET i == a + 1 - script[m.aw].block
        IN  IF /\ i \in DOMAIN m.beats /\ i <= NBeats(m.aw)
               /\ script[m.beats[i].n].strb[m.beats[i].i]
              THEN <<m.beats[i].n, m.beats[i].i>> ELSE ddr[a]]

Fetched(n) == [i \in 1 .. NBeats(n) |-> ddr[script[n].block + i - 1]]

Gem5Access ==
    /\ to_gem5 # << >> /\ to_gem5' = Tail(to_gem5)
    /\ LET m == Head(to_gem5)
       IN  \/ /\ "aw" \in DOMAIN m
              /\ ddr' = Written(m)
              /\ from_gem5' = Append(from_gem5, [n |-> m.aw, data |-> << >>])
           \/ /\ "ar" \in DOMAIN m
              /\ from_gem5' = Append(from_gem5, [n |-> m.ar, data |-> Fetched(m.ar)])
              /\ UNCHANGED ddr
    /\ UNCHANGED <<script, proxyVars, todo, pending, dutVars, axi_mon>>

deliver ==
    /\ from_gem5 # << >> /\ from_gem5' = Tail(from_gem5)
    /\ pending' = [pending EXCEPT ![Head(from_gem5).n] = Head(from_gem5).data]
    /\ UNCHANGED <<script, proxyVars, todo, to_gem5, ddr, dutVars, axi_mon>>

-------------------------------------------------------------------------------
(***************************************************************************)
(* AxiMonitor.  Its five coroutines sample the pins at the falling edge.   *)
(* What a BFM coroutine writes at that edge reaches the pins after all of  *)
(* them have run, so the monitor comes first.                              *)
(***************************************************************************)
\* Mutant: the counter is not reset by the last beat.
beat_after_sticky(beat, last) == beat + 1

beat_after(beat, last) == IF last THEN 0 ELSE beat + 1

axi_monitor ==
    /\ "mon" \in todo /\ todo' = todo \ {"mon"}
    /\ axi_mon' = [
          aw |-> sampled(axi_mon.aw, aw),
          ar |-> sampled(axi_mon.ar, ar),
          b |-> sampled(axi_mon.b, IF bready THEN bvalid ELSE None),
          w |-> sampled(axi_mon.w, IF w = None THEN None
                                   ELSE [val |-> w, beat |-> axi_mon.w_beat]),
          r |-> sampled(axi_mon.r, IF rvalid = None \/ ~rready THEN None
                                   ELSE [val |-> rvalid, beat |-> axi_mon.r_beat]),
          w_beat |-> IF w = None THEN axi_mon.w_beat
                     ELSE beat_after(axi_mon.w_beat, LastBeat),
          r_beat |-> IF rvalid = None \/ ~rready THEN axi_mon.r_beat
                     ELSE beat_after(axi_mon.r_beat, rvalid.last)]
    /\ UNCHANGED <<script, proxyVars, memVars, dutVars>>

-------------------------------------------------------------------------------
(***************************************************************************)
(* The rising edge.  The DUT takes the response on B and on R if its ready *)
(* was high, then shows its next address or beat, if any, on each channel. *)
(* It shows no beat before the address of its burst.                       *)
(***************************************************************************)
Idle == /\ todo = {}
        /\ b # "look" /\ bd # "look" /\ r # "look"

Tasks == {"mon", "aw", "w", "b", "bd", "ar", "r"}

NextBeat(x) == IF x.i < NBeats(x.n) THEN Beat(x.n, x.i + 1)
               ELSE FirstBeat(After("write", x.n))

ShowAW == \/ aw' = None /\ UNCHANGED next_aw
          \/ next_aw # None /\ aw' = next_aw /\ next_aw' = After("write", next_aw)

ShowW == \/ w' = None /\ UNCHANGED next_w
         \/ /\ next_w # None /\ w' = next_w /\ next_w' = NextBeat(next_w)
            /\ next_aw' # None => next_w.n < next_aw'

ShowAR == \/ ar' = None /\ UNCHANGED next_ar
          \/ next_ar # None /\ ar' = next_ar /\ next_ar' = After("read", next_ar)

RisingEdge ==
    /\ Idle /\ todo' = Tasks
    /\ bgot' = IF bvalid # None /\ bready THEN Append(bgot, bvalid) ELSE bgot
    /\ rgot' = IF rvalid # None /\ rready THEN Append(rgot, rvalid) ELSE rgot
    /\ bready' \in Readies /\ rready' \in Readies
    /\ ShowAW /\ ShowW /\ ShowAR
    /\ UNCHANGED <<script, proxyVars, memVars, axi_mon>>

Next == \/ aw_task \/ w_task \/ b_task \/ b_drive_task \/ ar_task \/ r_task
        \/ axi_monitor \/ Gem5Access \/ deliver \/ RisingEdge

Spec == Init /\ [][Next]_vars

\* The clock runs, every coroutine suspended on an edge resumes, gem5 answers,
\* and the DUT shows its bursts.
FairSpec ==
    /\ Spec
    /\ WF_vars(RisingEdge) /\ WF_vars(Gem5Access) /\ WF_vars(deliver)
    /\ WF_vars(axi_monitor) /\ WF_vars(aw_task) /\ WF_vars(w_task) /\ WF_vars(ar_task)
    /\ WF_vars(b_task) /\ WF_vars(b_drive_task) /\ WF_vars(r_task)
    /\ SF_vars(RisingEdge /\ aw' # None) /\ SF_vars(RisingEdge /\ w' # None)
    /\ SF_vars(RisingEdge /\ ar' # None)

-------------------------------------------------------------------------------
Beats == [n : Of("write"), i : Nat]
Responses == Response(Of("read"))

ProxyTypeOK ==
    /\ aw_queue \in Seq(Of("write")) /\ beats \in Seq(Beats)
    /\ pending_b \in Seq([aw : Of("write"), beats : Seq(Beats)])
    /\ b_ready \in Seq(Of("write")) /\ ar_queue \in Seq(Of("read"))
    /\ b \in {"look", "poll", "wait"} /\ bd \in {"look", "poll", "hold"}
    /\ r \in {"look", "poll", "wait", "hold"}
    /\ b_cur \in Of("write") \cup {None} /\ r_cur \in Of("read") \cup {None}
    /\ r_beat \in Nat /\ r_data \in Seq(Blank)
    /\ bvalid \in Of("write") \cup {None} /\ rvalid \in Responses \cup {None}

MemTypeOK ==
    /\ to_gem5 \in Seq([aw : Of("write"), beats : Seq(Beats)] \cup [ar : Of("read")])
    /\ from_gem5 \in Seq([n : Bursts, data : Seq(Blank)])
    /\ pending \in [Bursts -> Seq(Blank) \cup {None}]
    /\ ddr \in [Blocks -> Blank]

DutTypeOK ==
    /\ next_aw \in Of("write") \cup {None} /\ aw \in Of("write") \cup {None}
    /\ next_w \in Beats \cup {None} /\ w \in Beats \cup {None}
    /\ next_ar \in Of("read") \cup {None} /\ ar \in Of("read") \cup {None}
    /\ bready \in BOOLEAN /\ rready \in BOOLEAN
    /\ bgot \in Seq(Of("write")) /\ rgot \in Seq(Responses)

MonitorTypeOK ==
    axi_mon \in [aw : Seq(Of("write")), w : Seq([val : Beats, beat : Nat]),
                 b : Seq(Of("write")), ar : Seq(Of("read")),
                 r : Seq([val : Responses, beat : Nat]), w_beat : Nat, r_beat : Nat]

\* The types of the queues, the pins and the places of the coroutines.
TypeOK ==
    /\ script \in Scripts /\ todo \subseteq Tasks
    /\ ProxyTypeOK /\ MemTypeOK /\ DutTypeOK /\ MonitorTypeOK

(***************************************************************************)
(* The memory the DUT sees.  A burst is issued when the last of it was     *)
(* shown, performed when gem5 has replied, answered when the DUT has its   *)
(* last response; a write answered twice has no place in AxiMemory.        *)
(***************************************************************************)
Shown(n) == IF script[n].kind = "read"
              THEN next_ar = None \/ n < next_ar
              ELSE next_w = None \/ n < next_w.n

\* The beats of read n in rgot.  They stand together (InOrder), so Data(n) is
\* the sequence of their data.
BeatsOf(n) == {k \in DOMAIN rgot : rgot[k].n = n}
Taken(n) == Cardinality(BeatsOf(n))
Data(n) == [i \in {k + 1 - Least(BeatsOf(n)) : k \in BeatsOf(n)} |->
                rgot[i + Least(BeatsOf(n)) - 1].data]

Replies(n) == {from_gem5[i].data : i \in {j \in DOMAIN from_gem5 : from_gem5[j].n = n}}

Performed(n) ==
    \/ Replies(n) # {} \/ pending[n] # None
    \/ n \in {b_ready[i] : i \in DOMAIN b_ready} \/ bvalid = n
    \/ r = "hold" /\ r_cur = n

Answers(n) == IF script[n].kind = "read"
                THEN Cardinality({i \in BeatsOf(n) : rgot[i].last})
                ELSE Cardinality({i \in DOMAIN bgot : bgot[i] = n})

BurstStage(n) ==
    IF Answers(n) > 1 THEN "error"
    ELSE IF Answers(n) = 1 THEN "answered"
    ELSE IF Performed(n) THEN "performed"
    ELSE IF Shown(n) THEN "issued" ELSE "idle"

\* What read n found, wherever it is.
Found(n) ==
    IF r = "hold" /\ r_cur = n THEN r_data
    ELSE IF Answers(n) > 0 THEN Data(n)
    ELSE IF pending[n] # None THEN pending[n]
    ELSE IF Replies(n) # {} THEN CHOOSE d \in Replies(n) : TRUE
    ELSE << >>

Mem == INSTANCE AxiMemory WITH
    mem <- ddr,
    stage <- [n \in Bursts |-> BurstStage(n)],
    found <- [n \in Bursts |-> Found(n)],
    answer <- [n \in Bursts |-> IF Answers(n) > 0 THEN Data(n) ELSE << >>]

\* A DUT that keeps ready high sees one memory: every burst takes effect at
\* once, between its address and its response, on the blocks it named and with
\* its own data, and a read returns what the blocks held at that moment
\* ("gem5's DDR stays the single source of truth for memory contents",
\* axi_ddr_proxy.py:5-6).
ImplementsMemory ==
    (KeepsReady => Mem!Init) /\ [][KeepsReady => Mem!Next]_(Mem!memVars)

\* A DUT that keeps ready high takes the responses of its bursts, each once,
\* in order on its channel: "each R/B response is driven in order per channel"
\* (axi_ddr_proxy.py:12-13).
InOrder ==
    KeepsReady =>
    /\ \A i, j \in DOMAIN bgot : i < j => bgot[i] < bgot[j]
    /\ \A i, j \in DOMAIN rgot :
          i < j => \/ rgot[i].n < rgot[j].n
                   \/ rgot[i].n = rgot[j].n /\ ~rgot[i].last

(***************************************************************************)
(* The AXI slave holds a response on its pins until the DUT has taken it:  *)
(* b_drive_task and r_task loop until ready is high (axi_ddr_proxy.py:     *)
(* 190-193, 236-239).  They look at ready at the falling edge, after the   *)
(* rising edge at which the DUT took the response or did not.              *)
(***************************************************************************)
HeldUntilTaken ==
    [][ /\ bvalid # None /\ bvalid' # bvalid => \E i \in DOMAIN bgot : bgot[i] = bvalid
        /\ rvalid # None /\ rvalid' # rvalid => Taken(r_cur) >= r_beat ]_vars

(***************************************************************************)
(* The monitor numbers beats by counting from one `last` to the next, so a *)
(* beat it missed or saw twice would shift every later number.  However    *)
(* ready moves, W beats have the number the DUT gave them, and R beats     *)
(* come as whole bursts, numbered from 0 to the `last` one; and it has     *)
(* reported every address the DUT has shown.                               *)
(***************************************************************************)
Shows(seq, n) == \E k \in DOMAIN seq : seq[k] = n

ReadNumbered(k) ==
    LET x == axi_mon.r[k]
    IN  /\ x.val.last <=> x.beat + 1 = NBeats(x.val.n)
        /\ IF x.beat = 0
             THEN k = 1 \/ axi_mon.r[k - 1].val.last
             ELSE /\ k > 1 /\ axi_mon.r[k - 1].val.n = x.val.n
                  /\ axi_mon.r[k - 1].beat = x.beat - 1

MonitorNumbers ==
    Idle =>
        /\ \A k \in DOMAIN axi_mon.w : axi_mon.w[k].beat = axi_mon.w[k].val.i - 1
        /\ \A k \in DOMAIN axi_mon.r : ReadNumbered(k)
        /\ \A n \in Bursts : Shown(n) => Shows(axi_mon.aw \o axi_mon.ar, n)

(***************************************************************************)
(* No response is missing from the monitor's account and none is in it     *)
(* twice: what it has reported before a response is the responses to the   *)
(* earlier bursts, and the earlier beats of the same one.  This holds even *)
(* where the DUT, with a ready that moves, misses or repeats one: the      *)
(* monitor and the proxy sample ready at the same edge.                    *)
(***************************************************************************)
MonitorMissesNone ==
    LET r_at(k) == <<axi_mon.r[k].val.n, axi_mon.r[k].beat>>
    IN  /\ \A k \in DOMAIN axi_mon.b :
              {axi_mon.b[j] : j \in 1 .. k - 1} = {n \in Of("write") : n < axi_mon.b[k]}
        /\ \A k \in DOMAIN axi_mon.r :
              {r_at(j) : j \in 1 .. k - 1} =
                  UNION {{n} \X (0 .. NBeats(n) - 1) : n \in {m \in Of("read") : m < r_at(k)[1]}}
                  \cup ({r_at(k)[1]} \X (0 .. r_at(k)[2] - 1))

(***************************************************************************)
(* "each R/B response is driven in order per channel" (axi_ddr_proxy.py:   *)
(* 12-13): the DUT never takes a response after one of a later burst, nor  *)
(* a `last` before its burst's other beats, even if ready moves and it     *)
(* misses or takes some twice.                                             *)
(***************************************************************************)
NeverReordered ==
    /\ \A i, j \in DOMAIN bgot : i < j => bgot[i] <= bgot[j]
    /\ \A i, j \in DOMAIN rgot :
          i < j => \/ rgot[i].n < rgot[j].n
                   \/ rgot[i].n = rgot[j].n /\ (rgot[i].last => rgot[j].last)

\* Every burst of a DUT that keeps ready high is answered: no response is lost
\* between the broker, the response queue and the pins.
EveryBurstAnswered == <>[](KeepsReady => \A n \in Bursts : Answers(n) > 0)
===============================================================================
