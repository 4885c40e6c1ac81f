------------------------------- MODULE TbPeerSim ------------------------------
(***************************************************************************)
(* tb_peer_sim.py, the software stand-in for the testbench, in front of    *)
(* gem5's memory (`--mem gem5`): one thread that reads a message, runs its *)
(* handler to the end and reads the next.  A handler that needs memory     *)
(* leaves a callback in pending_mem, run when the reply with its id comes. *)
(*                                                                         *)
(* gem5 is external: it keeps the home node's contract (HnfChecker), makes *)
(* bypass accesses, and serves memory in any order it likes.  The peer     *)
(* sends CompData without a respErr; AbsentRespErr is what gem5 may make   *)
(* of that: {0} if it reads a field that is not there as 0, as             *)
(* dat_from_json of cosim_transport.py does, {} if it finds no value and   *)
(* refuses the beat, as the checker of fake_gem5.py does.                  *)
(***************************************************************************)
EXTENDS HnfChecker, Sequences, Functions

CONSTANTS
    Pkts,       \* gem5's bypass packets
    Bypasses,   \* [kind, block]: what a packet may ask for; 32 bytes each
    Blocks,     \* the 32-byte blocks of gem5's DDR
    MaxDbid,    \* dbids run from 1 to MaxDbid and wrap (255 in the code)
    MaxSyncs,   \* --max-syncs
    AbsentRespErr,
    None

ASSUME PeerAssumption ==
    /\ Txns \cap Pkts = {}
    /\ Bypasses \subseteq [kind : {"read", "write"}, block : Blocks]
    /\ Blocks \subseteq Nat /\ MaxDbid \in Nat \ {0} /\ MaxSyncs \in Nat \ {0}
    /\ AbsentRespErr \subseteq {{0}, {}}

VARIABLES
    \* TbPeerSim
    peer_pc,        \* "hello", "serve", "exit0", "exit1", or "broken" by a send
    dbid, writes, pending_mem, mem_id, syncs,
    \* the socket
    to_peer, to_gem5,
    \* gem5
    bypass,         \* bypass[p]: what packet p asks for, fixed
    byp,            \* byp[p]: "unsent", "sent" or "done"
    g5,             \* "start", "hello", "run" or "gone"
    syncing,        \* a sync has been sent and not acknowledged
    accesses,       \* memory accesses received, not yet performed
    mem,            \* mem[a]: the contents of block a
    performed,      \* the accesses the memory has performed
    found,          \* found[n]: what the memory access of read n found
    got             \* got[n]: the data gem5 was answered with

peerVars == <<peer_pc, dbid, writes, pending_mem, mem_id, syncs>>
ddrVars == <<accesses, mem, performed, found>>
g5Vars == <<hnfVars, bypass, byp, g5, syncing, got>>
vars == <<peerVars, to_peer, to_gem5, ddrVars, g5Vars>>

Accesses == Txns \cup Pkts
NoFun == [n \in {} |-> None]

Init ==
    /\ HnfInit
    /\ bypass \in [Pkts -> Bypasses]
    /\ peer_pc = "hello" /\ dbid = 0 /\ writes = NoFun /\ pending_mem = NoFun
    /\ mem_id = 1 /\ syncs = 0
    /\ to_peer = << >> /\ to_gem5 = << >>
    /\ byp = [p \in Pkts |-> "unsent"] /\ g5 = "start" /\ syncing = FALSE
    /\ accesses = {} /\ mem = [a \in Blocks |-> None]
    /\ performed = {}
    /\ found = [n \in Accesses |-> << >>] /\ got = [n \in Accesses |-> << >>]

\* `size or LINE_BYTES`, and the blocks that makes.
bytes_asked(r) == IF r.size = 0 THEN LINE_BYTES ELSE r.size
blocks_asked(r) == (bytes_asked(r) + BEAT_BYTES - 1) \div BEAT_BYTES

\* What access n asks of the memory, in 32-byte blocks.
Burst(n) ==
    IF n \in Txns
      THEN [kind |-> req[n].op, block |-> 2 * req[n].line + req[n].half,
            strb |-> [i \in 1 .. blocks_asked(req[n]) |-> TRUE]]
      ELSE [kind |-> bypass[n].kind, block |-> bypass[n].block, strb |-> <<TRUE>>]

-------------------------------------------------------------------------------
(***************************************************************************)
(* The peer.  A handler takes the head of to_peer and sends `msgs`; a send *)
(* to a gem5 that has gone raises (Breaks, below).                         *)
(***************************************************************************)
Answer(msgs) ==
    /\ g5 # "gone" \/ msgs = << >>
    /\ to_peer' = Tail(to_peer)
    /\ to_gem5' = to_gem5 \o msgs

\* d[key] = v of a dictionary.
Put(d, key, v) == [k \in DOMAIN d \cup {key} |-> IF k = key THEN v ELSE d[k]]

\* mem_read and mem_write: the callback waits under a fresh id.
mem_access(n, callback) ==
    /\ pending_mem' = Put(pending_mem, mem_id, callback)
    /\ mem_id' = mem_id + 1
    /\ Answer(<<[t |-> "mem", id |-> mem_id, n |-> n]>>)

\* Mutant: the wrap reaches 0.
next_dbid_zero == (dbid + 1) % (MaxDbid + 1)

next_dbid == (dbid % MaxDbid) + 1

on_req_flit(t) ==
    \/ /\ req[t].op = "read"
       /\ mem_access(t, [t |-> "CompData", n |-> t])
       /\ UNCHANGED <<dbid, writes>>
    \/ /\ req[t].op = "write"
       /\ dbid' = next_dbid
       /\ writes' = Put(writes, t, next_dbid)
       /\ Answer(<<[t |-> "rsp", n |-> t, opcode |-> "DBIDResp", dbid |-> next_dbid]>>)
       /\ UNCHANGED <<pending_mem, mem_id>>
    \/ /\ req[t].op = "other"
       /\ Answer(<< >>)
       /\ UNCHANGED <<dbid, writes, pending_mem, mem_id>>

\* Mutant: Comp goes out with the write, not with its reply.
on_dat_flit_posted(t) ==
    /\ Answer(<<[t |-> "mem", id |-> mem_id, n |-> t],
                [t |-> "rsp", n |-> t, opcode |-> "Comp", dbid |-> writes[t]]>>)
    /\ mem_id' = mem_id + 1
    /\ UNCHANGED <<dbid, writes, pending_mem>>

on_dat_flit(t) ==
    /\ IF t \in DOMAIN writes
         THEN mem_access(t, [t |-> "Comp", n |-> t, dbid |-> writes[t]])
         ELSE Answer(<< >>) /\ UNCHANGED <<pending_mem, mem_id>>
    /\ UNCHANGED <<dbid, writes>>

on_bypass(p) ==
    /\ mem_access(p, [t |-> "bypass_resp", n |-> p])
    /\ UNCHANGED <<dbid, writes>>

\* Mutant: `last` is one beat late.
is_last_late(i, data) == i - 1 = Len(data)

is_last(i, data) == i = Len(data)

\* serve_read, serve_write, serve_byp_r and serve_byp_w: what a callback sends.
Served(callback, data) ==
    CASE callback.t = "CompData" ->
            [i \in DOMAIN data |-> [t |-> "dat", n |-> callback.n, dataid |-> i - 1,
                                    last |-> is_last(i, data), data |-> data[i]]]
      [] callback.t = "Comp" ->
            <<[t |-> "rsp", n |-> callback.n, opcode |-> "Comp", dbid |-> callback.dbid]>>
      [] callback.t = "bypass_resp" ->
            <<[t |-> "bypass_resp", n |-> callback.n, data |-> data]>>

\* Mutant: replies are taken to come in the order of their ids.
Expected_inorder(id) ==
    id \in DOMAIN pending_mem /\ \A k \in DOMAIN pending_mem : id <= k

Expected(id) == id \in DOMAIN pending_mem

deliver_mem(m) ==
    /\ IF Expected(m.id)
         THEN LET callback == pending_mem[m.id]
              IN  /\ Answer(Served(callback, m.data))
                  /\ pending_mem' = Restrict(pending_mem, DOMAIN pending_mem \ {m.id})
                  /\ writes' = IF callback.t = "Comp"
                                 THEN Restrict(writes, DOMAIN writes \ {callback.n})
                                 ELSE writes
         ELSE Answer(<< >>) /\ UNCHANGED <<pending_mem, writes>>
    /\ UNCHANGED <<dbid, mem_id>>

memoryless == UNCHANGED <<dbid, writes, pending_mem, mem_id>>

on_sync ==
    /\ syncs' = syncs + 1
    /\ \/ /\ syncs' >= MaxSyncs
          /\ Answer(<<[t |-> "ack"], [t |-> "bye"]>>) /\ peer_pc' = "exit0"
       \/ /\ syncs' < MaxSyncs
          /\ Answer(<<[t |-> "ack"]>>) /\ UNCHANGED peer_pc
    /\ memoryless

\* Mutant: the loop goes on after bye and peer_closed.
on_end_ignored ==
    /\ to_peer' = Tail(to_peer)
    /\ UNCHANGED peer_pc

on_end ==
    /\ to_peer' = << >>
    /\ peer_pc' = "exit0"

\* One turn of the loop in run.
PeerHandles ==
    /\ peer_pc = "serve" /\ to_peer # << >>
    /\ LET m == Head(to_peer)
       IN  \/ m.t = "sync" /\ on_sync
           \/ m.t = "req" /\ on_req_flit(m.n) /\ UNCHANGED <<peer_pc, syncs>>
           \/ m.t = "dat" /\ on_dat_flit(m.n) /\ UNCHANGED <<peer_pc, syncs>>
           \/ m.t = "bypass" /\ on_bypass(m.n) /\ UNCHANGED <<peer_pc, syncs>>
           \/ m.t = "mem_done" /\ deliver_mem(m) /\ UNCHANGED <<peer_pc, syncs>>
           \/ /\ m.t \in {"bye", "peer_closed"}
              /\ on_end /\ memoryless /\ UNCHANGED <<to_gem5, syncs>>
    /\ UNCHANGED <<ddrVars, g5Vars>>

HasAnswer(m) ==
    \/ m.t \in {"hello", "sync", "bypass"}
    \/ m.t = "req" /\ req[m.n].op # "other"
    \/ m.t = "dat" /\ m.n \in DOMAIN writes
    \/ m.t = "mem_done" /\ Expected(m.id)

PeerUp == peer_pc \in {"hello", "serve"}

PeerEnds(code) ==
    /\ peer_pc' = code /\ to_peer' = << >>
    /\ memoryless /\ UNCHANGED <<syncs, to_gem5, ddrVars, g5Vars>>

Breaks ==
    /\ PeerUp /\ to_peer # << >> /\ g5 = "gone"
    /\ HasAnswer(Head(to_peer))
    /\ PeerEnds("broken")

\* The first message must be hello.
PeerHello ==
    /\ peer_pc = "hello" /\ to_peer # << >>
    /\ \/ /\ Head(to_peer).t = "hello"
          /\ Answer(<<[t |-> "hello_ack"]>>) /\ peer_pc' = "serve"
          /\ memoryless /\ UNCHANGED <<syncs, ddrVars, g5Vars>>
       \/ Head(to_peer).t # "hello" /\ PeerEnds("exit1")

\* No hello for 30 s; nothing for 10 s after --max-time has passed.
PeerTimeout ==
    /\ PeerUp /\ to_peer = << >>
    /\ PeerEnds("exit1")

-------------------------------------------------------------------------------
(***************************************************************************)
(* gem5.                                                                   *)
(***************************************************************************)
Gem5Sends(m) == g5 = "run" /\ PeerUp /\ to_peer' = Append(to_peer, m)

Gem5Starts ==
    /\ g5 = "start" /\ g5' = "hello"
    /\ to_peer' = Append(to_peer, [t |-> "hello"])
    /\ UNCHANGED <<peerVars, to_gem5, ddrVars, hnfVars, bypass, byp, syncing, got>>

\* The home node sends a REQ flit, or the data of a write it was granted.
Gem5Flit(t) ==
    /\ \/ Gem5Sends([t |-> "req", n |-> t]) /\ expect(t)
       \/ Gem5Sends([t |-> "dat", n |-> t]) /\ send_write_data(t)
    /\ UNCHANGED <<peerVars, to_gem5, ddrVars, bypass, byp, g5, syncing, got>>

Gem5Bypass(p) ==
    /\ byp[p] = "unsent" /\ Gem5Sends([t |-> "bypass", n |-> p])
    /\ byp' = [byp EXCEPT ![p] = "sent"]
    /\ UNCHANGED <<peerVars, to_gem5, ddrVars, hnfVars, bypass, g5, syncing, got>>

Gem5Sync ==
    /\ ~syncing /\ Gem5Sends([t |-> "sync"])
    /\ syncing' = TRUE
    /\ UNCHANGED <<peerVars, to_gem5, ddrVars, hnfVars, bypass, byp, g5, got>>

\* It leaves with bye, or by closing the socket; what it had not served is lost.
Gem5Leaves ==
    /\ g5 \in {"hello", "run"}
    /\ g5' = "gone"
    /\ \E last \in {<< >>, <<[t |-> "bye"]>>} :
          to_peer' = IF PeerUp THEN to_peer \o last \o <<[t |-> "peer_closed"]>>
                               ELSE to_peer
    /\ to_gem5' = << >> /\ accesses' = {}
    /\ UNCHANGED <<peerVars, mem, performed, found, hnfVars, bypass, byp, syncing, got>>

(***************************************************************************)
(* A message gem5 receives: a flit for the home node, an access for the    *)
(* memory, or the answer of a bypass packet.                               *)
(***************************************************************************)
Gem5Takes ==
    /\ g5 \in {"hello", "run"} /\ to_gem5 # << >>
    /\ to_gem5' = Tail(to_gem5)
    /\ LET m == Head(to_gem5)
       IN  \/ /\ m.t = "hello_ack"
              /\ g5' = "run"
              /\ UNCHANGED <<hnfVars, byp, syncing, got, accesses>>
           \/ /\ m.t = "ack"
              /\ syncing' = FALSE
              /\ UNCHANGED <<hnfVars, byp, g5, got, accesses>>
           \/ /\ m.t = "bye"
              /\ g5' = "gone"
              /\ UNCHANGED <<hnfVars, byp, syncing, got, accesses>>
           \/ /\ m.t = "mem"
              /\ accesses' = accesses \cup {m}
              /\ UNCHANGED <<hnfVars, byp, g5, syncing, got>>
           \/ /\ m.t = "rsp"
              /\ on_rsp(m.n, m.opcode, m.dbid) /\ ~failed'
              /\ UNCHANGED <<byp, g5, syncing, got, accesses>>
           \/ /\ m.t = "dat"
              /\ \E e \in AbsentRespErr : on_dat(m.n, m.dataid, m.last, e) /\ ~failed'
              /\ got' = [got EXCEPT ![m.n] = Append(@, m.data)]
              /\ UNCHANGED <<byp, g5, syncing, accesses>>
           \/ /\ m.t = "bypass_resp"
              /\ byp' = [byp EXCEPT ![m.n] = "done"]
              /\ got' = [got EXCEPT ![m.n] = m.data]
              /\ UNCHANGED <<hnfVars, g5, syncing, accesses>>
    /\ UNCHANGED <<peerVars, to_peer, bypass, mem, performed, found>>

\* A flit that breaks the contract: ContractError, bye, and the process ends.
Gem5Refuses ==
    /\ g5 \in {"hello", "run"} /\ to_gem5 # << >>
    /\ LET m == Head(to_gem5)
       IN  \/ m.t = "rsp" /\ on_rsp(m.n, m.opcode, m.dbid)
           \/ /\ m.t = "dat"
              /\ \E e \in AbsentRespErr : on_dat(m.n, m.dataid, m.last, e) /\ failed'
    /\ failed'
    /\ g5' = "gone" /\ to_gem5' = << >> /\ accesses' = {}
    /\ to_peer' = IF PeerUp THEN to_peer \o <<[t |-> "bye"], [t |-> "peer_closed"]>>
                            ELSE to_peer
    /\ UNCHANGED <<peerVars, mem, performed, found, bypass, byp, syncing, got>>

\* The memory performs an access it has received, in any order, and replies.
Stored(n) == [a \in Blocks |->
                 LET i == a + 1 - Burst(n).block
                 IN  IF i \in DOMAIN Burst(n).strb THEN <<n, i>> ELSE mem[a]]

Fetched(n) == [i \in DOMAIN Burst(n).strb |-> mem[Burst(n).block + i - 1]]

Gem5Performs(m) ==
    /\ m \in accesses
    /\ accesses' = accesses \ {m} /\ performed' = performed \cup {m.n}
    /\ \/ /\ Burst(m.n).kind = "write"
          /\ mem' = Stored(m.n) /\ UNCHANGED found
       \/ /\ Burst(m.n).kind = "read"
          /\ found' = [found EXCEPT ![m.n] = Fetched(m.n)] /\ UNCHANGED mem
    /\ Gem5Sends([t |-> "mem_done", id |-> m.id, data |-> found'[m.n]])
    /\ UNCHANGED <<peerVars, to_gem5, g5Vars>>

Next ==
    \/ PeerHello \/ PeerHandles \/ Breaks \/ PeerTimeout
    \/ Gem5Starts \/ Gem5Sync \/ Gem5Leaves \/ Gem5Takes \/ Gem5Refuses
    \/ \E t \in Txns : Gem5Flit(t)
    \/ \E p \in Pkts : Gem5Bypass(p)
    \/ \E m \in accesses : Gem5Performs(m)

Spec == Init /\ [][Next]_vars

(***************************************************************************)
(* Fairness: both processes keep running, the memory serves what it is     *)
(* asked and the home node sends the data it was granted.  No request, no  *)
(* sync, no timeout and no exit is assumed.                                *)
(***************************************************************************)
Fairness ==
    /\ WF_vars(PeerHello \/ PeerHandles \/ Breaks)
    /\ WF_vars(Gem5Takes \/ Gem5Refuses)
    /\ WF_vars(\E m \in accesses : Gem5Performs(m))
    /\ \A t \in Txns : WF_vars(hnf[t].phase = "wait_data" /\ Gem5Flit(t))

FairSpec == Spec /\ Fairness
-------------------------------------------------------------------------------
Callbacks ==
    [t : {"CompData"}, n : Txns] \cup [t : {"bypass_resp"}, n : Pkts]
        \cup [t : {"Comp"}, n : Txns, dbid : 1 .. MaxDbid]

\* Every variable has its type; a dbid, which gem5 takes for "none" when it
\* is 0, stays in 1 .. MaxDbid across the wrap.
TypeOK ==
    /\ HnfTypeOK
    /\ peer_pc \in {"hello", "serve", "exit0", "exit1", "broken"}
    /\ dbid \in 0 .. MaxDbid /\ mem_id \in Nat \ {0} /\ syncs \in 0 .. MaxSyncs
    /\ DOMAIN writes \subseteq Txns /\ Range(writes) \subseteq 1 .. MaxDbid
    /\ DOMAIN pending_mem \subseteq 1 .. mem_id - 1
    /\ Range(pending_mem) \subseteq Callbacks
    /\ bypass \in [Pkts -> Bypasses] /\ byp \in [Pkts -> {"unsent", "sent", "done"}]
    /\ g5 \in {"start", "hello", "run", "gone"} /\ syncing \in BOOLEAN

(***************************************************************************)
(* "acts as a protocol-correct SN-F for the CHI flits the bridge forwards" *)
(* (line 8 of tb_peer_sim.py), up to the respErr that is not there: every  *)
(* step is one of the specification that the real agent implements in     *)
(* front of the RTL, or gem5 refuses a CompData beat that is the one it    *)
(* expects in all but that.                                                *)
(***************************************************************************)
StageOf(t) ==
    IF failed \/ hnf[t].completed > 1 THEN "error"
    ELSE IF hnf[t].completed = 1 THEN "done"
    ELSE CASE hnf[t].phase = "unsent" -> "idle"
           [] hnf[t].phase = "wait_data" -> "granted"
           [] hnf[t].phase = "wait_comp" -> "sent"
           [] OTHER -> "asked"

Port == INSTANCE SnfPort WITH
            kind <- [t \in Txns |-> req[t].op],
            beats <- [t \in Txns |-> beats_expected(req[t])],
            stage <- [t \in Txns |-> StageOf(t)],
            got <- [t \in Txns |-> hnf[t].beats]

RefusesRespErr ==
    /\ {} \in AbsentRespErr
    /\ failed' /\ UNCHANGED hnf
    /\ to_gem5 # << >>
    /\ LET m == Head(to_gem5)
       IN  m.t = "dat" /\ DatAccepted(hnf[m.n], req[m.n], m.dataid, m.last, {0})

ImplementsPortButRespErr ==
    Port!Init /\ [][Port!Next \/ RefusesRespErr]_(Port!portVars)

(***************************************************************************)
(* A gem5 that has ended over a contract violation does not leave the peer *)
(* waiting: it ends too, by the bye or by a send that fails.               *)
(***************************************************************************)
PeerEndsAfterRefusal == failed ~> ~PeerUp

(***************************************************************************)
(* Requests and bypass packets, through the peer, see one memory: each     *)
(* access takes effect at one moment between its request and its answer,   *)
(* and a read is answered with what it found then, beat for beat.          *)
(***************************************************************************)
Asked(n) == IF n \in Txns THEN hnf[n].phase # "unsent" ELSE byp[n] # "unsent"
Answered(n) == IF n \in Txns THEN hnf[n].completed > 0 ELSE byp[n] = "done"

MemStage(n) ==
    CASE Answered(n) /\ n \in performed -> "answered"
      [] Answered(n) /\ n \notin performed -> "error"
      [] ~Answered(n) /\ n \in performed -> "performed"
      [] ~Answered(n) /\ n \notin performed -> IF Asked(n) THEN "issued" ELSE "idle"

Memory == INSTANCE AxiMemory WITH
    script <- [n \in Accesses |-> Burst(n)],
    stage <- [n \in Accesses |-> MemStage(n)],
    answer <- [n \in Accesses |-> IF Answered(n) THEN got[n] ELSE << >>]

ImplementsMemory == Memory!Spec

(***************************************************************************)
(* Every request and every bypass packet is answered, unless one of the    *)
(* two ends first.                                                         *)
(***************************************************************************)
Supported(n) == n \in Pkts \/ req[n].op # "other"

EveryAccessAnswered ==
    \A n \in Accesses :
        Asked(n) /\ Supported(n) ~> Answered(n) \/ ~PeerUp \/ g5 = "gone"
===============================================================================
