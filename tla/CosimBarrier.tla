------------------------------ MODULE CosimBarrier ----------------------------
(***************************************************************************)
(* The quantum barrier between fake_gem5.py and the testbench: the         *)
(* handshake, dispatcher, barrier loop and shutdown of CosimRuntime, its   *)
(* MemBroker, CosimTransport, and the main loop of FakeGem5.               *)
(*                                                                         *)
(* The two processes share one stream per direction.  to_tb is the socket, *)
(* the reader thread and rx_queue in series; to_gem5 is tx_queue, the      *)
(* writer thread and the socket in series (CosimTransport shows that they  *)
(* are such streams).  A transaction is a read, a write or a bypass        *)
(* access, with one memory access each; what the SN-F agent and the DUT do *)
(* with it in between is SnfSystem's subject.                              *)
(***************************************************************************)
EXTENDS Integers, Sequences, FiniteSets

CONSTANTS
    Scenarios,      \* the sequences of transaction kinds run_scenario may queue
    Quantum,        \* quantum_cycles
    MaxSyncs,       \* C2XM_COSIM_MAX_SYNCS; 0: run until the peer exits
    MinAcks,        \* barriers that make a closed peer a pass (100 in the code)
    MaxBarriers     \* barriers after which --max-time has certainly passed

ASSUME BarrierAssumption ==
    /\ Scenarios \subseteq Seq({"read", "write", "bypass"})
    /\ Quantum \in Nat \ {0}
    /\ MaxSyncs \in Nat /\ MinAcks \in Nat /\ MaxBarriers \in Nat

VARIABLES
    scenario,       \* --scenario: the kind of each transaction, fixed
    to_tb, to_gem5, \* the two streams
    readable,       \* the reader thread has met no bad line
    \* CosimRuntime
    tb_pc, sync_seen, done, exit_reason, sync_cycle, syncs_acked, cycles_run,
    cyc,            \* cycles left in the running quantum
    work,           \* work[x]: how far the TB has got with x
    asked_at,       \* asked_at[x]: syncs_acked when x's mem_read was sent
    \* FakeGem5
    g_pc, outbox, pending_write_data, quantum_msgs, completed, g_cycle, syncs,
    remote_bye, failed

envVars  == <<scenario, readable>>
chanVars == <<to_tb, to_gem5>>
loopVars == <<tb_pc, sync_seen, done, exit_reason, sync_cycle, syncs_acked,
              cycles_run, cyc>>
dutVars  == <<work, asked_at>>
tbVars   == <<loopVars, dutVars>>
g5Vars   == <<g_pc, outbox, pending_write_data, quantum_msgs, completed,
              g_cycle, syncs, remote_bye, failed>>
vars == <<envVars, chanVars, tbVars, g5Vars>>

Txns == DOMAIN scenario

Msg(t) == [t |-> t]
About(t, x) == [t |-> t, txn |-> x]
Bye(reason) == [t |-> "bye", reason |-> reason]
AtCycle(t, c) == [t |-> t, cycle |-> c]

TbGone == tb_pc \in {"closed", "raised"}
G5Gone == g_pc \in {"exit0", "exit1", "crashed", "vanished"}

Init ==
    /\ scenario \in Scenarios
    /\ to_tb = << >> /\ to_gem5 = << >> /\ readable = TRUE
    /\ tb_pc = "handshake" /\ sync_seen = FALSE /\ done = FALSE
    /\ exit_reason = "" /\ sync_cycle = -1
    /\ syncs_acked = 0 /\ cycles_run = 0 /\ cyc = 0
    /\ work = [x \in Txns |-> "none"]
    /\ asked_at = [x \in Txns |-> 0]
    /\ g_pc = "accept" /\ outbox = << >> /\ pending_write_data = << >>
    /\ quantum_msgs = << >> /\ completed = {} /\ g_cycle = 0 /\ syncs = 0
    /\ remote_bye = "" /\ failed = FALSE

-------------------------------------------------------------------------------
\* Mutants: a completion is taken for a stray one; a bye's reason is lost.
deliver_stray(x) == UNCHANGED work
reason_lost(m) == IF m.t = "bye" THEN "workload exit" ELSE "gem5 peer closed"

\* MemBroker.deliver: a completion of a pending access, or a stray one.
deliver(x) == work' = [work EXCEPT ![x] = IF @ = "mem" THEN "fetched" ELSE @]

reason(m) == IF m.t = "bye" THEN m.reason ELSE "gem5 peer closed"

(***************************************************************************)
(* The testbench.  _route, shared by the dispatcher and _await_message.    *)
(***************************************************************************)
route(m) ==
    /\ to_tb' = Tail(to_tb)
    /\ \/ /\ m.t = "flit_req"
          /\ work' = [work EXCEPT ![m.txn] = "accepted"]
          /\ UNCHANGED <<to_gem5, asked_at, sync_cycle, sync_seen, done, exit_reason>>
       \/ /\ m.t = "flit_dat"
          /\ work' = [work EXCEPT ![m.txn] = "data"]
          /\ UNCHANGED <<to_gem5, asked_at, sync_cycle, sync_seen, done, exit_reason>>
       \/ /\ m.t = "bypass"
          /\ work' = [work EXCEPT ![m.txn] = "mem"]
          /\ asked_at' = [asked_at EXCEPT ![m.txn] = syncs_acked]
          /\ to_gem5' = Append(to_gem5, About("mem_read", m.txn))
          /\ UNCHANGED <<sync_cycle, sync_seen, done, exit_reason>>
       \/ /\ m.t = "mem_data"
          /\ deliver(m.txn)
          /\ UNCHANGED <<to_gem5, asked_at, sync_cycle, sync_seen, done, exit_reason>>
       \/ /\ m.t = "sync"
          /\ sync_cycle' = m.cycle /\ sync_seen' = TRUE
          /\ UNCHANGED <<to_gem5, dutVars, done, exit_reason>>
       \/ /\ m.t \in {"bye", "peer_closed"}
          /\ done' = TRUE /\ sync_seen' = TRUE
          /\ exit_reason' = reason(m)
          /\ UNCHANGED <<to_gem5, dutVars, sync_cycle>>

Dispatch ==
    /\ tb_pc \notin {"handshake", "closed", "raised"}
    /\ ~done
    /\ to_tb # << >>
    /\ route(Head(to_tb))
    /\ UNCHANGED <<envVars, tb_pc, syncs_acked, cycles_run, cyc, g5Vars>>

(***************************************************************************)
(* handshake: waits for hello, routing anything else, and answers.         *)
(***************************************************************************)
Handshake ==
    /\ tb_pc = "handshake"
    /\ to_tb # << >>
    /\ \/ /\ Head(to_tb).t = "hello"
          /\ to_tb' = Tail(to_tb)
          /\ to_gem5' = Append(to_gem5, Msg("hello_ack"))
          /\ tb_pc' = "park"
          /\ UNCHANGED <<sync_cycle, sync_seen, done, exit_reason, dutVars>>
       \/ /\ Head(to_tb).t # "hello"
          /\ route(Head(to_tb))
          /\ UNCHANGED tb_pc
    /\ UNCHANGED <<envVars, syncs_acked, cycles_run, cyc, g5Vars>>

(***************************************************************************)
(* barrier_loop.  close() queues bye, then shuts the socket down 0.2 s     *)
(* later: what the writer has not flushed by then is lost.                 *)
(***************************************************************************)
Finish == tb_pc' = "closing" /\ to_gem5' = Append(to_gem5, Bye("tb"))

\* Mutant: sync_seen is not reset.
TakeSync_sticky == UNCHANGED sync_seen

TakeSync == sync_seen' = FALSE

Unpark ==
    /\ tb_pc = "park"
    /\ sync_seen \/ done
    /\ TakeSync
    /\ \/ done /\ Finish /\ UNCHANGED cyc
       \/ ~done /\ tb_pc' = "quantum" /\ cyc' = Quantum /\ UNCHANGED to_gem5
    /\ UNCHANGED <<envVars, to_tb, done, exit_reason, sync_cycle, syncs_acked,
                   cycles_run, dutVars, g5Vars>>

\* Mutant: one cycle too many.
ClockRuns_long == tb_pc = "quantum" /\ cyc >= 0

ClockRuns == tb_pc = "quantum" /\ cyc > 0

ClockCycle ==
    /\ ClockRuns
    /\ cyc' = cyc - 1
    /\ cycles_run' = cycles_run + 1
    /\ UNCHANGED <<envVars, chanVars, tb_pc, sync_seen, done, exit_reason,
                   sync_cycle, syncs_acked, dutVars, g5Vars>>

SendAck ==
    /\ tb_pc = "quantum" /\ cyc = 0
    /\ syncs_acked' = syncs_acked + 1
    /\ LET ack == AtCycle("ack", sync_cycle)
       IN  \/ /\ MaxSyncs # 0 /\ syncs_acked' >= MaxSyncs
              /\ exit_reason' = "budget" /\ done' = TRUE
              /\ tb_pc' = "closing"
              /\ to_gem5' = to_gem5 \o <<ack, Bye("tb")>>
           \/ /\ MaxSyncs = 0 \/ syncs_acked' < MaxSyncs
              /\ tb_pc' = "park"
              /\ to_gem5' = Append(to_gem5, ack)
              /\ UNCHANGED <<exit_reason, done>>
    /\ UNCHANGED <<envVars, to_tb, sync_seen, sync_cycle, cycles_run, cyc, dutVars,
                   g5Vars>>

LoseUnflushed == \E n \in 0 .. Len(to_gem5) : to_gem5' = SubSeq(to_gem5, 1, n)

Shutdown ==
    /\ tb_pc = "closing"
    /\ tb_pc' = "closed"
    /\ LoseUnflushed
    /\ UNCHANGED <<envVars, to_tb, sync_seen, done, exit_reason, sync_cycle,
                   syncs_acked, cycles_run, cyc, dutVars, g5Vars>>

\* An exception ends the test, the process and its threads.
Raise ==
    /\ tb_pc' = "raised"
    /\ LoseUnflushed
    /\ UNCHANGED <<envVars, to_tb, sync_seen, done, exit_reason, sync_cycle,
                   syncs_acked, cycles_run, cyc, dutVars, g5Vars>>

\* _await_message: no hello within 30 s.
HelloTimeout == tb_pc = "handshake" /\ to_tb = << >> /\ Raise

\* Parked for longer than PARK_TIMEOUT_NS of simulated time, which passes
\* at any rate compared with the wall clock gem5 runs by.
ParkTimeout == tb_pc = "park" /\ ~sync_seen /\ ~done /\ Raise

(***************************************************************************)
(* What the clocked side does with a transaction while a quantum runs: a   *)
(* write is granted, a memory access goes out through MemBroker, and once  *)
(* its reply is in, the transaction is answered, rightly or wrongly.       *)
(***************************************************************************)
DutStep(x) ==
    /\ ClockRuns
    /\ \/ /\ scenario[x] = "write" /\ work[x] = "accepted"
          /\ work' = [work EXCEPT ![x] = "granted"]
          /\ to_gem5' = Append(to_gem5, About("dbid", x))
          /\ UNCHANGED asked_at
       \/ /\ work[x] = "data" \/ (scenario[x] = "read" /\ work[x] = "accepted")
          /\ work' = [work EXCEPT ![x] = "mem"]
          /\ asked_at' = [asked_at EXCEPT ![x] = syncs_acked]
          /\ to_gem5' = Append(to_gem5, About("mem_read", x))
       \/ /\ work[x] = "fetched"
          /\ work' = [work EXCEPT ![x] = "answered"]
          /\ \E v \in {"good", "bad"} : to_gem5' = Append(to_gem5, About(v, x))
          /\ UNCHANGED asked_at
    /\ UNCHANGED <<envVars, to_tb, loopVars, g5Vars>>

-------------------------------------------------------------------------------
(***************************************************************************)
(* FakeGem5.  A send on a connection the testbench has closed raises; only *)
(* the sends of bye catch that.                                            *)
(***************************************************************************)
\* What the socket carries to a reader thread that still runs.
Sent(msgs) == to_tb' = IF readable THEN to_tb \o msgs ELSE to_tb

Crash == g_pc' = "crashed" /\ Sent(<<Msg("peer_closed")>>)

ExitWith(pc, msgs) == g_pc' = pc /\ Sent(Append(msgs, Msg("peer_closed")))

FailContract(msgs) ==
    failed' = TRUE /\ ExitWith("exit1", Append(msgs, Bye("contract")))

serve ==
    /\ g_pc = "accept"
    /\ \/ TbGone /\ Crash
       \/ ~TbGone /\ g_pc' = "hello" /\ Sent(<<Msg("hello")>>)
    /\ UNCHANGED <<envVars, to_gem5, tbVars, outbox, pending_write_data, quantum_msgs,
                   completed, g_cycle, syncs, remote_bye, failed>>

run_scenario ==
    [x \in Txns |-> About(IF scenario[x] = "bypass" THEN "bypass" ELSE "flit_req", x)]

HelloAck ==
    /\ g_pc = "hello" /\ to_gem5 # << >>
    /\ to_gem5' = Tail(to_gem5)
    /\ \/ /\ Head(to_gem5).t = "hello_ack"
          /\ outbox' = run_scenario
          /\ g_pc' = "send"
          /\ UNCHANGED to_tb
       \/ /\ Head(to_gem5).t = "bye"
          /\ ExitWith("exit1", << >>)
          /\ UNCHANGED outbox
    /\ UNCHANGED <<envVars, tbVars, pending_write_data, quantum_msgs, completed,
                   g_cycle, syncs, remote_bye, failed>>

WriteData == [i \in DOMAIN pending_write_data |->
                 About("flit_dat", pending_write_data[i])]

\* Mutants: sync goes out first; sync only goes out with something else.
Outgoing_sync_first == <<AtCycle("sync", g_cycle)>> \o outbox \o WriteData
Outgoing_idle_skip == outbox \o WriteData \o
    IF outbox = << >> THEN << >> ELSE <<AtCycle("sync", g_cycle)>>

Outgoing == outbox \o WriteData \o <<AtCycle("sync", g_cycle)>>

\* Write data for the DBIDResps of the last quantum, the outbox, and sync.
SendQuantum ==
    /\ g_pc = "send" /\ syncs < MaxBarriers
    /\ \/ TbGone /\ Crash
       \/ /\ ~TbGone
          /\ g_pc' = "wait_ack"
          /\ Sent(Outgoing)
    /\ outbox' = << >> /\ pending_write_data' = << >> /\ quantum_msgs' = << >>
    /\ UNCHANGED <<envVars, to_gem5, tbVars, completed, g_cycle, syncs, remote_bye,
                   failed>>

\* One message of the loop `while not self.acked`.
handle ==
    /\ g_pc = "wait_ack" /\ to_gem5 # << >>
    /\ to_gem5' = Tail(to_gem5)
    /\ LET m == Head(to_gem5)
       IN  \/ /\ m.t = "good"
              /\ completed' = completed \cup {m.txn}
              /\ UNCHANGED <<to_tb, g_pc, pending_write_data, quantum_msgs,
                             remote_bye, failed>>
           \/ /\ m.t = "bad"
              /\ FailContract(<< >>)
              /\ UNCHANGED <<pending_write_data, quantum_msgs, completed, remote_bye>>
           \/ /\ m.t = "dbid"
              /\ pending_write_data' = Append(pending_write_data, m.txn)
              /\ UNCHANGED <<to_tb, g_pc, quantum_msgs, completed, remote_bye, failed>>
           \/ /\ m.t = "mem_read"
              /\ quantum_msgs' = Append(quantum_msgs, About("mem_data", m.txn))
              /\ UNCHANGED <<to_tb, g_pc, pending_write_data, completed, remote_bye,
                             failed>>
           \/ /\ m.t = "ack"
              /\ g_pc' = "reply"
              /\ UNCHANGED <<to_tb, pending_write_data, quantum_msgs, completed,
                             remote_bye, failed>>
           \/ /\ m.t = "bye"
              /\ remote_bye' = m.reason
              /\ UNCHANGED <<to_tb, g_pc, pending_write_data, quantum_msgs, completed,
                             failed>>
    /\ UNCHANGED <<envVars, tbVars, outbox, g_cycle, syncs>>

\* The replies to this quantum's memory accesses, then the end-of-loop tests.
Reply ==
    /\ g_pc = "reply"
    /\ \/ /\ TbGone /\ quantum_msgs # << >>
          /\ Crash
          /\ UNCHANGED <<g_cycle, syncs, failed>>
       \/ /\ ~TbGone \/ quantum_msgs = << >>
          /\ g_cycle' = g_cycle + Quantum /\ syncs' = syncs + 1
          /\ \/ /\ remote_bye # ""
                /\ ExitWith(IF remote_bye = "peer closed" THEN "exit1" ELSE "exit0",
                            quantum_msgs)
                /\ UNCHANGED failed
             \/ /\ remote_bye = "" /\ completed # Txns
                /\ g_pc' = "send" /\ Sent(quantum_msgs)
                /\ UNCHANGED failed
             \/ /\ remote_bye = "" /\ completed = Txns
                /\ \/ /\ ExitWith("exit0", Append(quantum_msgs, Bye("workload exit")))
                      /\ UNCHANGED failed
                   \/ FailContract(quantum_msgs)   \* verify_writes: wrong data
    /\ UNCHANGED <<envVars, to_gem5, tbVars, outbox, pending_write_data,
                   quantum_msgs, completed, remote_bye>>

\* _recv_line at the end of the stream: peer_closed, again and again, or
\* ConnectionResetError when the testbench left data unread.
RecvClosed ==
    /\ TbGone /\ to_gem5 = << >>
    /\ \/ /\ g_pc = "hello" /\ ExitWith("exit1", << >>)
          /\ UNCHANGED remote_bye
       \/ /\ g_pc = "wait_ack" /\ remote_bye' = "peer closed"
          /\ UNCHANGED <<to_tb, g_pc>>
       \/ /\ g_pc \in {"hello", "wait_ack"} /\ (to_tb # << >> \/ ~readable)
          /\ Crash
          /\ UNCHANGED remote_bye
    /\ UNCHANGED <<envVars, to_gem5, tbVars, outbox, pending_write_data, quantum_msgs,
                   completed, g_cycle, syncs, failed>>

\* --max-time, checked between barriers; 30 s without a message.
G5Timeout ==
    /\ \/ g_pc = "send" /\ FailContract(<< >>)
       \/ g_pc = "wait_ack" /\ to_gem5 = << >> /\ ~TbGone /\ FailContract(<< >>)
       \/ /\ g_pc = "hello" /\ to_gem5 = << >> /\ ~TbGone
          /\ ExitWith("exit1", << >>) /\ UNCHANGED failed
    /\ UNCHANGED <<envVars, to_gem5, tbVars, outbox, pending_write_data, quantum_msgs,
                   completed, g_cycle, syncs, remote_bye>>

\* gem5 itself exits by closing the socket, without a bye.
Vanish ==
    /\ ~G5Gone
    /\ ExitWith("vanished", << >>)
    /\ UNCHANGED <<envVars, to_gem5, tbVars, outbox, pending_write_data, quantum_msgs,
                   completed, g_cycle, syncs, remote_bye, failed>>

\* gem5 sends a line that is no JSON: the reader thread dies of ValueError,
\* and whatever comes after that line stays in the socket.
Garble ==
    /\ g_pc # "accept" /\ ~G5Gone
    /\ readable' = FALSE
    /\ UNCHANGED <<scenario, chanVars, tbVars, g5Vars>>

Next ==
    \/ Dispatch \/ Handshake \/ Unpark \/ ClockCycle \/ SendAck \/ Shutdown
    \/ HelloTimeout \/ ParkTimeout
    \/ \E x \in Txns : DutStep(x)
    \/ serve \/ HelloAck \/ SendQuantum \/ handle \/ Reply \/ RecvClosed
    \/ G5Timeout \/ Vanish \/ Garble

Spec == Init /\ [][Next]_vars

(***************************************************************************)
(* Fairness: both processes keep running, a hello that never comes is      *)
(* timed out, and a peer that goes on sending quanta meets its deadline.   *)
(* The park timeout is counted on only once the reader thread is dead:     *)
(* simulated time passes as long as the testbench is parked.  No other     *)
(* timeout, no answer of the DUT and no exit of gem5 is assumed.           *)
(***************************************************************************)
G5Runs == serve \/ HelloAck \/ SendQuantum \/ handle \/ Reply \/ RecvClosed
Deadline == syncs = MaxBarriers /\ G5Timeout

Fairness ==
    /\ WF_vars(Dispatch)
    /\ WF_vars(Handshake \/ Unpark \/ ClockCycle \/ SendAck \/ Shutdown)
    /\ WF_vars(HelloTimeout)
    /\ WF_vars(G5Runs)
    /\ WF_vars(Deadline)
    /\ WF_vars(~readable /\ ParkTimeout)

FairSpec == Spec /\ Fairness
-------------------------------------------------------------------------------
\* Every variable has its type.
TypeOK ==
    /\ tb_pc \in {"handshake", "park", "quantum", "closing", "closed", "raised"}
    /\ g_pc \in {"accept", "hello", "send", "wait_ack", "reply",
                "exit0", "exit1", "crashed", "vanished"}
    /\ exit_reason \in {"", "budget", "contract", "workload exit", "gem5 peer closed"}
    /\ sync_cycle \in Int /\ cyc \in 0 .. Quantum
    /\ syncs_acked \in Nat /\ cycles_run \in Nat /\ g_cycle \in Nat /\ syncs \in Nat
    /\ sync_seen \in BOOLEAN /\ done \in BOOLEAN
    /\ failed \in BOOLEAN /\ readable \in BOOLEAN
    /\ work \in [Txns -> {"none", "accepted", "granted", "data", "mem", "fetched",
                         "answered"}]
    /\ completed \subseteq Txns

(***************************************************************************)
(* The two simulators advance 1:1.  gem5 runs only while the DUT stands at *)
(* gem5's own cycle, and the DUT is never behind gem5 nor more than one    *)
(* quantum ahead of it.                                                    *)
(***************************************************************************)
Lockstep ==
    /\ g_pc = "send" => cycles_run = g_cycle
    /\ cycles_run \in g_cycle .. g_cycle + Quantum

(***************************************************************************)
(* A quantum starts only when everything gem5 sent before its sync has     *)
(* been routed: what arrives while the clock runs can only end the run.    *)
(***************************************************************************)
QuantumSeesAll ==
    tb_pc = "quantum" =>
        \A i \in DOMAIN to_tb : to_tb[i].t \in {"bye", "peer_closed"}

(***************************************************************************)
(* A memory access is answered at the barrier that follows it: none that   *)
(* was sent before the last ack is still open when the clock runs again.   *)
(***************************************************************************)
MemAnsweredAtBarrier ==
    tb_pc = "quantum" =>
        \A x \in Txns : work[x] = "mem" => asked_at[x] = syncs_acked

(***************************************************************************)
(* The assertions that end C2xmCosimTest.run_phase, and what they are for: *)
(* the test does not pass when the peer has sent it a contract violation.  *)
(***************************************************************************)
TestPasses ==
    /\ tb_pc = "closed"
    /\ exit_reason = "gem5 peer closed" => syncs_acked >= MinAcks
    /\ exit_reason # "contract"

ContractReported ==
    TestPasses /\ failed => \E i \in DOMAIN to_tb : to_tb[i].t = "bye"

(***************************************************************************)
(* The testbench always ends, whatever the peer does: a garbled line that  *)
(* silences the reader thread leaves it to the park timeout.               *)
(***************************************************************************)
TbEnds == <>TbGone

(***************************************************************************)
(* After the testbench has said bye and closed the connection, fake_gem5   *)
(* ends with an exit code.                                                 *)
(***************************************************************************)
G5EndsAfterBye == tb_pc = "closed" ~> G5Gone
===============================================================================
