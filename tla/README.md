# A TLA+ model of the C2XM co-simulation testbench

The repository couples a gem5 CHI system model with the C2XM RTL (a CHI to AXI
bridge) through a cocotb/pyuvm testbench. Two simulators in two processes
advance in lockstep, one quantum of clock cycles at a time; in between, the
testbench plays the SN-F towards gem5, the CHI requester towards the DUT, and
the memory behind the DUT's AXI port towards gem5 again. This directory holds
TLA+ modules of the parts where order, identity and progress matter, the TLC
runs over small instances, and TLAPS proofs for all instances.

## 1. Inventory

| part | state it keeps | operations | talks to |
|---|---|---|---|
| `snf_agent.TxnIdMapper` | records by wire id, a FIFO of delayed releases, next read id | `alloc`, `release`, `on_cycle`, `find_write`, `pool_hazard_addrs` | called by `SnfAgent` only |
| `snf_agent.SnfAgent` | requests waiting for a slot, transactions to drive, retried requests | `handle_gem5_req`, `handle_gem5_dat`, `on_txrsp`, `on_txdat`, `on_cycle` | called by the runtime, the clock loop, the CHI responder; puts into the driver |
| `driver.ChiLinkDriver` / `ChiLinkBfm` | item FIFO, link credits, DBIDs by txn id, pin values | one coroutine each for driving, activation, RX credits, TX credits, observation | DUT pins |
| `chi_mon`, `cosim_responder` | counters | publish TX flits to the agent | DUT pins, agent |
| C2XM RTL (external) | transaction pool, RX adapters, credits | admit, reject, grant, receive data, complete | CHI link, AXI |
| `axi_ddr_proxy` | AW/W/AR/B/R queues | one coroutine each for AW, W, DDR write, B, AR, and DDR read with R | DUT AXI pins, `MemBroker` |
| `cosim_runtime.MemBroker` | pending accesses by id | `read`, `write`, `deliver` | transport |
| `cosim_runtime.CosimRuntime` | `sync_seen`, `done`, `exit_reason`, counters | `handshake`, `dispatcher`, `_route`, `barrier_loop`, `_finish` | transport, agent, broker, clock |
| `cosim_transport` | two queues, two threads, socket | `connect`, `send`, `poll`, `close` | runtime, socket |
| `fake_gem5.HnfChecker` | expected reads and writes with their phase | `expect_*`, `on_rsp`, `on_dat` | `FakeGem5` |
| `fake_gem5.FakeGem5` | outbox, write data to send, sync counter, DDR | `serve`, `run`, `handle` | socket |
| `c2xm_test.C2xmCosimTest` | - | starts the runtime and judges how it ended | runtime |
| `tb_peer_sim.TbPeerSim` | dbid, writes by txn id, callbacks by memory id, sync counter | `on_req`, `on_dat`, `mem_read`, `mem_write`, `_deliver_mem`, `run` | socket; stands in for the whole testbench |
| `chi_flit` | - | layouts, `pack_*`, `unpack_*` | driver, monitor, agent |
| `axi_mon.AxiMonitor` | beat counters of W and R | one coroutine per channel, publishes what it samples | DUT AXI pins |
| `gem5_adaptor`, `axi_slave_stub`, `chi_txn`, `cosim_protocol`, `c2xm_env`, `tb_config` | stimulus, placeholder, constructors, framing, wiring | | |

What is hard here. The agent keeps a *mirror* of a pool it cannot see, and
everything it does about slots is a guess made some cycles before the DUT acts
on it. Responses, credits, new requests, retries and clock cycles interleave
freely. Coroutines on one clock edge run in an order no test fixes. Two
processes wait for each other at every barrier, either may stop, fail or
vanish at any moment, and the end of a run is decided from flags that two
coroutines write. What makes each part correct:

* mapper: a wire id has one owner, from issue to the DUT's release; no id leaks;
* agent: each gem5 request is answered exactly once with the flits its kind
  calls for, and no request is ever forgotten in a queue;
* write data: each beat reaches the pool slot of its own write;
* driver: each flit is sampled once and in order, no credit is lost, a DBID
  belongs to the write it is stamped on, nothing hangs silently;
* AXI proxy: the DUT sees one memory, in which each burst acts as a whole and is
  answered once, in order on its channel;
* transport: what is sent arrives, whole, once and in order, however the socket
  cuts it and whenever the other side ends;
* codec: a field arrives with the value it was sent with and touches no other;
* peer simulator: it is an SN-F by the same contract as the agent, and requests
  and bypass accesses see one memory;
* barrier: the two clocks agree, a quantum sees all its messages, memory
  latency does not depend on the host, both processes end, and a contract
  violation is reported.

The hazards behind these, each at its line, are in `PROJECT.json`.

## 2. Modules

    HnfChecker <- TxnIdMapper <- SnfAgent <- C2xmDut <- SnfSystem <- SnfFaults <- MCSnfSystem
                                     SnfPort (abstract) <--'
    SnfSystem <- SnfSystemProofs; SnfFaults, SnfSystemProofs <- SnfPortProofs
    CosimBarrier <- MCCosimBarrier, CosimBarrierProofs
    ChiLinkDriver <- MCChiLinkDriver, ChiLinkDriverProofs
    AxiMemory (abstract) <-- AxiDdrProxy <- MCAxiDdrProxy, AxiDdrProxyProofs
    CosimStream (abstract) <-- CosimTransport <- MCCosimTransport, CosimTransportProofs
    SnfPort, AxiMemory <-- TbPeerSim (extends HnfChecker)
        <- MCTbPeerSim, TbPeerSimProofs
    FlitCodec <- MCFlitCodec, FlitCodecProofs

**HnfChecker** is `HnfChecker` of fake_gem5.py. `hnf[t]` is the checker's entry
for gem5 transaction `t`; `on_rsp` and `on_dat` accept a flit or set `failed`
(the `ContractError`). A write stays in `wait_comp` after its Comp, as in the
code; `completed` counts, so a duplicate shows. A CompData must carry a
`respErr` of 0: the agent's does, the peer simulator's has no such field. Node
ids, the `dbid` and `resp` of a CompData, beat geometry and data values are not
told apart: both senders fill them from the request. `SizesAssumption` says that
no request has size 0, as in `_read_req` and `_write_req`; the handlers that
take 0 for a whole line are modelled all the same.

**TxnIdMapper** keeps the class's three fields. `records` is a function with
`None` where the dict has no key; `attempt` stands for the dict's insertion
order, which decides what `find_write` returns. `due` in a release entry is
relative to the current cycle instead of absolute, so that the clock needs no
variable.

**SnfAgent** has one operator per handler. A handler is one step because Python
runs it without interruption. `_retry_pending` is a loop over requests; each
iteration is a step and `issuing` keeps everything else out until it ends.
`txn_queue` stands for `_txn_queue`, the driver's FIFO and the link in series:
that these are one FIFO is checked on ChiLinkDriver (`OnceInOrder`).

**C2xmDut** is external: the RTL is not in the repository. It says what
snf_agent.py, chi_txn.py and the repository's README say of it and leaves every
timing open. `SlotIndexed` chooses between the lowest-free allocator the
repository describes and the slot `txn_id[4:0]`, the fix its known issue 1
proposes. `MaxRetry` bounds the RetryAcks of one transaction, `MaxDrain` the
cycles between the last answer and the release of the entry.

**SnfSystem** composes them. A DUT answer and the handler it triggers are one
step: `CosimResponder` calls the agent in the edge the monitor samples the flit.

**SnfFaults** is SnfSystem in front of the DUT the repository describes. The
agent takes three things for granted without looking: that the DUT's allocator
takes the slot its own did (`SlotsAgree`), that the next read id has no record
(`ReadIdFree`), and that a write has one record (`OneRecord`). All three can
fail. The history variable `sound` remembers whether one has, and the properties
say what still holds: as long as `sound` is TRUE nothing is lost, gem5 raises no
ContractError and the path is SnfPort; a request that stays unanswered has met
one of the three, and so has a record that is never released.

**SnfPort** is the abstract specification: what an SN-F promises the home node,
without wire ids, slots, retries or clocks. `PortWhileSound` is the refinement of
it by the path, up to the first fault; a contract error or a second completion
maps to a stage the abstract specification cannot reach.

**CosimBarrier** is the other half of the system: handshake, `_route`,
dispatcher, barrier loop, shutdown, `MemBroker`, the two streams, and
fake_gem5's main loop with all its exits. A transaction is a read, a write or a
bypass access with one memory access each (`work[x]` is how far it has come);
what the DUT does with it inside a quantum is SnfSystem's subject. Answers are
good or bad by choice: whether the checker accepts them is again SnfSystem's
subject, what happens when it does not is this module's. `Shutdown` loses any
suffix of the stream that the writer thread has not flushed. `Vanish` is gem5's
own way to exit, closing the socket. `Garble` is a line that does not parse: the
reader thread dies, and from then on the testbench reads nothing, not even that
the peer has gone; only its park timeout is left.

**ChiLinkDriver** is driver.py at the level of clock edges. `todo` holds the
coroutines the falling edge has woken and that have not run yet; they run in
any order. The rising edge is the DUT, external. `Prompt` chooses the upstream:
`SnfAgent`, whose write data follow the DBIDResp, or `Gem5Adaptor`, which
forwards data as soon as the test pushes them.

**AxiDdrProxy** is axi_ddr_proxy.py with `MemBroker` and `FakeDdr`, at the same
level. A variable per queue of the code, and `b`, `bd`, `r` for the places of
the three coroutines that wait in more than one place. `aw_task` runs before
`w_task` at every edge, because `run_phase` starts it first and both wait for
nothing else; the others run in any order. Data is the number of the beat that
wrote a block of 32 bytes; narrower bursts are left out. The DUT is external: it
shows addresses and beats when it likes, no beat before its address.
With the scripts in `ReadyVaries` it raises and lowers bready and rready at any
rising edge, with the others it keeps them high. A broker's completion may come
at any moment, which includes the barriers at which CosimBarrier delivers it.
`axi_monitor` is axi_mon.py: its five coroutines in one step, first at the
falling edge, because what the BFM writes there reaches the pins only after all
coroutines of the edge have run.

**AxiMemory** is the abstract memory: a burst is issued, performed at one
moment, answered. `ImplementsMemory` is AxiDdrProxy's refinement of it; the
moment is the one at which gem5 serves the access.

**CosimTransport** is cosim_transport.py with the framing of cosim_protocol.py.
A stream is a sequence of tokens, two per line (the message and its end), and
`recv` takes any prefix, so a chunk may end inside a line or hold several. The
reader and the writer thread are program counters that follow the code from test
to test: between the test of `_stop` and the use of `self.sock`, `close` may have
set it to None, and the thread dies of an exception it does not catch. The peer
serves late or never, writes good, empty and malformed lines, and ends at any
moment, perhaps in mid-line.

**CosimStream** is the abstract transport: two FIFO streams, an end that is
reported once and last, and the ways in which a suffix may be lost. It is what
CosimBarrier takes its streams to be; `ImplementsStreams` is the refinement.

**TbPeerSim** is tb_peer_sim.py with `--mem gem5`. Its single thread handles one
message at a time; `pending_mem` holds, for each memory id, which closure waits
and what it captured. gem5 is external: HnfChecker's contract, bypass
packets and a memory that serves accesses in any order. The peer's CompData has
no `respErr`, and `AbsentRespErr` is what gem5 may make of that: `{0}` reads the
field as 0, as `dat_from_json` of cosim_transport.py does, `{}` finds no value and
refuses the beat, as fake_gem5's checker does (`Gem5Refuses`: it says bye and is
gone). `ImplementsPortButRespErr` shows the peer to be an SN-F by the same SnfPort
as SnfSystem, but for that refusal; `ImplementsMemory` shows that
requests and bypass packets see one AxiMemory.

**FlitCodec** is the wire format. A number is the set of the positions of its
one bits, so shift, mask and or are set operations and TLC handles words of 426
bits. The layouts are the code's tables, field by field. `drive` packs as
driver.py does, `monitor` unpacks as chi_mon.py does; on the TX channels the DUT
is taken to pack as `pack_txrsp` and `pack_txdat`. `SeenAsSent` is about numbers
and data. The lane vectors (`byte_enable`, `chunk_valid`), which have an entry per
lane in a flit and a bit per lane on the wire, do not arrive as they are sent;
`LanesEnabled` says that what the agent sends enables every lane.

The `MC*` modules define the small request sets, scenarios and scripts; the
`.cfg` files give the constants their values. Operators marked `Mutant` are the
wrong variants of a definition that the properties are tested against; nothing
else refers to them.

## 3. Runs

| run | result | what it shows |
|---|---|---|
| `snf` | pass | Three transactions, two slots, the lowest-free DUT of known issue 1, a RetryAck possible for every request, read ids that wrap onto live records. The slot discipline, wake-ups, the bypass decision and one record per unrejected write hold throughout; until one of the three faults happens nothing is lost and each step is one of SnfPort; a request that is never answered or a record never released has met a fault. |
| `snf_stale_retry` | violation of `WriteDataConserved` | With the slot-indexed DUT that known issue 1 asks for: a retried write's old record is stuck behind an earlier release; `find_write` returns it. |
| `barrier` | pass | Lockstep, message order and memory replies at barriers, the verdict, and that the testbench ends, whatever fails, vanishes or cannot be parsed. |
| `barrier_masked` | violation of `ContractReported` | With `C2XM_COSIM_MAX_SYNCS`, the budget's reason overwrites a contract violation routed in the last quantum; the test passes. |
| `barrier_hang` | violation of `G5EndsAfterBye` | After a budget exit, fake_gem5 reads the closed stream for ever. |
| `driver` | pass | Credits conserved, each flit sampled once and in order, DBIDs current, no silent hang, under the SNF agent. |
| `driver_stale_dbid` | violation of `OwnDbid` | Fed by the gem5 adaptor, a second write under a txn id uses the first one's DBID. |
| `axi` | pass | Overlapping bursts, ready always high: one memory, one answer per burst, in order. Smaller scripts with bready and rready moving freely: no response out of order, and the AXI monitor reports each response once and each beat under its number. |
| `axi_ready` | violation of `HeldUntilTaken` | A response is withdrawn before a DUT that has just raised ready has taken it. |
| `transport` | pass | Threads, queues and socket implement the two streams whatever recv cuts, whatever the peer does and wherever `close` falls; what is sent is received. |
| `peer` | pass | In front of a gem5 that reads the missing `respErr` as 0 or refuses the beat, tb_peer_sim is a correct SN-F in all but that field, with replies in any order and dbids that wrap; there is one memory; every access is answered unless a side ends; after a refusal the peer ends. |
| `codec` | pass | Every single bit of every field of every channel, and all of them together, arrives where it was sent, numbers cut to their width and data byte for byte; the agent's beat enables all lanes; reserved bits stay 0. |

The violations are recorded under `findings` with the sentence of the
repository each one contradicts.

Where a violation is known, the passing run beside it says what holds in spite of
it: `snf` beside `snf_stale_retry`, `axi` beside `axi_ready`, `barrier` and
`driver`, without the budget and with the agent as upstream, beside theirs.

Seen while modelling, without a violation run of its own:

* known issue 1 of the repository's README is `SlotsAgree` failing, in run `snf`:
  the agent frees a slot later than the DUT, the next write has one slot here and
  another there, and its data goes to a slot that is not its own;
* tb_peer_sim sends CompData without `respErr`, which `HnfChecker.on_dat`
  (fake_gem5.py:188-193) refuses: the first beat of a read may end the run, and
  the refinement `ImplementsPortButRespErr` has a case for it (`RefusesRespErr`);
* `pack_rxdat` puts 8 bits of each entry of `byte_enable` into a field with a bit
  per lane, so only the first 4 entries reach the wire and the monitor publishes
  4 where 32 were sent. Entries of 0xFF, the agent's, enable every lane all the
  same (`LanesEnabled`); entries of 0x01 would enable every eighth;
* axi_mon.py:12-14 says a reported beat "completes on the next rising edge". A W
  beat does; a B or R beat is driven at a falling edge, taken at the next rising
  edge and reported at the falling edge after it. What the monitor's users rely on,
  each beat once and under its number, holds (`MonitorNumbers`,
  `MonitorMissesNone`);
* `LocalDdr` overlays a page that is all zero except where it was written, so
  after one write the rest of the page no longer has "the same fill as fake_gem5";
* the docstring of snf_agent.py says AllowRetry is 0 and the code sends 1.

*Bounds.* Two pool slots and three transactions make the pool fill up, a
request wait, a slot be reused and a retried request meet a newer one; a fourth
transaction adds no new kind of conflict for two slots. Requests cover full
line and half line writes, a dependent read, an independent read and two kinds
of refused request; `Scenarios` lists the six mixes, each in one order, since
gem5 sends the transactions in any. `ReadIdLimit` is 4, so there are two read ids
and the third read takes the id of the first while that may still be unanswered.
The release margin (8 in the code) is 3 and the drain at most 2. Its relation to
the drain matters for `SlotHeld`, which needs the margin to be no less; its length
matters too, since a replayed write meets its stale record only if an earlier
release stays in the FIFO long enough, and 3 is the least margin with which that
happens. `snf_stale_retry` has the code's 8, two writes and three slots. The barrier
run has a quantum of 2 cycles and a deadline after at most 5 barriers, enough for a
write to pass through all its phases and
for every timeout to fire at every stage. The driver has an adapter of 2 and
three requests, so credits run out, and timeouts of 2 edges. The AXI runs have
two scripts over two blocks for a steady ready: two overlapping writes of two and
one beats with a read of both blocks, and a write with a masked beat among three
reads; addresses run ahead of data and reads of each other, and accesses meet in
both orders. For a ready that moves there are two writes, and two reads of two and
one beats, so a response may be missed or repeated while another one waits.
The transport run has two lines of the peer, which fit into one chunk or are cut
into four, and one message besides the bye; `connect` may fail once and then
give up. The peer runs have two requests and a bypass packet on the same line, so
that three accesses are under way and their replies come in any order, and
`MaxDbid` is 1, so that every second dbid wraps. The codec run tries each bit by
itself and one bit beyond each field; since packing works bit by bit this is all
there is to try, and `FlitsArrive` proves it for every flit.

*Fairness.* SnfSystem: Python code that runs finishes; the driver drains its
queue; the clock ticks; the DUT answers what it holds; gem5 sends the data of a
granted write (fake_gem5 does so in the next quantum). gem5 need not send any
request. SnfFaults has the same fairness. CosimBarrier: both processes keep taking
steps; the 30 s hello timeout
and fake_gem5's `--max-time` come eventually. The park timeout, the DUT's
answers and gem5's disappearance are possible and not assumed, so `TbEnds`
does not depend on them, with one exception: once the reader thread has died of a
bad line the park timeout is assumed, since simulated time goes on and nothing
else can end the run. ChiLinkDriver: the clock runs, a woken coroutine
resumes, the test releases reset; the DUT owes nothing. AxiDdrProxy: the clock
runs, a woken coroutine resumes, gem5 answers, and the DUT ends up showing each
burst it has (strong fairness, since it may leave the pins idle at any edge).
CosimTransport: the threads run, the runtime polls (its dispatcher does so every
cycle), the peer reads, `connect` goes on trying and `close`, once begun,
goes on; nobody must send, close or exit. TbPeerSim: both processes run, the
memory serves what it was asked, the home node sends data it was granted; no
request, sync, timeout or exit is assumed. Taking a message and refusing it are
one obligation, since gem5 does one or the other. The codec run checks no liveness
and assumes none.

*Deadlock* is checked in the SN-F and AXI runs. The other runs
switch it off because there the system ends: both processes are gone, the
connection is closed and drained, an exception has failed the test, or (codec)
the flit has arrived.

## 4. Proofs

Every theorem is about the specification the runs check, for every value of the
constants that satisfies the `ASSUME`s of the module. TLC checked each inductive
invariant on the run's instance before it was proved.

`SnfSystemProofs.TypeCorrect`: `Spec => []TypeOK`. It needs more than `TypeOK`:
the invariant says also that the DUT's entries and the flits in the queue are
tied to requests, and that counters stay in range. One lemma per handler, one
per DUT step.

`SnfSystemProofs.SlotsHeld`: `Spec => []SlotHeld`, a pool slot belongs to one
transaction from `_issue_req` until the DUT has handed the entry back. This
holds for every pool size, every number of transactions, with retries and with
both allocators. The invariant that carries it (`SlotInv`) ties four things
together for each wire id: what the queue carries for it, what the DUT holds,
what the record says, and how much of the release margin is left. Its core is
that a draining entry has at most as many cycles left as its release entry: this
is where `MaxDrain <= ReleaseMargin` is used, and `DutAssumption` is the place
where the "conservative" margin of snf_agent.py:88-91 is stated. `BeatsAgree`
says that the agent and the DUT count the same data beats, without which the
agent could release a read before the DUT has sent its last beat.

The rest of `SnfSystemProofs` is about the agent's two decisions. `NoLostWakeUp`:
`Spec => []StalledOnlyWhenFull`. The invariant `WakeInv` is that outside
`_retry_pending` the head of the queue cannot be consumed; it rests on `SlotInv`
because the answers' handlers rewrite records and must not change whose they
are. `BypassesAgree`: `Spec => BypassReadsBypass`, an action property. The agent
decides that a read bypasses when it issues it, the DUT when it is delivered,
and requests that will hold the line may be on the link in between.
`BypassInv` says that for every such read neither the DUT's pool nor a request
ahead of it in the queue has its line; it is inductive because whatever the DUT
holds in a slot the mirror holds too (`SlotHeld`).

`SnfPortProofs` is about what the agent promises gem5, in front of either DUT,
with any number of retries, any margins and any range of read ids.

* `RequestsInOnePlace`: `Spec /\ [](ReadIdFree /\ ~failed) => []OnePlace`.
  `Copies` is a sum of four cardinalities; each handler takes one from one of them
  and adds one to another (`HitsAppend`, `HitsTail`, `DutCount`). It needs
  `SlotInv` for all wire ids, not only for the pool: the parts of that invariant
  take the set of ids as parameter, and `SlotStepAll` is where `ReadIdFree` is used.
* `NothingLost`: `FSpec => []NothingLostWhileSound`, without a hypothesis: what the
  agent takes for granted is in the history variable `sound` and not assumed of
  the behaviour. The invariant is `SoundInv`: while `sound` holds, so does
  `PortInv`, which says for every place a request can be in what gem5's checker
  has seen of it: nothing while it waits (`AskedInv`, `QueueInv`), the beats the
  DUT has sent or the DBID of its slot once it is in the DUT (`EntryInv`), and for
  a write gem5 was granted, which entry holds it (`GrantedInv`) and which beats
  are on their way or there (`DataOk`). Every flit the agent forwards is then one
  the checker accepts. `SlotsAgree` is used where the DUT admits a request, the
  other two where the agent takes a read id and looks up a write.
* `PortImplemented`: `FSpec => PortWhileSound`. Steps that touch neither gem5's
  entries nor `failed` stutter; a request, its data and each answer is the step of
  SnfPort of that name; a step after which `sound` is FALSE is free.
* `RecordsUnlessRetried`: `Spec => []RecordedOnceUnlessRetried`. One of the three
  faults, the second record of a write, needs a RetryAck. `IssuedOnce` is the
  invariant: a transaction that was not rejected is in the agent's queue once and
  has no record, or has left it for good and has one record at most; it holds
  although other transactions are rejected and read ids wrap.

TLC reaches all three faults in run `snf`. `OneRecord` fails also with the code's
margin and ids and a DUT that keeps to the agent's slots (`snf_stale_retry`); a
read id is taken twice only with more reads under way than ids (4064 in the code).
The proofs use one
assumption about the requests, that none has size 0 (`SizesAssumption`).

The proof of the refinement found a flaw of the model: `StageOf` was a `CASE`
with overlapping arms, which TLC reads from the top and TLA+ does not. It and the
two other mappings of that form are now written with `IF`; no run changes.

`FlitCodecProofs.FlitsArrive`: `Spec => []SeenAsSent`, for every set of flits
whose numbers have any width and whose byte vectors have at most a beat. The
heart is `RoundTrip`: in a layout whose fields are disjoint and inside the word,
unpacking what was packed gives each value cut to its field. Four lemmas show
that the four tables are such layouts, `BytesRoundTrip` that a byte vector
survives its number, and one lemma per channel combines them with that channel's
conversions. The inductive invariant `CodecInv` says besides that the pins carry
the packed flit of this channel. `ReservedBitsZero` (`Spec => []TypeOK`) follows
from it, since a bit that is set lies in the word and in one of its fields, and so
does `AllLanesEnabled` (`Spec => []LanesEnabled`).

`ChiLinkDriverProofs`: `DriverTypes`, `CreditsKept` (`CreditsConserved`),
`SampledOnceInOrder` (the action property `OnceInOrder`) and `DataCarryOwnDbid`
(`~Prompt => (Spec => []OwnDbid)`). `Position` ties the driver's place to the
pins and to `todo`; `OrderInv` numbers what was sampled, what is in hand and
what waits, which must be consecutive; `DbidInv` follows a DBID from the grant
over TXRSP and `dbid_by_txn` to the data. `~Prompt` is the SNF agent as upstream;
`driver_stale_dbid` shows that the theorem fails without it. `ScriptAssumption`
says what upstream's script is: data follow the write they belong to, and
between two writes under a wire id come the first one's data.

`CosimBarrierProofs`: `BarrierTypes`, `LockstepKept`, `QuantaSeeAll`,
`MemAnswered` and `ViolationReported`. The barrier is a token (a sync on its way,
a sync routed, a running quantum, an ack on its way); `Token` says that there is
at most one and what the two cycle counts are wherever it is, `Streams` what may
stand behind a sync, an ack and an end, `MemOf` follows a memory access around
with it, `ContractInv` says that a violation is the first thing that ends the
run. The last needs `MaxSyncs = 0`; `barrier_masked` shows why.

`AxiDdrProxyProofs`: `ProxyTypes`, `BeatsNumbered` (`Spec => []MonitorNumbers`,
however ready moves) and `ResponsesInOrder` (`Spec => []InOrder`). `InOrder` and
`ImplementsMemory` speak of a DUT that keeps ready high (`KeepsReady`), which they
must, since with one that does not a response is lost (`axi_ready`). The
order is proved with *stages*: a write burst passes
from the DUT's script over the pins, `aw_queue`, `pending_b`, the broker,
`b_ready` and the B pins to the DUT, a read likewise, and the bursts of a stage
are before those of every later one (`Ordered(WriteStages)`,
`Ordered(ReadStages)`). Each step moves the first burst of a stage on
(`OrderedMove`) or leaves the stages alone. `Taken(r_cur)` ties the beats the DUT
has to r_task's beat. `BeatsNumbered` does not compare the monitor with the DUT,
which may miss or repeat a response, but with the proxy: both sample ready at the
same edge, so the monitor's counters agree with the position of the beat on the
pins in its burst.
`BurstAssumption` (a burst has a beat, and its blocks exist) is AXI's own.

`MemoryImplemented` (`Spec => ImplementsMemory`) builds on the
stages: DUT, proxy, broker and DDR together are AxiMemory. `MemoryInv` adds what
order alone does not say. A burst at the broker is in one place, its message, its
completion or its coroutine (`BrokerInv`); the address at the head of `aw_queue`
is that of the write whose beats w_task collects (`CollectInv`, with `Coming` the
next beat it will see), so a write reaches gem5 with all its own beats
(`WholeInv`, `CollectedInv`) although the two channels are sampled by different
coroutines; the last beats the DUT took are the first ones of the read on R
(`DataInv`); what gem5 has served and nobody carries any more has been answered
(`FinishedInv`). It follows that `BurstStage` and `Found`, which say where a
burst is and what it found, depend on nothing but what the coroutines hold
(`Settled`). A burst then moves only forwards (`MemEdge`); the one step that
moves it from issued to performed is gem5's access, and that is AxiMemory's step
on the same blocks (`Gem5Performs`). The mapping picks a burst's beats out of
`rgot` by their positions and not with `SelectSeq`, which is recursive and could
not be reasoned about.

`TbPeerSimProofs`: `PeerTypes`, `GemFailsOverRespErr` (a ContractError means a
gem5 that wants `respErr`), `PeerImplementsPort`
(`Spec => ImplementsPortButRespErr`) and `PeerImplementsMemory`
(`Spec => ImplementsMemory`), whatever gem5 makes of a `respErr` that is not
there. Unlike the agent,
the software peer has no ids that could be ambiguous, since a write keeps its dbid
by gem5's transaction and memory ids are never reused; what it does lack is the
`respErr`, so it implements SnfPort only until gem5 refuses a beat over it, and
the theorem says that this beat is right in all else. The
inductive invariant is `PeerSimInv \/ Refused`. `PeerSimInv` follows an access from
its request in `to_peer` over the callback in `pending_mem`, the access in the
memory's hands and its reply to the answer in `to_gem5`; `Refused` says that gem5
has gone and nothing more can be answered. `EntryInv` and `PktInv` say what each place means for what gem5's
checker, `performed` and `found` say of the access, `PeerApart`, `MemApart` and
`Gem5Apart` that it is in one place, and `BeatsInOrder` that the beats of a read
which are still on their way are numbered from the one gem5 expects. From it
every answer is one `HnfChecker` accepts, or would but for the `respErr`, which
gives the steps of SnfPort. For
AxiMemory the moment an access takes effect is `Gem5Performs`; `MemoryEdge` shows
that all other steps move an access at most from idle to issued or from performed
to answered.

`CosimTransportProofs`: `TransportTypes` and `StreamsImplemented` (`Spec =>
ImplementsStreams`), without a hypothesis, so CosimBarrier may take its streams
from CosimStream for any number of messages. The inductive invariant
`TransportInv` says how far `close` has come and where the threads can be
meanwhile (`ConnectionInv`, `ThreadInv`), and what the bytes are although `recv`
cuts them anywhere: what the peer sent is messages and bad lines, each with its
Newline, but for a line cut off by the peer's end, and a bad line is still on its
way or has killed the reader (`UpInv`); what the testbench sent is whole lines of
one message once the rest that sendall is busy with is counted (`DownInv`). So a
line the reader takes is one message, and what `recv` or `sendall` moves changes
nothing of the stream as a whole (`Received`, `SentToken`). The mapping lists the
messages in the bytes by their positions (`Messages`, `At`). That each rank up to
the number of positions belongs to one position is a matter of counting
(`NthFacts`); from it follow what a line more (`OneMessage`, `NoMessage`) and a
line less (`MessageGone`, `EmptyLineGone`) do to the list, without induction over
the bytes. Steps of the reader change neither stream; the writer, `close` and the
end of the peer lose exactly a suffix of what the testbench sent.

Only model-checked:

* liveness (`AnsweredWhileSound`, `ReleasedWhileSound`, `TbEnds`, `NeverHangs`,
  `EveryBurstAnswered`, `EveryAccessAnswered`, `PeerEndsAfterRefusal`, `Drains`):
  out of the prover's reach;
* `MonitorMissesNone` and `NeverReordered` of AxiDdrProxy with a ready that moves.

## 5. Not modelled

The broker's timeouts, AXI bursts of less than 32 bytes per beat, and a DUT that
shows write data before its address (the proxy drops it with a warning);
`tb_peer_sim --mem local`, where a handler is answered before it returns; the
JSON helpers of cosim_transport.py (lines 141-252), which nothing calls; opcode
names and the flit and transaction constructors, which fill in defaults; the standalone tests with
`gem5_adaptor` (a fixed list of transactions) and `axi_slave_stub` (a placeholder
without memory); `c2xm_env`, `tb_config`, the top level and the scripts, which
are wiring; the RTL beyond what the testbench relies on; latency statistics and
logs. SnfSystem carries no CHI data values, so that beats arrive in a wrong order
is not seen there.

