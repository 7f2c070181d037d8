# gran in TLA+

gran (`src/`) is a toy full-system simulator: processors, caches, memories and
the networks between them, advanced in simulated time by a scheduler.  This
directory holds a formal model of it: TLA+ modules of its components, TLC
configurations that check them on small systems, and proofs that hold for
every system.

Contents: [1 the system](#1-the-system) · [2 the modules](#2-the-modules) ·
[3 the runs](#3-the-runs) · [4 bounds](#4-bounds) · [5 fairness](#5-fairness) ·
[6 proofs](#6-proofs) · [7 what the code does that its comments do not
say](#7-observations) · [8 what is not modelled](#8-what-is-not-modelled) ·
[9 plan](#9-plan)

## 1 The system

gran is one thread.  A *root* owns *clock domains*, a domain owns
*components*, and a component is a table of three callbacks
(`include/gran/component.h`): `receive` (a packet is handed over), `clock` (one
cycle passes) and `destroy`.  `root_run` picks the domain with the smallest
local time, calls `clock` of each of its components in the order they were
added, and moves the domain's time forward by its period.

Components talk only by `SEND`, a synchronous call of the receiver's `receive`
that answers `OK` (the packet is the receiver's now), `EBUSY` (try again) or an
error.  A clock callback runs to its end, with all the `receive` callbacks it
causes in other components, before anything else happens.  This is the grain of
the models: **one callback is one action**, and the actions of different
components interleave.  They interleave freely in the models, because
components may be in domains of any period and be added in any order; each
order the scheduler produces is one of them.

What is hard about such a system is not data races, there are none, but the
protocols of small registers and refusals: every component has a place or two
for packets, every neighbour may refuse, everything is tried again at a later
clock, and whether packets are lost, doubled, overtaken or stuck depends on the
order of clocks that no test varies.

| component | source | state | operations | what makes it correct |
|---|---|---|---|---|
| scheduler | `root.c`, `clock_domain.c` | domains with local time and last report | add component, add domain, run, tick | ticks in the order of time, no domain ahead or starved, a report ends the run with the right result |
| registers | `common.c` | one packet or none | `place_reg`, `propagate` | the oldest packet that goes the output's way is moved, none is overwritten |
| mesh nodes | `mesh/node1d.c`, `node2d.c`, `node3d.c` | input and output register per port, timestamp counter | receive by a port, clock | a mesh delivers packets once, in order per flow, and never locks up |
| ideal NoC | `ideal_noc.c` | input and output register per element, counter | receive, clock | the same, and oldest first |
| fat butterfly | `bfly/fat_bfly.c` | a binary tree of nodes, two banks of registers and outputs each | receive, clock | the same; sorting by address bits is complete at the root |
| bus | `bus/simple_bus.c` | one packet with its receiver; the region table | add region, receive, clock | each transfer has one answer, which gets to who asked; regions keep their owners |
| memory | `mem/simple_mem.c` | one answer | receive, clock | a request is served once |
| uart | `uart/simple_uart.c` | one answer | receive, clock | sizes other than a byte are refused |
| coalescing cache | `cache/simt_cache.c` | a request per lane, the round-robin slot | receive from a lane, receive from the memory, clock | lanes see one memory; no lane is forgotten |
| processor | `cpu/riscv/simple_riscv64.c` | pc, registers, fetch, data transfer, answer to a controller, asleep or not | receive (instruction, data, control page), clock | instructions one after the other whatever is refused, delayed or interrupted |
| core complex | `cpu/riscv/simt_riscv64.c` | a register per lane, and whether what is in it still has to be sent; twice, for data and for instructions | receive from a lane, receive from the memory, clock | answers find the request they belong to; lanes see one memory; no lane is forgotten |
| region allocator | `mem/ideal_alloc.c` | a search tree of regions per address space, one request, one refused answer | new, rm, query, clock | a request takes effect once, and is answered as from a set of regions |
| packets | `include/gran/packet.h` | flags, addresses, mask, 64 bytes, timestamp | constructors, address and size from masks, copies under a mask | an access gets exactly its own bytes |
| containers | `conts` (a submodule that is not part of the files) | vectors, a tree | | external |
| test systems | `tests/` | | wiring, traffic generators | |

The components meet in the test systems: `simple_uart` puts a processor, a
memory and a uart on one bus; `simple_mesh{1,2,3}d` connect traffic generators
by meshes; `simple_ideal_noc` and `simple_fat_bfly` do so by the NoC and the
butterfly; `simple_ideal_alloc` has a client for the allocator; `simt_riscv64`
puts core complexes on a mesh with memories, and `simt_cache` does so with
processors that are the lanes of two coalescing caches, for instructions and
data.  `PROJECT.json` lists the behaviours that are hard to test,
each at its line and with the properties that cover it.

## 2 The modules

```
Clock ─────────── ClockProofs                 the scheduler
Registers ─┬── Mesh ─┬── MeshProofs           a mesh, with memories or without
           │         └── Mesh1D, Mesh2D, Mesh3D ┐
           │                └── MeshTopologyProofs
           ├── IdealNoc ─┬── NetworkProofs      ├── implement Network
           └── FatBfly ──┘                      ┘
SimpleBus ─┬── BusSystem ─┬── BusProofs       bus, memories, uarts, transfers and
BusRegions ┘              │                   control pages of processors; address map
IdealAlloc ───────────────┘                   region allocator,
   └── implements RegionTable                 with the proofs about the bus
SimtCache ── SimtCacheProofs ┬ implement      coalescing cache; core complex,
SimtCore  ── SimtCoreProofs  ┘ LaneMemory     each with node and memory
Packets ── Instructions ── Riscv64            a processor,
                            │ └ implements Sequential
                         Riscv64Proofs
```

An `MC` module gives a module's CONSTANTS values for TLC, the `.cfg` of the same
name the rest.  Definitions have the names of the C functions and fields they
stand for.  A definition called a *faulty variant* is not part of the model: it
is a plausible bug in the definition that follows it, and shows that the
property it names can fail.

**Clock.**  `domains`, `comps`, `time`, `ret` are the fields of `struct root`
and `struct clock_domain`.  `Tick` is one round of the loop in `root_run`: the
scan of `most_delayed_domain` with its tie-break, `clock_domain_tick` on every
component, `advance_clock` with the 64-bit sum and the carry of seconds, and the
decision to go on.  A component is the stat its callback returns.  `now` and
`reported` are history variables.

**Registers, Mesh, Mesh1D, Mesh2D, Mesh3D.**  `Registers` has `place_reg` and
`propagate`.  `Mesh` is a whole mesh of nodes, written once, with the topology
and the routing as parameters, because the three node components share
everything else: `node_clock` is a node's callback (outputs that the neighbours
accept are emptied, the oldest local input and the inputs from other nodes
compete for the free outputs, the timestamp counts), and fills the neighbours'
input registers as `receive` does.  The three instances give the directions, the
order in which `propagate` sees the inputs, and dimension-ordered routing;
`Mesh1D` also keeps the one difference in the code, the new timestamp for
packets in transit.

Some endpoints may be memories, as in `simple_mesh1d` and `simt_cache` (`Mem`): a
memory keeps a request until its node takes the answer, and refuses other
requests until then.

**IdealNoc, FatBfly.**  The same endpoints around other networks.  `FatBfly`
models the recursion of the tree as a recursive function over its nodes, in the
order of the C calls (`clock_layers`, `nth`), so that one clock is one action
with all the moves in it.

**Network** is what a network promises: a set of packets in flight, delivered
once each, to their endpoint, in order per flow; an endpoint may answer what it
has received.  Each of the five networks implements it, with its registers'
contents as the set in flight; that is proved of all of them, for every size (of
the ideal NoC, between elements that are never busy: see 7).

**SimpleBus.**  The bus register with the component it is for (`bus`, `send`), a
register per component for the response it has to send (`resp`), and a data
transfer per processor (`ldst`, `pkt`).  A transfer is for a component: a memory, a
uart, or the control page of a processor, which is put to sleep or woken by it
(`sleep`) and answers it.  **BusRegions** is the other half of the bus: the
region table on an address space that wraps as 64 bits do.  **BusSystem** is the
two composed: `simple_bus_add` builds the table, and then every transfer names
an address and `find_bus_region` says whose it is.

**SimtCache.**  `req` and `queued` are the lanes' registers (`reg.busy`,
`reg.queued`), `rr` the slot.  `simt_cache_clock` has the three outcomes of its
loop for each lane, rides, goes out or stays queued; the response handler shares
reads by `simt_cache_broadcast`.  `port`, `path`, `back` and `mem` are the node,
the network and a memory per block behind the cache, as `Network` and
`SimpleBus` say they behave.  **LaneMemory** is the memory lanes would like to
see; `seen` is the history variable that maps to its contents.

**SimtCore.**  The registers and the interface of the core complex, and of its
lanes the request they wait with.  One action is the whole clock: it flushes what
is queued, then clocks the lanes, which may all `SEND` in the same cycle;
`stored`, `rides` and `goesOut` are the outcomes of their calls in the order of
the lanes.  A block has bytes here, because one packet answers several lanes,
each with a mask of its own.  Data and instruction interface are the same code on
separate registers, and this is one of them.

**IdealAlloc.**  The tree is that of a library that is not in the repository.  It
is modelled by what any search tree does with `region_cmp`: a key goes left or
right of the nodes it meets, and `regions_find` is every answer that some shape
of the tree gives.  While the regions are disjoint that is one answer, and
**RegionTable**, a set of regions with requests that take effect at one moment, is
implemented.

**Packets, Instructions.**  The algorithms of `packet.h` (alignment, masks, the
address and size told back from them, little-endian numbers, copies under a
mask) and of the processor (what each opcode computes, where it leaves `pc`,
what it loads and stores) as operators over numbers.  The widths are parameters:
`Line` bytes in a packet, `ByteBits` bits in a byte, eight bytes in a word.

**Riscv64.**  `ils`, `dls`, `cls` are the three state machines of the processor
(`INST_*`, `LDST_*`, `CTRL_*`).  The clock callback is one action with a
disjunct per path through it; `receive` is three.  A `port` is the register of
whatever component is behind `imem` or `dmem`, that control requests come in by
(`inbox`) or that their answers go to (`ctrl`); other users occupy it as they like.
Ports may be one register: on a bus `dmem`, `inbox` and `ctrl` are, and a request
that the processor refuses is in the way of its own answer.  Behind `dmem` is a memory of bytes that serves
packets under their masks; instructions are fetched from a constant program.
**Sequential** is the execution a program relies on: one instruction after the
other, loads and stores of the bytes from an address on, no packets.  What an
instruction computes is a parameter of it, the same as of the processor; what it
adds is the order, and the memory without lines and masks.

## 3 The runs

| run | module | what it asks |
|---|---|---|
| `clock` | MCClock | Three domains, one more than the root's array has slots in the run, with periods that carry no, one and two seconds. Ticks in the order of time (`Chronological`), never more than a period of its own ahead (`BoundedSkew`), nobody starves (`EveryDomainAdvances`), the last report of a tick decides (`LastReportWins`). |
| `mesh1d` | MCMesh1D | Two clusters, a memory in one, two clients in each. Implements `Network`, answers included; a memory whose answer waits behind a request to itself is stuck for ever (`WedgedForEver`), and nothing else gets stuck (`SettlesOrWedged`). |
| `mesh2d` | MCMesh2D | Two by two; flows that turn and join. Implements `Network`; timestamps survive transit (`KeepsTimestamp`). |
| `mesh3d` | MCMesh3D | Eight nodes, the longest route and a flow that joins it halfway, packets between the four corners of a side. Implements `Network`; packets never wait for each other's links in a circle (`NoCyclicWait`). |
| `ideal_noc_busy` | MCIdealNoc | Elements that answer `EBUSY`: **violates** `OldestFirst`, see 7. |
| `fat_bfly` | MCFatBfly | Four elements, siblings and a stranger send to one that answers. Implements `Network`; the assertion at the root holds (`SortedAtRoot`); drains. |
| `simt_cache` | MCSimtCache | Three lanes, two blocks. Answers find the request they belong to (`AnswersMatchRequests`), no lane that stopped queueing is left out (`NobodyForgotten`), the lanes see `LaneMemory`, and lanes that ask no more are all answered (`QuietLanesAreAnswered`). |
| `simt_core` | MCSimtCore | Three lanes, two blocks of two bytes. The same four questions, where lanes repeat requests that were refused and yet taken, and where one answer is for several masks; and one reader asks for all (`OneReaderPerBlock`). |
| `bus` | MCBusSystem | All sequences of three regions in six addresses: owners are stable (`OwnersStable`), a component owns its first address (`OwnsItsStart`), and overlaps that are let through all lie around an earlier region (`OverlapsOnlyAround`). With two of the tables, three processors, a memory, a uart, and the control page of one of the processors: a transfer is one packet (`OnePacketPerTransfer`), errors are those of refused accesses (`ErrorMeansRefused`), the wedge of the bus and a device, or a processor whose control page it is, takes two transfers and is for ever (`WedgeTakesTwo`, `WedgedForEver`), and nothing else gets stuck but the transfers of processors that were put to sleep (`QuietBusSettles`). |
| `ideal_alloc` | MCIdealAlloc | Two clients, two spaces, a port that others occupy. Implements `RegionTable`; the first overlap let through is of one kind (`FirstOverlapIsAround`); clients left without an answer are of two kinds (`AnswersSettle`). |
| `processor` | MCRiscv64 | A processor on a bus that two controllers and others use, four programs, answers that fail. Implements `Sequential` on registers and bytes; states and packets agree (`StatesMatchPackets`), an answer that is blocked is not replaced (`NoAnswerDropped`), errors end the run (`ErrorsEndTheRun`), no answer is forgotten in sleep (`KeepsExecuting`), and controllers are answered (`ControllersAnswered`); the last two unless a second request is in the way of the answer (`ControlWedged`). |
| `processor_fence` | MCRiscv64 | A program with a fence: **violates** `FenceIsNop`, see 7. |

The NoC has no passing run: that it implements `Network` between elements that
are never busy is proved instead, for every latency and set of elements (6).
Type invariants are part of the inductive invariants that are proved, and are
not checked again by runs.

Deadlock is checked except where the system may stop: after a report (`clock`),
when all packets that a run allows have been delivered (the networks), in the
wedge of a mesh, after an assertion or in the wedge of the bus (`bus`), after
the last instruction (`processor`), and when the allocator has ended the run
(`ideal_alloc`).  The cache and the core complex never stop.

A run is `tlc -config MCClock.cfg MCClock`, a module of proofs
`tlapm ClockProofs.tla`.  Every run ends within a minute or two, the proofs of
every module within a few minutes.

## 4 Bounds

* `MaxSend[e]` bounds the packets endpoint `e` sends.  It is two for endpoints
  whose flow is checked for order, and one for the ones that compete with it;
  two packets of a flow are enough to be swapped, and with both registers of a
  link taken and one waiting behind, backpressure reaches the senders.
* `Flows` are chosen to share links, to turn, and to meet in a node; a node has
  no memory beyond its registers and counter, so more flows repeat the same
  arbitration.  All flows at once are beyond TLC on the larger meshes.
* On the mesh with a memory each client sends one request, as the cores do that
  wait for an answer, and the wedge takes all four.  The same properties
  hold with `MaxTime` 5 (325,128 states) and with two memories (242,470 states),
  which take longer.
* `MaxTime` is where a node's timestamp stops counting: packets with different
  and with equal timestamps both occur.  It is 3 on a line and 1 and 0 on the
  larger meshes, where arbitration by age no longer tells packets apart and the
  order of inputs decides; delivery must not depend on it.
* On the box there is one packet per sender, one endpoint per node and no age:
  arbitration by age and the choice of one local input are the line's and the
  proofs' matter.  A deadlock of four nodes in a ring takes eight packets, two on
  each link, and is beyond TLC on a box; therefore the run asks for its cause.
  `NoCyclicWait` takes one packet on each link of a circle, and the four packets
  between the corners of a side make one as soon as two of them turn the other way
  than dimension order has it.
* `Clusters`, `Columns`, `Rows`, `Layers` are two, so that every direction
  exists and every kind of turn is taken; `Layers` of the butterfly is two,
  with a root and two leaves (four elements).
* `SEC`, `WORD`, `MaxSec` scale the second to 5 units and the counter to 16
  values, with periods of 2, 3 and 11 units, so that all carries occur
  within `MaxSec` seconds; `MaxComps` is two, to have an earlier and a later
  report in a tick; `MAX_DOMAINS` is two of the code's 512, to meet the full
  array.
* `Word` and `MaxRegions` of the bus: six addresses hold every way two regions can
  lie to each other, the wrapping one included; the third region is for the second
  search result, and is the control page of a processor.  All tables are built, and the system is run with the two in
  `Layouts`: one as in `simple_uart`, with an address nobody has, and one where the
  uart lies all around a memory, which only the order of the table tells apart.
  `BusProofs` says that the table does not matter for the rest.  Three processors
  are two that write a control page and the one whose page it is; with one memory
  and one uart both wedges, of the bus with a device and with a processor, occur
  (189,765 states).
* `Lanes` is three: a lane that has the slot, one that rides along and one whose
  bank it is, and `Addr` two blocks, of the banks of two of them; the third
  lane's own bank has none.
* The core complex has two blocks of two bytes, and `MCOps` lists which lane uses
  which: all lanes read one block, two of them write it, in different bytes, and
  two lanes use the other block.  Three lanes are one that asks, one that rides
  and one that writes in between.
* The allocator's requests are about two regions that are disjoint, one inside
  and one around the first of them, queries that hit and miss, a space of its own
  for one region, a space that does not exist, and an operation that does not.
  Two clients are one whose answer is refused and one that asks next.
* The processor is scaled: bytes of two bits (words of sixteen), lines of sixteen
  bytes, a memory of one line, immediates of 6 and 8 bits, registers `x10` to
  `x12`.  A short immediate is shorter than an int and an int half a word, as in
  the code, so extensions, carries and wraps occur.  It is booted at four
  places: the loop of `tests/simple_riscv64` with a smaller bound, a loop whose
  loads and stores overlap in different sizes, a transfer that crosses a line,
  and a load from nowhere.  `Riscv64Proofs` is about all widths and programs.  Two
  controllers are one whose answer is blocked and one that comes while it is.
  Instructions come from a memory of their own, as in `tests/simple_uart`; the three
  other ports are the one register of the bus, so that the second controller's
  request and the answer to the first get into each other's way (106,121 states).

## 5 Fairness

The code has one scheduler, and it is fair: `EveryDomainAdvances` is checked of
`Clock`, and a domain clocks each of its components at every tick.  The other
modules assume therefore weak fairness of every clock callback, and nothing of
what others decide to do: no endpoint has to send, no lane to ask, no
controller to write.  Endpoints finish what they have received (`Consume`),
which the traffic generators of the tests do in their clock, and memories answer
(that is their clock, and a fair action only when their node or bus accepts).
The component behind the allocator, and those behind the processor's ports, move
on what they hold, with one exception that is the code's: a request to the control
page stays while the processor refuses it.  The processor model assumes of its bus
that memories take what they are sent; how bus and memory can fail each other with
other masters is the matter of `SimpleBus` (`Wedged`), where nothing of the kind is
assumed.  Liveness that needs others to leave a place alone says so (`OthersQuiet`,
`ControllersQuiet`, `<>[][~ Asking]_vars`,
`<>[][~ Receive /\ ~ Occupied]_allocVars`): the code has no arbitration that would
make it true without, see 7.

## 6 Proofs

`ClockProofs` proves about `Clock`, for all numbers of domains, periods,
seconds, word widths and bounds that satisfy `ClockAssumption`:

* `TypeCorrect`: `Spec => []TypeOK`;
* `SkewIsBounded`: `Spec => []BoundedSkew`;
* `ReportsStopTheRun`: `Spec => []LastReportWins`;
* `TicksAreChronological`: `Spec => Chronological`.

None of the last three is inductive.  They follow from `ClockCorrect`, `Spec =>
[]ClockInv`, which adds what makes them so: before `root_run` nothing has
happened (`SetupAtZero`: a domain added late has not missed a tick), a run that
goes on has seen no report (`NoReportYet`: `ret` keeps a report for ever, so
that an old one would stop a later tick), and no registered domain is behind
the latest tick (`NoPast`).  The argument for the skew: a tick moves only the
domain that is behind all others, by its period, which puts it at most a period
ahead of any; all others only fall behind.  That needs `advance_clock` to add
exactly the period, which is where the assumption that a period does not
overflow the femtosecond counter is used, and `lt_time` to be the order of
elapsed time, both of which are lemmas.  `TicksAreChronological` uses in
addition that the domain that ticks has moved strictly past `now`, so that at
the next tick the smallest time is not less.

`BusProofs` proves about `SimpleBus`, for any number of processors,
memories and uarts (finitely many processors, and names that are distinct):

* `TypeCorrect`: `Spec => []TypeOK`;
* `TransfersAreKept`: `Spec => []OnePacketPerTransfer`;
* `ErrorsAreRefusals`: `Spec => []ErrorMeansRefused`;
* `WedgeNeedsTwo`: `Spec => []WedgeTakesTwo`;
* `WedgeStays`: `Spec => WedgedForEver`.

All rest on `BusCorrect`, `Spec => []BusInv`.  `OnePacketPerTransfer` alone is
not inductive, because it does not say what the packets are: a memory that
answered an answer, or a bus that sent a request to a processor, would break it
in the next step.  `BusInv` adds that the bus holds a request of a processor on
its way to the component it is for, or an answer on its way to the processor that
asked (`BusHolds`), that components hold only answers (`ResponsesAnswer`), and that a transfer that waits for
the bus keeps its request and one that is done its answer (`TransfersHold`).
`OneRegister` says without counting which register it is: the bus's or one
component's, until a request that ends the run is lost with it.  From there a wedge
needs two transfers, because the request in the bus and the answer in the component
would otherwise be two packets of one; and it
stays, because a step that changes either register needs the other one free.
`BusInv` was first checked by TLC on the system of the `bus` run.

It proves about the table, for address spaces of every size and
tables of every length: `OwnersAreStable` (`OwnersStable`), `StartsAreOwned`
(`OwnsItsStart`) and `OverlapsAreAround` (`OverlapsOnlyAround`).  The invariant
is `RegionsInv`: each region starts at an address that no earlier one holds
(`StartsFree`), which is all the first of the two look-ups of `simple_bus_add`
establishes.  Two regions that overlap share the start of one of them; if that is
the later one it would be held by the earlier, so the earlier one starts inside
the later, and the second look-up then leaves one case, a region around another.

And it proves that every run of the composed system is a run of
`SimpleBus`, whatever components are mapped in whatever order (`SystemIsBus`), so
that all that is proved about the bus holds with a table: `SystemKeepsTransfers`,
`SystemErrors`, `SystemWedgeNeedsTwo`, `SystemWedgeStays`.  Any number of layouts
and components is covered.

The other table of regions is the allocator's, and `BusProofs` has its theorems
too, for every set of clients and of requests for ranges (`RequestAssumption`:
a region does not end before it starts; the allocator does not look):

* `AllocIsRegionTable`: `AllocSpec => ImplementsRegionTable`;
* `FirstOverlapIsSeen`: `AllocSpec => FirstOverlapIsAround`.

Both need one lemma about the tree, `SearchFinds`.  `region_cmp` is no order, but
among regions that are disjoint, for a range that one of them contains, every
other region sends the range and the container to the same side (`Met`), so that a
tree of any shape leads to it; and there is only one (`OneAround`).  The refinement
needs in addition that a client is in one register of the allocator at most, with
its request or with the answer to it (`AllocInv`, checked by TLC on the system of
`ideal_alloc` first): otherwise an answer in the port and one that was refused
could be for the same client, and one would hide the other.  A request takes effect
in the clock that serves it (`Served`); that an answer moves from the register
to the port does not show.

`MeshProofs` proves about `Mesh` itself, for any topology:

* `MeshImplements`: the mesh implements `Network`;
* `MeshKeepsTimestamp`: `KeepsTimestamp`, where transit packets are not restamped;
* `MeshWedges`: `WedgedForEver`;
* `MeshWaits`: `NoCyclicWait`, packets never wait for links in a circle;
* `MeshNeverStuck`: `NeverStuck`, while packets are under way an endpoint has one to
  finish or the clock of some node moves one.

The condition is `Topology`: links lead both ways (`Wired`), and the packets of
every flow have a path (`Routed`): each node on it routes them to an endpoint or to
the next node of the path, one hop nearer (`Rank`), where they enter by one port
(`InPort`), and no two nodes of it are as far from the end.  The invariant is `MeshInv`: a packet in a
register is on its path (`PacketsPlaced`), and of two packets of a flow the one
nearer to its end is older (`Ordered`).  One clock of a node empties some outputs
and fills some from its inputs, and a register is filled only if it was free; it
is described by what was where before (`Was`), so that the order in which
`propagate` treats the outputs is settled in one lemma, and what follows is about
sets of moves.  Exactly-once delivery comes from `PacketsPlaced` (a packet has only
one next register) and from counting: the id of a packet is below the count of its
sender, and an older one is never behind.  The order of a flow comes from
`Ordered`.  `MeshTopologyProofs` then shows that `node1d`, `node2d` and `node3d` route
so, with lines of any length and grids and boxes of any size: dimension-ordered
routing goes straight in one dimension after the other, and the distance is
the sum of the coordinates' (`LineIsRouted` and its like).  From this follow
`LineImplementsNetwork`, `GridImplementsNetwork`, `BoxImplementsNetwork`,
`GridKeepsTimestamp`, `BoxKeepsTimestamp`, `LineWedges`, `GridWedges` and
`BoxWedges`, for every set of flows and memories.

The last two theorems have a stronger condition, `DimensionOrder`: besides
`Topology`, nodes look at the input a packet comes by when they fill the output it
goes to, and a packet's next link has a smaller `LinkRank`, the number of links that
may follow (`Turns`).  So of the waits of a circle one with the least rank would have
to be followed by one with a smaller rank (`WaitsDescend`), which is `MeshWaits`.
For `MeshNeverStuck`, suppose that no endpoint is busy and no node can move a
packet.  Then some output of a node is taken, since a packet in an input would
otherwise move (`SomeOutputTaken`); it leads along a link, for an endpoint would
take the packet; the input at the other end is taken too, and what is in it
waits for an output that is taken as well (`TakenWaitsForTaken`).  So every taken
output waits for a taken output, and those are a set of waits without the end that
`WaitsEnd` gives it.  This is the safety half of delivery, in spite of age
arbitration and of the one local input a node looks at in a clock; that every single
packet arrives is liveness, and checked in `mesh1d`.  The ranks of the three meshes
are distances to the edge, those of an earlier dimension above those of a later
one, and give `LineWaits`, `GridWaits`, `BoxWaits` and `LineNeverStuck`,
`GridNeverStuck`, `BoxNeverStuck`.

`NetworkProofs` proves about the butterfly, with any number of layers and any flows:

* `BflySorted`: `Spec => []SortedAtRoot`, the assertion in `fat_bfly_clock`;
* `BflyIsNetwork`: `Spec => ImplementsNetwork`.

The way of a packet through the tree is given by its two addresses: at height `h`
it is in node `src \div 2^(h+1)` of its layer, in the bank that the next bit of its
source selects, and leaves by the output that the low `h+1` bits of its receiver name
(`nodeOf`, `bankOf`, `outOf`).  The invariant `BflyInv` says that packets are on
their way (`Placed`) and in order on it (`Ordered`); at the root all bits are used,
and that is the assertion.  One clock visits every node, and each visit takes
packets one register further (`Moved`).  That all visits together keep the
invariant is induction over the nodes; it is done by hand, with the first node
after which it would not hold (`LeastOf`), since the library's induction needs an
operator as an argument.

About the ideal NoC it proves `NocIsNetwork`: between elements that are never busy
(`PromptElements`) the NoC implements `Network`, for every latency and set of
elements and flows.  The invariant says that an output is empty when the clock
comes to it, which is what saves it from being overwritten: with elements that
refuse packets it is not, and `ideal_noc_busy` shows the loss.

`Riscv64Proofs` begins with the algorithms of `packet.h`, for lines of any length
and every address and size that fits: `AddressIsKept` and `SizeIsKept` (what
`packet_convto` and `packet_convsize` tell from a mask is what was put in, also
at the end of a line), `MaskIsAccess`, `ReadsItsBytes` and `WritesItsBytes` (a
load gets the bytes from its address on, a store leaves them there and no others).

It then proves about the processor, for every program, memory, number of
controllers, sharing of ports and width:

* `StatesAreRight`: `Spec => []StatesMatchPackets`;
* `AnswersAreKept`: `Spec => []NoAnswerDropped`;
* `ErrorsEnd`: `Spec => ErrorsEndTheRun`;
* `ProcessorIsSequential`: `Spec => ImplementsSequential`.

The first two and the last rest on `ProcessorCorrect`, `Spec => []ProcessorInv`:
a packet at a port or an answer on its way is the one packet of the fetch or
transfer whose state is `sent`; it is for `pc` or is the packet in `dls`; and a
transfer that is done without an error has had its effect on memory (`Effected`:
a write is there, a read carries what is there).  The refinement mapping counts
an open transfer as done: the register a load will write already has its value,
and the bytes of a store are already in memory.  So the step that executes a load
or store is the step of `Sequential`, and everything after it, refused ports,
retries, sleep, answers, changes nothing a program can see.  That holds because
the processor executes nothing else until the transfer is closed
(`dls_settled`), so the value a load will get cannot change any more; and because
a memory that serves a packet does what the mapping has promised, which is where
`ReadsItsBytes` and `WritesItsBytes` are used.

Two conditions are stated in the theorems: `NoneIsNoPacket`, that the constant
for an empty register is not a packet, and `InstructionsKeepWords`, that one
instruction makes words of words and bytes of bytes.  The second is a fact
about sums over bits (`number`, `packet_conv`), which takes induction over data,
out of the prover's reach; TLC has checked it by evaluation of all instructions on
a scaled machine (bytes of one bit, one register).

`SimtCoreProofs` proves about the core complex, for any number of lanes, blocks
and bytes, and any requests of the lanes:

* `CoreAnswersMatch`: `Spec => []AnswersMatchRequests`;
* `CoreAsksOnce`: `Spec => []OneReaderPerBlock`;
* `CoreForgetsNobody`: `Spec => []NobodyForgotten`;
* `CoreIsOneMemory`: `Spec => ImplementsLaneMemory`.

They rest on `CoreCorrect`, `Spec => []CoreInv`.  None of the three invariants
is inductive alone.  A broadcast frees the registers of all readers of a block,
and would leave a packet of one of them outside the core, without a request it
belongs to, if a second reader could have asked: so `AnswersMatchRequests`
needs `OneReaderPerBlock`.  So does `NobodyForgotten`, because the only reader
that stops having asked must be the one whose answer frees all that ride with
it; and a new read that rides with one that rides itself is sure of an answer
only because `NobodyForgotten` names a lane that did ask.  `CoreInv` adds that
a packet outside is what was sent for its lane's request, mask and value
included (`Matched`), and that the responses on their way back lead from the
bytes the lanes have last seen to those memory has now (`Explained`: `v[k]` is
what memory held when it served the `k`-th).  The last gives the refinement:
when a read's answer is taken it is the oldest of its block, so the bytes it
brings are the ones the lanes have seen last, and each lane's own byte among
them.  The lemmas `Joined...` say where a packet is in `back[b] \o path[b] \o`
node before and after a step. Assumed of the constants are `CoreAssumption`
(there is a lane, and requests are of lanes, blocks and bytes) and
`NoReqAssumption` (the constant for a lane without a request is neither a
request nor a packet).

`SimtCacheProofs` proves about the cache, for any number of lanes and blocks:

* `CacheAnswersMatch`: `Spec => []AnswersMatchRequests`;
* `CacheForgetsNobody`: `Spec => []NobodyForgotten`;
* `CacheIsOneMemory`: `Spec => ImplementsLaneMemory`.

The argument differs from that of the core complex, because here a block may be
asked for twice: by the lane whose bank it is, and by the one that holds the shared
slot.  `CacheCorrect`, `Spec => []CacheInv`, says so: a packet outside is of the
lane of its bank or of the lane that has the slot, which keeps it until it is
answered (`InTurn`); and of the reads of a block the one of the slot is the last
(`SharedIsLast`), so that its answer, which frees the lanes that ride with it, frees
none that has a packet of its own under way.  `Registered` and `Travelling` are the
types, `Matched` and `Explained` what they are for the core complex.  TLC has checked `CacheInv` on
the system of `simt_cache`.

Every invariant, action property and refinement that a passing run checks is
proved of its module; where a condition is assumed it is named above.  Only
model-checked is the liveness (`EveryDomainAdvances`, `SettlesOrWedged`, `Drains`,
`QuietLanesAreAnswered`, `QuietBusSettles`, `AnswersSettle`, `ControllersAnswered`,
`KeepsExecuting`), because the prover has no rule for it, and what instructions
compute (`InstructionsKeepWords`).

## 7 Observations

Two disagreements between the code and what it says have a run:

* **The ideal NoC forgets who is oldest** (`ideal_noc_busy`).  `ideal_noc.h:6`
  promises "oldest-first arbitration".  `n->counter` is computed for a decision
  and never stored (`ideal_noc.c:34`), so all timestamps are zero, and the test
  `out->pkt.timestamp < in->pkt.timestamp` protects no packet: as soon as an
  element answers `EBUSY`, a later packet overwrites the one that waits for it.
* **A fence is not a nop** (`processor_fence`).  `simple_riscv64.c:654` says
  "nop in this case" and breaks out of the switch; every other class moves
  `pc`, this one does not, and the processor executes it for ever.

Others were found by reading or with variations of a run:

* `node1d.c:37` gives packets in transit a new timestamp, which the other two
  nodes do not and the comment above it wants for "packets that originate with
  us" only.
  Delivery does not depend on it, so it costs fairness between flows only.
* A mesh with a memory can come to a stop.  A node offers only its oldest local
  packet to the outputs (`node1d.c:102` and the other two): when that is a
  request to a memory beside it, which holds an answer, the answer waits behind
  the request and the request for the answer.  Four local cores that use one
  memory at once suffice; `WedgedForEver` and `SettlesOrWedged` say that with one memory it is for
  ever and the only such stop; with several the circle may lead through more
  than one.
* With a latency above one the NoC never moves a packet: the counter is one at
  every clock.
* `simple_bus_add` looks up two addresses to find overlaps
  (`simple_bus.c:99-100`): it lets regions through that lie around an earlier
  one, and refuses a region that ends where another begins.
* Two masters can wedge a bus: it holds a request for a device that holds an
  answer.  Neither gives way.  In the test system there is one processor, and
  its load and the fetch behind it never have both been accepted by the bus.
* Two masters that write the control page of a third do the same.  A processor
  answers from within `receive`, when the bus is still busy with the request
  (`simple_bus.c:39-41` frees it only afterwards), so that its answer is always
  blocked at first.  If the bus has the second request before the processor is
  clocked again, the processor refuses it (`simple_riscv64.c:548`), the bus keeps it,
  and refuses the answer (`simple_bus.c:53`).  It is part of `Wedged` in `SimpleBus`
  and is `ControlWedged` in `Riscv64`.
* A clock period of zero stops time; nothing refuses it.
* In the butterfly the right child of a node is served before the left one,
  and in the cache lower lanes before the slot, at every clock: those behind
  starve while those in front keep sending.
* In the core complex a lower lane goes first as well, and a request that rides
  along has the rank of the lane it waits for: with four lanes even lane 0 can
  starve, riding on a queued read of lane 3.  The two interfaces do not look
  at each other's registers, so that a store is not ordered with a fetch of the
  same block.  A broadcast clears `busy` and leaves `queued` (`simt_riscv64.c:111`);
  that is harmless only because at most one reader of a block asks for it
  (`OneReaderPerBlock`).
* The allocator: freeing part of a region frees all of it; a region that is
  refused is answered and then ends the run (`EMEM`); a request with an unknown
  operation is never taken out of the register, so that the allocator serves
  nobody any more; a refused answer is sent again only when another request has
  come; regions that overlap without lying inside one another are accepted, and
  then searches depend on the shape of the tree.  `simple_ideal_alloc`
  queries with an address inside a region, which works only if the tree compares
  with its own node first.
* A processor with a blocked answer to a controller does nothing else, so
  controllers that write without end keep it from its program.  `KeepsExecuting`
  assumes controllers that stop.
* The assertion at `simple_riscv64.c:633` is about the fetched instruction and
  looks at the data packet; a failed fetch is caught later, since the zeroes it
  brings are no opcode (`ErrorsEndTheRun` holds because of that).
* `Instructions` computes what the code computes, which is not RISC-V where the
  code is not: the arithmetic and the logical right shift change places, in `SRA`
  and `SRL` as in the immediate forms; shifts count by the whole register; `LB`
  and `LW` extend with zeroes and `LWU` with the sign; the immediates of `JAL`
  and of branches are extended from one bit less than they have; `JALR` adds to
  `pc`; `ADDIW` and its like are not cut to 32 bits.  A transfer or a fetch that
  crosses a line of 64 bytes ends the program with an assertion.

## 8 What is not modelled

* 32-bit register operations, atomics, floating point and system calls are
  unknown opcodes to the code too, and end the run; they have no definition of
  their own.
* What a uart prints, and the way a program is read into memory before the run.
* Creation and destruction: allocation failure ends the program before it runs.
* The order of components within a domain: the models allow every order.
* Of a processor's region the model of the bus has the control page.  A program that
  writes to the pages where answers arrive has its request taken for an answer
  (`simple_riscv64.c:536-545` do not look at the flags), and one that writes
  elsewhere in the region ends the run with an error; the transfers of the model are
  for neither.
* What happens to a packet for an element that nobody has connected, or whose
  receiver answers with an error: the systems of the tests send none.
* Containers: their source is not part of the files.  Vectors are sequences and
  functions here, and the allocator's tree is any search tree.
* The test programs: their wiring is in the MC modules, their traffic
  among the flows and requests the models choose from.  What the functional tests
  print is left out.

## 9 Plan

Built first was the scheduler, since the fairness of all else rests on it, with
its proofs; then the networks and their promise, bus, cache and processor; then
the compositions (bus with its table, mesh with memories), the core complex, the
allocator, and packets and instructions as functions; then the proofs, component
by component, until no safety property was left to the runs alone.

What would add most from here:

1. `InstructionsKeepWords` as a theorem: that `number` of some bits is below its
   power of two, by the least counterexample as in `NetworkProofs`, and from there
   one case per class of instructions.
2. The core complex on a mesh with memories in one model, which is beyond TLC at
   the sizes where the wedge occurs, and would have to rest on `Network` and
   `LaneMemory` instead: both are proved now.
