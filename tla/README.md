# A TLA+ verification project for MA-Memphis

MA-Memphis is a many-core platform: a mesh of processing elements (PEs), each
with a RISC-V processor, a local memory, a DMNI (network interface with DMA), a
Hermes router for packets and a BrLite router for broadcasts.  Applications
enter through injectors on the border of the mesh; management tasks, which run
on the PEs like any other task, decide where tasks run and move them.

Paths below are relative to `src/`.  The MAestro kernel and the libraries
libmemphis and libmutils are git submodules and not part of the repository;
what they do is modelled from how the code here uses them and is marked
external.

## 1. Inventory

| Component | State it keeps | Operations | Talks to |
|---|---|---|---|
| Mapper task (`management/mapper_task/src`) | free pages in all and per PE, pages promised to a waiting application, task lists of the PEs, applications with their tasks, one pending application, finish flags | one handler per message: NEW_APP, TASK_ALLOCATED, TASK_TERMINATED, TASK_ABORTED, TASK_MIGRATION_MAP, TASK_MIGRATED, REQUEST_FINISH, PE_HALTED, REQUEST_SERVICE | injectors, kernels, migration task |
| Placement heuristic (same directory: `window.c`, `task.c`, `application.c`, `_map_do`) | the window of the search, the last window, the order of the tasks | slide and grow a window, order tasks by their communications, cheapest PE | called by the mapper |
| BrLite (`hardware/src/BrLite*.cpp`) | per router: table of messages, three state machines, clear timer; per PE: one outgoing message, a buffer of 16 | flood, ignore copies, clear after 220 cycles | neighbours by request and acknowledge, the kernel by registers |
| Hermes router (`queue.cpp`, `switchcontrol.cpp`, `router_cc.cpp`) | input queues, routing table of the ports, round-robin pointer | receive with credit, XY route, forward until the tail | neighbours, DMNI |
| DMNI (`DMNI.cpp`) | receive buffer, send and receive machines, arbiter, monitor table | copy to and from memory, count packets, write monitor messages | router, BrLite, kernel, memory |
| PE (`PE.cpp`, `ram.cpp`) | memory-mapped registers, interrupts, timer, clock gating, memory of two ports | register reads and writes each cycle, replacement of the page in an address | all units of the PE |
| RISC-V processor (`RiscV.cpp`) | registers, CSRs, privilege level, the access it waits for | an instruction, an interrupt or an exception at a time | memory and registers of the PE, kernel |
| AppInjector, MAInjector (`hardware/peripherals`) | three state machines each, list of injected applications, packet buffers | announce an application, send the code of its tasks, ask to finish | mapper, kernels, through the NoC |
| Migration decider (`management/migration_task`) | service provider, table of tasks | request a migration after deadline misses | observers, mapper |
| Real-time observer (`management/rt_monitor`) | table of monitor values shared with the DMNI | poll it every interval | DMNI, decider |
| Applications (`applications`) | the variables of each task | send to and receive from a task of the same application | kernels, through libmemphis |
| Sniffer, test bench | logs, the clock | log, tick | PE |
| Python tools (`modules`) | files | build scenarios | - |

What is hard in this system, and what makes each part correct:

* **Mapper.**  It is a single-threaded event loop, so a handler is atomic; what
  interleaves is the messages.  A task may end or be aborted while an order to
  migrate it is on its way, the request to finish may overtake the last end,
  an application may wait while others come and go.  Pages are counted four
  times over.  *Correct when* the counts agree, no PE gets more tasks than
  pages, no page is reused while a kernel holds the old task, aborts reach
  every task, a waiting application is mapped, and the system halts.
* **Placement.**  Loops whose only bound is that a window with enough pages
  exists; indexes are not checked.  *Correct when* windows stay in the mesh,
  the search ends, and every task gets a processor.
* **BrLite.**  Every router runs three methods per clock edge that read each
  other's registers; messages arrive in several copies over several paths, a
  timer erases them.  *Correct when* each destination hears each message once,
  no handshake meets an old acknowledge, tables are emptied, nobody waits in a
  circle.
* **Hermes.**  Credit with hysteresis, wormholes that hold ports.  *Correct
  when* queues do not overflow, packets stay whole and in order, and XY routing
  does not deadlock.
* **DMNI.**  Push and pop in the same cycle, sends that are rewound when they
  lose the memory.  *Correct when* no word is lost, repeated or reordered, and
  the packet counter equals the packets in the buffer.
* **Injectors.**  State machines that share plain variables and wait for
  messages in one-cycle states.  *Correct when* every task's code is sent once
  and every application is announced.
* **Processor and PE.**  Timer, slack monitor and messages interrupt between any
  two instructions, of a task or of the kernel on its behalf; the kernel stops
  the clock and something has to start it again; pointers of a migrated task
  name the page it had before.  *Correct when* a task cannot tell whether it is
  alone, an interrupt is taken, and no task reaches the page of another.
* **Applications.**  Send and receive block.  How many messages a task sends is
  computed apart from how many the other receives.  *Correct when* all tasks
  end, lengths agree, and the result is right.
* **Observer.**  A table read by software while hardware writes it.  *Correct
  when* a violation is reported for the task that had it.

`PROJECT.json` lists every hazard at its line with the properties that cover
it, or with a note that says why none does.

## 2. Modules

| Module | Models or proves |
|---|---|
| `Mapper` | the event loop with injectors, kernels and migration requests |
| `MapperInvariant` | the inductive invariants of `Mapper`: `Inv`, `EndInv`, `PromisesInv` |
| `MapperProofs`, `MapperPromises` | theorems about `Mapper`, the second on the first |
| `Placement` | the search for windows and processors |
| `PlacementProofs` | a theorem about the search, with its invariant |
| `Broadcast` | what a broadcast network promises to the kernels |
| `BrLite` | the routers, wires and local ports, one clock cycle a step |
| `BrLiteInvariant` | the inductive invariants of `BrLite` |
| `BrLiteProofs`, `BroadcastProofs` | theorems about `BrLite`; that it implements `Broadcast` |
| `Delivery` | what a packet network promises to its endpoints |
| `Hermes` | queues, arbiters and crossbars of all routers, one clock cycle a step |
| `HermesInvariant` | the inductive invariants of the routers: `HermesInv`, and `FlowInv` about packets |
| `HermesProofs` | the routers keep them in any environment |
| `Dmni` | the DMNI of all PEs: arbiter, receive buffer, sends, monitor table, port B of the memory |
| `Injector` | MAInjector and AppInjector, each order of their processes |
| `Platform` | the composition of `Hermes`, `Dmni`, `Injector` and of the least kernel and mapper they need, against `Delivery` |
| `PlatformInvariant` | the inductive invariants of `Platform`: `BufferInv` and `TableInv` of the DMNI, `WholeInv` of packets from memory to memory |
| `PlatformProofs` | what `HermesProofs` gives for `Platform`, and lemmas about receive buffers, monitor table, sends and receptions |
| `PlatformPromises` | theorems about `Platform` as a whole, with kernels and injectors |
| `TaskMachine` | what a task is promised: a machine of its own |
| `RiscV` | the processor as operators on its state |
| `Processor` | a processor in its PE: memory, registers in memory, interrupt, clock |
| `Tasks` | the calls a task makes, and loops of them |
| `Synthetic`, `Benchmarks`, `Media`, `Farms` | the calls of the tasks of each application |
| `Dijkstra`, `Sorting` | what dijkstra and the sorts compute |
| `Applications` | an application that runs: tasks, pipes between them |
| `MCMapper`, `MCPlacement`, `MCBrLite`, `MCPlatform`, `MCProcessor`, `MCApplications` | instances for TLC |

Mapper, the platform, the processor and the applications are layers that meet in
the kernel, which is not in the repository.  They are therefore modelled apart,
each against what the layer next to it is seen to do.

Operators named `<definition>_<fault>` are variants of a definition with a fault
a change of the code might introduce.  No specification uses them; they serve to
test that each property notices the fault.

### Mapper

`map` is the record `map_t` with its lists: `slots`, and per PE `free`
(`pe_t.slots`), `reserved` (`pe_t.pending_cnt`) and `held` (the lists
`pe_t.tasks`).  `status`, `pe` and `old_pe` are the fields of `task_t`.  Each
action is a whole handler of `mapper.c`: for example `TaskTerminated` releases
the pages, ends the application when it was the last task, sends the halt orders
if the finish was requested, and maps the pending application if it can.
Counters are integers and may go below zero, where the C code wraps; `ULess`
compares them as the unsigned numbers they are.

The dynamic tasks of a new application go to any PEs with free pages.  This
contains what the heuristics choose, and is what they choose from when the whole
mesh is the window; module Placement looks inside.

Outside the mapper, a kernel loads a task after the TASK_ALLOCATION it was sent,
reports, runs it when released, ends it, moves it when ordered, reports again.
`mail` holds the reports on their way, which may overtake each other except
where the kernel sends one only after another was handled.  The injectors
announce one application at a time and wait for APP_MAPPING_COMPLETE
(`AppInjector.cpp`), and request the finish after the last one, at any time
thereafter.

### Placement

A search of the single-threaded mapper is a state (`search`), every window it
tries is a step, and so is every task placed.  `free` starts in one of `Loads`:
what other applications left.  A window outside the mesh makes the code read
outside the array `pes`; the model stops there, and `WindowInMesh` reports it.
`map_xy_to_idx` multiplies by the number of rows, as the code does, so that the
instances must be square for the heuristics to look where they mean to.  A
migration uses a fixed window of three by three which is not clamped, hence the
assumption of a mesh of at least 3 x 3, the smallest that the documentation uses.

### BrLite and Broadcast

All routers share a clock; `Tick` is one rising edge of the whole network: every
register of every router gets its next value from the values before the edge,
as `sc_signal` does.  `inp`, `outp` and `tab` are the registers of the three
methods `input`, `output` and `input_output`, with states named as in the code.
`ctl` and `buf` are BrLiteControl and BrLiteBuffer.  Between edges the kernel of
a router may write its next message (`Send`) if BR_LOCAL_BUSY reads zero.  A
message carries its source and its rank among the messages of the source; the
network compares ranks modulo `ID_CNT`, as the identifier is.  Fields of a
table line that is not used are reset in the model, since the code does not
read them.  `got` is history: what each buffer has taken.

`Broadcast` states the promise: a message is given to each of its destinations,
once, after it was sent, in any order.  `BrLite` implements it with `heard`
computed from `got`.

### Hermes, Dmni, Injector and Platform

`Tick` is one cycle of the clock of the whole platform.  Each module has, for
its component, a conjunct per process of the code (`in_proc_FSM`,
`controle_sequ`, `arbiter`, `receive`, `send`, `br_receive`, ...) that gives the
registers their next value from what the signals were before the edge.
`HermesClock`, `DmniClock`, `InjectorClock` and `KernelClock` are the steps of
the components; `Platform` wires them as `Memphis.cpp` and `PE.cpp` do.

* `fila[r][p]` and `switch[r]` are the queues and the switch control of router
  `r`; a queue has its two indexes and the hysteresis of its credit.  Flits are
  told apart by packet and position.
* `arb`, `cfg`, `rcv`, `snd`, `mon` are the five state machines of the DMNI;
  `mem` is what the DMNI writes and reads.  `add_buffer` tells full from empty.
* `inj[k]` holds the three state machines of an injector.  They are SystemC
  processes that share plain variables, whose order in an edge is not defined:
  `order` is chosen once, as a simulator does.
* The kernel of `Platform` only does what the hardware waits for: it programs a
  send in as many writes as the registers take, asks for a reception when it is
  interrupted, a header and then its payload, and answers to the injectors.
  `kernel[r]` counts what it has still to write.  `plan` is what the tasks send
  once released, when the monitor removes a task, and what is reported to it.
* `heard`, `lastReport` and the packets sent and received are history.

RELEASE_PERIPHERAL, which opens the port to the injector, reaches its PE without
a packet.  The sources of `Delivery` are the PEs and the injectors.

### RiscV, Processor and TaskMachine

`RiscV` is the interpreter of `RiscV.cpp` on a record `c`: `cpu_edge` is one edge
of its clock, `Begin` the head of the loop (interrupts first), `execute` an
instruction, `Resume` what follows a wait for the memory.  `CsrTable` has the
masks of `get_csr`.  `Processor` adds the PE around it: `Tick` is a cycle of the
PE, `RunCpu` runs the processor only while `clock_aux` holds, `Remapped` is what
`comb_assignments` does to an address, `sequential_attr` and
`cpu_mem_data_read` are the registers in memory.  A message comes to the buffer
at any cycle while some are left (`toCome`); nothing else is left open but the
initial `setup`.

Scaled: a word has 16 bits instead of 32, a byte of it 4 and a half 8, so that
register values, addresses and lanes fit in a small memory; the addresses of the
registers in memory are shortened likewise.  CSRs keep their bits up to 16;
TSR, TW and MPRV are above.  Four of the 32 registers exist.  Instructions are
records of fields, kept apart from the data.  The value in mtval of an illegal
instruction, the tick counter, the page size registers, the UART and the debug
registers are left out; the DMNI is idle, its interrupt bit is therefore absent.

The kernel in `MCProcessor` is a program of some forty instructions in this
instruction set: it boots, saves and restores the tasks on a machine interrupt,
serves `ecall` in supervisor mode, holds the clock.  It stands for MAestro.

`TaskMachine` is written from the definition of the instruction set, with numbers
and sets where `RiscV` has bit fields.  A step of `Processor` refines a step
of one task, or nothing: what a task has done is seen when the processor is
about to go on with it (`seen`, history) and when it writes to its memory.
`docs/Platform.md:12` says that the processor is an RV32IM_zicsr, and
`RiscV.cpp:12` that it has M/S/U privileges.  The code does not keep to all of
that, and `RiscV` is translated from the code.  What `TaskMachine` promises is
what remains, each departure by name:

* Products: `mulh` and `mulhsu` multiply numbers without sign (`RiscV.cpp:1607`,
  `RiscV.cpp:1619`): what `read` returns is one, and the casts to `int64_t` come too
  late.  `Departs` leaves the result open when a signed operand is negative.
* Quotients: 0 / 0 is 0 and not all ones (`RiscV.cpp:1643`, `RiscV.cpp:1660`), and
  the case commented "Overflow" (`RiscV.cpp:1647`) is 1 / -1, whose quotient becomes
  1, instead of the least number by -1, which is undefined in C++.  `Departs` leaves
  these results open.  With them open the task still goes on as if alone: no
  other register, no word and no task may change.  The run has operands for each of
  them but the undefined one, and without any one of these disjuncts of `Departs`
  it violates `EachTaskRunsAlone`.
* CSR instructions: `csr_helper` raises "Not enough privilege" when the level of the
  register is *below* that of the processor (`RiscV.cpp:1942`), so that the kernel in
  machine mode may not touch those of supervisor mode and a task is refused none.
  A task that has such an instruction is promised nothing: `NoCsrInTasks` in
  `Processor` assumes that there is none, and `EachTaskRunsAlone` and `StaysInItsPage`
  hold for such tasks only.
* Exceptions: a load or store that is not aligned raises the exception of an
  instruction address, and every exception returns behind its instruction.
  `Refused` says what a task sees of it: it goes on with the next instruction.
* The mask of MTVEC clears the bit that selects vectored interrupts.

### Tasks and Applications

A task is the sequence of calls it makes: `Send`, `Receive`, `RealTime`, with the
peer, the length in bytes and what decides on how to go on (`then`).  Loops
become repetitions (`Repeat`), loops that depend on what is received become jumps.
`pipe[t]` is the message of `t` that has not been taken; a send waits
until the last one was.  `Sorting` and `Dijkstra` compute on data, as recursive
functions over the loops of the code; in map_reduce each slice is a symbol, of
which the sum is the sequence, and `UNWRITTEN` is what heap words add to it that no
message wrote.

## 3. Runs

| Run | Question | Result |
|---|---|---|
| `mapper_static` | static applications wait for their PEs while others end or are aborted | 8700 states, holds |
| `mapper_migrate` | tasks migrate, end with an order on its way, are followed by others; the system halts | 19637 states, holds |
| `placement_search` | searches on a 6 x 6 mesh with scattered free pages | 25135 states, holds |
| `brlite_corners` | two senders of a 2 x 2 mesh, all relative times: is every message heard once, and gone before its clear? | 65797 states, holds |
| `platform` | a 2 x 2 platform boots, loads an application, whose tasks send and report | 17739 states, holds |
| `applications` | 25 applications run to their end | 16298 states, holds |
| `processor` | two tasks on a processor with all its interrupts | 85643 states, holds |
| `mapper_overcommit` | may a page counter go below zero when tasks migrate? | yes |
| `mapper_lost_wakeup` | is a waiting application mapped whenever it fits? | no |
| `mapper_no_halt` | does the system halt after a late REQUEST_FINISH? | no |
| `placement_full` | does the window stay in the mesh when an application with a static task fits exactly? | no |
| `brlite_cross` | does every message arrive when two cross between routers that both clear? | no |

What the runs with a violation show:

* **mapper_overcommit.**  Application 3 has two static tasks and waits for the
  two pages of `p2`.  `map_migration_map` gives a free page of that processor to
  a migrating task: `task_map` looks at `slots` and not at `pending_cnt`.  Later
  `failed_cnt` is zero and `_map_do` maps the application onto a processor with
  no page left; `pe_task_push_back` decrements zero.
* **mapper_lost_wakeup.**  Application 3 has a static task on `p2`, of which it
  was refused one page (`failed_cnt` is 1).  A migration off `p2` frees that page.
  `pe_task_remove` says so, but `map_task_migrated` drops its result
  (`mapper.c:647`) and never calls `app_rem_failed`, as the handlers of ends and
  aborts do; it does not call `_map_verify_pending` either.  `failed_cnt` stays 1
  for good: in the trace the last other task ends afterwards,
  `_map_verify_pending` runs and returns at its test of `failed_cnt`, and the
  application waits for ever although all pages but that of the mapper are free.
* **mapper_no_halt.**  HALT_PE is sent by `_map_terminate_app` only.  When
  REQUEST_FINISH arrives after the last application has ended, nobody sends it.
* **placement_full.**  Three free pages, an application of three tasks, one of
  them static.  `_map_do` takes the static page first and then asks for a window
  with three free pages.  There is none; the window grows beyond the mesh.
* **brlite_cross.**  In a row of four routers the two in the middle have sent a
  message each and have `clear_local` set.  A message from the left and one from
  the right pass through them in opposite directions.  Each of the two waits in
  OUT_WAIT_ACK_PORTS for the other, and neither input leaves IN_INIT while
  `clear_local` is set, which it stays until the output rests.  The
  counterexample does not depend on the interval: it was also found with 80 and
  100 cycles.

Two findings limit what the passing runs may contain.  In `mapper_static`
nothing migrates while a static application waits (`NoOvercommit` would fail);
in `mapper_migrate` nothing is aborted, since `KernelsFit` and
`PagesOutliveTasks` would depend on a kernel that is not here.  In
`placement_search` the application with a static task always has a page to
spare in the window.  In `brlite_corners` two routers send.

### Bounds

* **Mapper.**  Two PEs with two or three pages and up to three applications of
  at most two tasks behind the management application: enough for an application
  to wait for one or two pages of a given PE while another holds them, for a
  task to migrate to and fro, for two applications to end in both orders, and
  for a third to find recycled pages.  The messages on their way are bounded by
  the protocol: no bound was added.
* **Placement.**  6 x 6 with two pages per PE, where windows of 3 x 3 have the
  columns and rows 0, 2 and 3, the last one by a clamped stride, and grow in both
  directions; four free PEs, three of them anywhere among those selected, force
  growth; 33 tasks force a first size of 4 x 5, whose search starts at (2, 1), and
  the next search with windows of 3 x 3 starts there too, off the raster.  Each
  application is placed once (`Started`).
* **BrLite.**  2 x 2 is the smallest mesh with two paths between routers, so
  that copies meet; the two senders may send at any relative time within the
  life of a message, which is what the phases of the handshakes depend on.  The
  interval is 40 or 50 cycles instead of 220: the flood of a 2 x 2 mesh ends
  well within it.  With an interval shorter than the flood, lines leak; the
  larger a mesh the longer its flood, while the code's interval is fixed.  The
  table has 4 lines for at most 4 messages in flight, and buffers of 4 do not
  fill.  `Prompt` makes the kernels of some routers send as soon as they may, to
  bound the number of relative times; `Poppers` are those that read their buffer,
  at any time.

* **Platform.**  2 x 2 with two tasks per PE in the monitor table, queues of 8,
  buffers of 16 and packets of up to 25 flits, which do not fit in them: packets
  wait in several routers at once, sends lose their credit and go back, and
  receive buffers run full.  Five plans of traffic and kernels that pause for 0,
  5, 6, 25 or 40 cycles.  With 5 and 6 a header arrives on the very edge on which
  a reception begins.  One task more reports than the table has lines, and one is removed
  meanwhile.
* **Processor.**  Four pages, tasks in pages 1 and 3 with pointers into pages 1
  and 2; time slices from 60 to 71 cycles, so that over the setups the timer
  expires at each phase of each instruction of interest; a slack window of 120
  cycles; one message that may come at any cycle.  Operands around the sign, the
  width and zero, with those where the results depart from RV32IM.  In the setup
  with a message both tasks hold the clock: after the message it sleeps for ever,
  as it should.
* **Applications.**  Those of small tasks (`MCInterleaved`) run in every order of
  their steps.  In the others all tasks that can go on do so at once: a task waits
  for a named peer and a pipe holds one message, so that what it sends and
  receives does not depend on the order.  Counts are those of the sources, with
  two exceptions: the producer of malicious2, whose loop is bounded by time,
  sends one to three messages (`MaxSends`), and quick_sort and the others sort
  arrays of 4 with numbers below 4, and one descending of 12 in place of the
  longer one of `sorting_util.h`.

`CHECK_DEADLOCK FALSE` is set in the runs of Mapper, Placement and BrLite: the mapper has nothing to do after
the halt, a load is exhausted when all its applications are placed, and a
network whose messages are cleared only ticks without change.

### Fairness

* Mapper: messages are delivered and handled (the event loop never blocks in a
  handler), injectors announce all applications of `app_start.txt`, kernels
  carry out orders, tasks end.  Nothing forces an abort or a migration.
* Placement: a handler does not stop in the middle; requests need not come.
* Platform and Processor: the clock of the test bench does not stop
  (`WF_clock(Edge)`).  All else follows from it, the kernels included.
* Applications: time goes on, and a kernel runs one of its tasks that can go on.
* BrLite: the clock runs; a kernel with a message to send reads BR_LOCAL_BUSY
  until it is free and sends.  Nothing forces a kernel to read its buffer.

### Properties worth a second look

`FailedCountExact` ties the counter that decides when a waiting application is
mapped to the pages it is promised, over any order of ends and aborts.
`AbortReachesTask` says no task of a released application is left running.
`PagesOutliveTasks` compares the mapper's lists with what the kernels hold, who
act before they report.  `GrowsOnlyWhenNoneFits` compares the two loops and the
final test of `wdo_from_last` with the set of all windows they should have
visited, for the searches that start on one of these; section 5 says what the
others do.  `WindowSuffices` is why `task_map` never returns the NULL that
`_map_do` would dereference.  `FreshHandshakes` is why the output side may leave
OUT_WAIT_ACK_PORTS without waiting for acknowledges to fall.
`ImplementsBroadcast` is once-only delivery in spite of copies.
`ClearsComeLast` says what the 220 cycles of CLEAR_INTERVAL are for, and what
nothing else in the code ensures: when the clear of a message reaches a router,
no router has still to send the message, and it is sent to none that has not
heard it.  With an interval of 15 both it and the promise fail on a 2 x 2 mesh;
with a table of one line, or a buffer of one, it fails although every message
is still heard once.  That it is enough is proved (section 4).
`PacketsArriveInOrder` is a refinement over everything between a kernel that
sends and one that receives: wormholes, credits a cycle late, sends that go
back, receive buffers that are full and empty in one cycle.  `InterruptPerPacket`
ties the counter behind the interrupt to the headers in the buffer.
`KernelsBehave` is the other half: a kernel that is interrupted for a packet, and
reads its size from words that came before, never starts on a wrong word nor
takes one too many.
`QueueNeverWraps` is about a credit decided before the flit on the wire is
stored.  `EverythingInjected` holds for each order of the processes of the
injectors, whose states last a cycle.  `EachTaskRunsAlone` is a refinement:
whatever the kernel, the interrupts and the other task do in between, each task
makes the steps of a machine of its own, if none of its instructions touches a CSR.
`InterruptsAreTaken` fails if what
wakes the clock and what interrupts are not the same.

## 4. Proofs

Every theorem holds for all values of the constants that its module's
assumptions admit.  A hypothesis beyond these is written in the theorem, and
said and justified here.

### Mapper

`MapperProofs` and `MapperPromises` prove about `Spec` of module `Mapper`, for any finite set of PEs and tasks, any number of applications, any
page count and any static mapping (`ConstantsAssumption`), with the management
tasks neither migrated nor aborted and the mapper itself mapped statically, as
the configuration guide requires (`ManagementAssumption`):

| Theorem | Says | If |
|---|---|---|
| `Invariance`, `TypeCorrect` | `[]Inv`, `[]TypeOK` | |
| `MigrationsExpected` | TASK_MIGRATED finds `old_pe` set and its page held | |
| `NoTaskDangles` | task lists hold tasks of listed applications only | |
| `PagesOutlive` | kernels hold tasks of listed applications only on pages the mapper keeps | |
| `IdentifiersFollow` | identifiers follow the order of injection | |
| `SlotsAgree` | the counters of pages agree with the lists | |
| `TerminatedForEver` | a terminated task stays terminated | |
| `WaitsToBeMapped` | a waiting application leaves its place only to be mapped whole, where it asked | |
| `HaltsOnce` | HALT_PE is sent once, after the request and with only the management application left | |
| `HaltsWhenDone` | no kernel has a task of a user application then | no aborts |
| `AbortsReach` | every task an abort ends is where its ABORT_TASK is sent | no migrations, or no aborts |
| `NeverOvercommits` | no counter of pages goes below zero | `Undisturbed` |
| `FailedCountIsExact` | `failed_cnt` counts the promised pages that are not free | `Undisturbed` |
| `KernelsHaveRoom` | no kernel holds more tasks than it has pages | `Undisturbed`, no aborts, `MaxTasks # 0` |

The hypotheses are those the code needs.  `Undisturbed` says that only the
management application is static, which is how the scenarios of the repository
are written, or that nothing migrates; without it `mapper_overcommit` shows a
counter below zero.  After an abort the mapper counts the pages of a task as free
when it sends the order, before the kernel carries it out, so that `KernelsHaveRoom`
and `HaltsWhenDone` need that there is none.  An abort that meets a migration
sends ABORT_TASK to the processor that the task has left (hazard at
`mapper.c:487`), so that `AbortsReach` speaks of systems without migrations;
where no application is aborted it holds because no such order is sent.

None of these is inductive as it stands.  That TASK_MIGRATED finds `old_pe`
needs to know, for each task, which combinations of the mapper's record, the
kernel's state and the messages on their way exist.  `Inv` says so: it splits
tasks into those of future applications, of the one being loaded and of released
ones (`FutureInv`, `LoadingInv`, `StartedInv`, `ListedInv`), ties the lists to
the records (`HeldInv`) and `allocated_cnt` to the tasks it counts
(`AllocatedInv`), and fixes the hand-over between injector and mapper
(`InjectionInv`).  One lemma per action shows it preserved, with the conjuncts
the action disturbs as steps; lemmas about `Released`, `Pushed` and `MapDo` are
shared by the handlers that use them.  `SlotsConserved` is about cardinalities:
`AccountsNext` proves that each handler removes from the lists exactly the pages
it adds to the counters, given `Inv`.

`EndInv` adds what becomes of tasks whose application is no longer listed:
unless they may have migrated, an order to abort them is on its way to where
they are (`LeftBehindInv`), and the management application stays, so that the
last to end is known (`ManagementInv`, `HaltInv`).  `PromisesInv` ties the three
counts of a waiting application together: per processor, `reserved` is the
number of its static tasks there, and `failed_cnt` is the number of pairs of a
processor and a rank between what is free and what is reserved (`Missing`).
Pairs, because `pe_task_remove` and `task_set_pe` move the counter one page at a
time: each page freed or taken adds or removes one pair at most.

Note that `SlotsAgree` holds even where `mapper_overcommit` finds a counter below
zero: the accounts agree, on a number no unsigned counter can have.

### Placement

`PlacementProofs` proves `GrowsLast`: a search turns to larger windows only when
it has tried all those of a size that sliding from the origin visits, for any
mesh, load and applications.  That the search started from one of these windows
is a condition of the property, not of the theorem: `_map_do` does not see to it,
and section 5 shows what happens otherwise.  The invariant says nothing of a
search that started elsewhere; of the others it says which windows have
been tried without success: in the loop up, those between the start and the
window now tried; at the origin, all from the start on; in the loop down, these
and those before the window.  The final test of the code, which compares the
window reached with the one it started from, then means that none is left.

### BrLite

`BrLiteProofs` and `BroadcastProofs` prove about `Spec` of `BrLite`, for any mesh,
table, buffer, number of identifiers, interval and messages:

| Theorem | Says | If |
|---|---|---|
| `NetworkInvariance`, `TypeCorrect` | `[]NetworkInv`, `[]TypeOK` | |
| `NothingInvented` | a kernel hears only what was sent before, to it | |
| `HandshakesAreFresh` | a port that requests meets no old acknowledge | |
| `ClearsFindTheirLines` | the last message of a kernel is in its table until its clear starts | `[]IdsAreFree` |
| `ClearsFindLinesBeforeWrap` | the same | no identifier is used twice |
| `DeliversOnce` | `BrLite` implements `Broadcast` | `[]ClearsComeLast` |

Two routers read each other's registers of the last cycle.  `NetworkInv` says
how far the two ends of a wire can be apart: an input that has seen a request
still has it when it looks at the message and writes it, it acknowledges only
the port it serves until that request falls, and the output that requests does
not change the message meanwhile.  From this follow `FreshHandshakes` and that
whatever is in a table, on a wire or in a buffer was written by a kernel
(`ContentInv`).

Identifiers wrap.  A clear of an older message that is still on a wire when its
identifier is given again erases the new message; `IdsAreFree` excludes just
this, and a network in which no kernel sends more than `ID_CNT` messages needs no
hypothesis.

That no destination hears a message twice is a matter of time: a router knows a
copy by its line, and the line is erased by the clear.  `ClearsComeLast` states
the timing and only that; it does not mention destinations or what was heard.
The run `brlite_corners` checks it for the interval.  Given it, `DeliversOnce`
shows by `DeliveryInv` that a message that a kernel has heard, or is about to
hear, stays in the table of its router as long as any copy of it is in the
network, so that `TEST_SPACE` drops every further copy.

### Hermes and Platform

`HermesProofs` proves `HermesInvariance` of `HermesAlone`: routers with any
environment on their outer ports, which may offer and take any flits in any
cycle, for any mesh and any queue of at least the assumed size; and, of
`HermesWhole(P)`, in which the environment keeps to the credits and offers only
the packets of a set `P`, each from its header to its tail:

| Theorem | Says |
|---|---|
| `HermesKeepsWhole` | in every queue, and over every link, flits follow one another as in the packets |
| `HermesDeliversToTarget` | what a router offers at its local port is of a packet sent to that router |

The invariant for it is `FlowInv`.  A queue keeps the flit that left it last in
the place behind `first`, since it never fills to the last place, so that order
within a queue, and between the counter and what is left of a packet, is a
statement about neighbouring places (`QueueFlow`).  A link is harder: the credit
that a sender sees was given a cycle before, and a flit that is offered under
credit has been copied already but leaves only on the next edge (`PassedOn`).
`LinkFlow` says that what came last on the other side is what was passed on, and
`SwitchFlow` that an output that is not free carries one packet, that of the
input that holds it.  `FlowStep` puts these together for a clock cycle of all
routers at once; it needs of the environment only `Credits` and `Offers`.

`PlatformProofs` and `PlatformPromises` prove about `Spec` of `Platform`, for any
mesh, places of the injectors at its rim, plans of traffic and applications, queues
of at least 4 places, any timer of the arbiter, and a receive buffer of at most the
16 places that the code gives it:

| Theorem | Says | If |
|---|---|---|
| `QueuesNeverWrap` | no queue takes a flit into its last free place | |
| `OutputsHeld` | an input whose packet goes through has an output to itself | |
| `KernelsReceiveByPacket` | each reception is programmed for one whole packet, and none reaches into the monitor table | `[]PacketsFit` |
| `PacketsArriveWhole` | what a kernel finds in its memory, when it goes to work on a packet, is a packet that was sent to it | `[]PacketsFit` |
| `InterruptsPerPacket` | the counter behind the interrupt is the number of packets in the buffer | `[]PacketsFit` |
| `TableIsKept` | the monitor table has the tasks and what they reported last | `[]PacketsFit` |

`PacketsFit` is about the packets as they are given to the network, not about what
becomes of them: each has at least the flits of a header, and no more after these
than the memory has place for.  The size of a task that an injector sends depends on
what the mapper answered, and what a kernel answers on what it received, so that it
cannot be an assumption on the constants; the run `platform` checks it as a part of
`KernelsBehave`.  That the injectors are at different ports on the rim, that reports
name tasks and that tasks write to no register of the transfers are assumptions of
`Platform`, which TLC evaluates.

`Platform` is an environment of `HermesAlone` (lemma `PlatformIsHermes`), so that
the first two hold whatever kernels, DMNI and injectors do:

* `QueuesNeverWrap`.  The credit of a queue is decided a cycle early, from
  `AlmostFull`, which compares the indexes and misses one case: `first = 0` with
  `last = BUFFER_TAM - 1`.  `QueueInv` has that this case never arises, since the
  flit that would lead to it is refused one place before.
* `OutputsHeld`.  Input queue, selected port, the tables `mux_in` and `mux_out`,
  and the two copies of `sender` a cycle apart agree on who has which output from
  the acknowledgement of a header until the control has seen the packet end
  (`SwitchInv`).

The others rest on one invariant, `SystemInv`: that of the routers, the two of the
DMNI below, and `WholeInv`, which follows each packet from the memory it is sent
from to the memory it is received in.  Neither half of it is inductive alone.  The
hardware counts and stores rightly if each reception starts when a packet has begun
to come, with an address, and takes no word of the next (`ReceivesByPacket`), and if
nothing is sent from or received into the table (`LeavesTable`).  But the kernel
computes what it programs from words that came through the same hardware, and these
are the right ones only if all before them were.  So `KernelsDo` derives both
conditions from `SystemInv` in one state, and `SystemKept` uses them for the next:

* A send (`SendInv`): the DMNI may offer a word that is not taken, and then goes back
  and loads it from the memory again, across the two areas of a packet and whenever
  the arbiter gives the memory to another.  `Progress` says of which packet and how
  many flits have been offered, so that the last flit in the queue of the router, the
  word on the wire, the address and both sizes agree in each state of the machine.
* An injector (`InjectInv`): its three processes read one another's states on the
  same edge in an order that nobody fixes.  `StageInv` says that the packet it is
  sending is not changed before it is through; `InjectorStep` goes through the
  orders.
* A reception (`WordsFlow`): words in the buffer follow one another, the first after
  the one in the memory port, the last before the one that the router offers
  (`Given`, which joins `WordsFlow` to `FlowInv`), and the machine that looks for
  headers agrees with them on where a packet ends.
* A kernel (`KernelInv`): for each command it still has to write, what the registers
  have by then; which part of which packet the reception has taken; and that the words
  before are in the memory, save one on its way (`Copying`, `Received`).  A size that
  is read then is that of the packet (`ArrivedIs`).

* `InterruptsPerPacket`.  The processes of the network and of the memory side work
  on the buffer in the same edge, one counts a header that comes, the other
  discounts the one whose reception begins.  `CountInv` relates the counter to the
  set of the places that hold a header.  The counter of the code has four bits:
  that it does not wrap needs `ApartInv`, that no two headers are next to each
  other, so that a full buffer of 16 has fewer than 16 of them (`FewHeaders`).
  The proof follows the ring when a word comes (`CameHeaders`), when one goes
  (`WentHeaders`), and when both happen in the same cycle.
* `TableIsKept`.  A report takes two writes in two cycles, and the arbiter, the
  acknowledge to the broadcast network, `ClearTask` of the kernel and a reception
  go on meanwhile.  `PhaseInv` says that a line being written holds the memory
  port until it ends and that the report stays at the front of the queue;
  `BeginsInv` and `FinishesInv` which half of the line is in the memory already;
  `OneLineInv` that no task has two lines; `RecordedInv` is the property for every
  line but the one being written.  `EnvironmentInv` has what is needed of the
  kernel's pending writes, the reports and the reception (`PlaceInv`: it writes
  below the table).  That writing one line leaves all others alone is arithmetic
  on their places (`LinesApart`).

### Left to TLC

* Liveness under fairness, which is out of the prover's reach, as is ENABLED:
  `EveryAppReleased`, `HaltsAfterApps`, `SearchEnds`, `EveryMessageHeard`,
  `TablesEmptied`, `EverythingArrives`, `EverythingInjected`, `InterruptsAreTaken`,
  `EveryTaskEnds`.
* `WindowSuffices` and `EveryTaskPlaced` of `Placement`: sums and orders
  over all tasks or PEs, which need an induction over data.  `WindowInMesh` is
  false on a full mesh (`placement_full`), and otherwise rests on such a sum.
* `Applications` and the modules it uses, whose programs and results are recursive.
* `Processor`: `RiscV` computes with the bits of words by the module Bitwise, whose
  operators are recursive.
* `PacketsArriveInOrder` of `Platform`.  That packets arrive whole at the kernels they
  are sent to is proved.  That each arrives once, and those between the same two
  endpoints in order, speaks of the packets of a sequence that have a receiver
  (`SelectSeq`), about which nothing can be proved without an induction over the
  sequence, and of routes of any length.  What arrives at the injectors is left to
  TLC too: they drop words that come in some states, and rely on the mapper not to
  send then.
* `ClearsComeLast`, a timing condition on the interval and the size of the mesh.

## 5. What the models brought to light

None of these is the finding of a run: no document says otherwise, what happens
then depends on software that is not here, or a property of a passing run names
the condition under which it holds.

* **Placement.**  `wdo_from_last` may grow the window although one of the size it
  has would fit.  Its two loops compare both coordinates with those of the window
  they start from, and so skip windows when that is not one of those that sliding
  from the origin visits.  In the instance of `placement_search`, 6 x 6 with two pages per
  PE: an application of 33 tasks is searched a window of 4 x 5, and leaves `last`
  at (2, 1); the next search with windows of 3 x 3 starts there, while the raster
  has the rows 0, 2 and 3, and never tries the window at (3, 2), where there are
  enough pages, before it takes a larger one.  So the comment `No window found`
  (`window.c:140`) is not true of every search, and neither is `Set the window
  based on the last one selected` (`mapper.c:123`): `last_x` and `last_y` are those
  of the last corner, not of a selected window.  `GrowsOnlyWhenNoneFits` claims the
  rule for searches that start on the raster and not for these; without that
  condition the same run violates it.  It costs distance between tasks, nothing
  else.
* **DMNI.**  A send that the arbiter takes the memory from in the very cycle it
  ends, while the reception only drops a message, leaves the arbiter in SEND
  until the next request.  The DMNI writes the value of a report before its task,
  so that the observer (`management/rt_monitor/src/main.c:58`), which reads them
  in the other order, may pair the task that had the line with the value of the
  one that has it now.  A report that
  finds the table full is dropped.
* **PE.**  `clock_stop` wakes the processor for messages, the timer and the slack
  monitor, not for `pending_service`: a kernel that asks for that interrupt
  while the clock is being held sleeps with it.  `pending_service` is missing in
  the sensitivity of `comb_assignments`; the local tick counter, which changes in
  every cycle in which the clock is not held, hides it.  A slack timer that nobody
  restarts stays at the end of its window, and the clock never stops again.
* **Applications.**  `master.c` of map_reduce receives the size of a pointer, 4
  bytes, into a buffer of 128 words of the heap, and then adds all 128, three times
  (lines 35 to 40): 127 of them are words nobody wrote, and the total it prints is
  right only if they happen to be zero.  The model adds them (`AddAll`), and
  `ResultsAreRight` claims no more than that the sums the workers send hold every
  slice once.  The five workers of dijkstra all have rank 0 (`dijkstra_0.c:49` to
  `dijkstra_4.c:49`) and compute the same first 24 of 120 pairs, which
  `divider.c:98` would have divided among them; `ResultsAreRight` checks the results
  they send, and the search they make for the other 96 pairs too.  Its search does
  not end on a graph that is not connected.  `split.c` of audio_video sends 16 bytes
  for 16 integers, of which `MessagesFit` waives the length.  The decryption of aes sends one block more than it has.  `config.yaml` of
  map_reduce and of fixe_base_test_16 names other communications than the tasks
  make.

## 6. Not modelled

* `map_request_service` changes nothing; it answers a question.
* The contents of messages and descriptors, and the lengths of messages to the
  mapper (a NEW_APP of more than 128 words does not fit its buffer).
* Allocation failures of the mapper, which the code marks with a todo.
* The five monitoring services of BrLite, which the local port hands to the
  DMNI instead of the buffer; a router treats them as TARGET.  `Platform` has
  their arrival at the DMNI.
* The walk of Sv32 page tables, which a kernel would have to ask for by MRAR and
  SATP; statistics, sniffer, debug output.
* What the filters of the media applications, AES and DTW compute: no call and no
  length depends on it.  sendraw_test, which drives the registers itself.
* The loop of the observer and the tables of the migration decider, which hand
  what they read to libraries that are not here; the decider's requests are
  inputs of `Mapper`.
* The Python tools: sequential scripts that copy files.
* Whatever the kernel decides: only its messages and accesses to registers are
  modelled.

## 7. Plan

Done: `Mapper`, `Placement`, `BrLite` over `Broadcast`, `Platform` over `Delivery`,
`Processor` over `TaskMachine`, `Applications`; of the properties of `Mapper`, `BrLite`
and `Platform`, all safety that holds is proved except the order of `Delivery` and
the timing of `ClearsComeLast`.

Proofs to add: that the protocol of mapper and injectors lets a packet come to an
injector only when it takes every word of it, as `EverythingInjected` and
`PacketsArriveInOrder` check on an instance; that an interval of a given length is
enough for `ClearsComeLast` on a mesh of a given size.

Models to add, as far as the code here decides what they do: the tables of the
migration decider, and the loop of the observer against the writes of `Dmni`.
