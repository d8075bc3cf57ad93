------------------------------ MODULE Platform ------------------------------
(***************************************************************************)
(* The platform: processing elements in a mesh, each with a router and a   *)
(* DMNI, and the two injectors at ports of the border (Memphis.cpp,        *)
(* PE.cpp).                                                                *)
(*                                                                         *)
(* The software that runs in the processing elements is not part of the    *)
(* platform.  Here it is what the platform needs to work: a kernel that    *)
(* sends and receives packets by writing to the registers of the DMNI, one *)
(* in a cycle, and a mapper that answers to the injectors.                 *)
(*                                                                         *)
(* Tick is a cycle of the clock, and fairness says that the clock does not *)
(* stop.  All that is left open is the order of the processes of the       *)
(* injectors, and the plan: what the tasks do once they run, and how long  *)
(* each kernel takes to do it.                                             *)
(***************************************************************************)
EXTENDS Hermes, SequencesExt

CONSTANTS
  CONSTANT_PACKET_SIZE, BUFFER_SIZE, DMNI_TIMER, TASK_PER_PE, TIME_BOUND,
  BODY_SIZE,       \* words of the largest payload
  MapperAddress,   \* where the mapper runs
  MonitorAddress,  \* where the monitor runs
  IoPe, IoPort,    \* the processing element and the port of each injector
  ma_start,        \* the management tasks: words of code of each
  app_start,       \* the applications
  Places,          \* where the mapper puts the tasks of each injector
  Plans            \* what may happen once the tasks run

VARIABLES
  clock,            \* the number of cycles, modulo 2
  arb, cfg, rcv, snd, mon, mem, mem_data_read,
  inj, order,
  kernel,           \* of each processing element
  mapper,           \* the mapper task
  plan,             \* what the tasks do
  mem_peripheral,   \* whether the port to the AppInjector is open
  reports,          \* the broadcast router of the monitor: requests to come, and whether there is one
  lastReport,       \* history: the last value of each task that was taken
  heard,            \* history: the flits of the packet an injector is receiving
  sent,             \* history: the packets each endpoint has begun to send
  received          \* history: the packets that have arrived at each endpoint

platformVars ==
  <<clock, fila, switch, arb, cfg, rcv, snd, mon, mem, mem_data_read, inj, order, kernel, mapper, plan,
    mem_peripheral, reports, lastReport, heard, sent, received>>

Seq_addr(r) == r[2] * XCnt + r[1]
PE(r) == <<r, LOCAL_PORT>>
EndpointOf(k) == <<IoPe[k], IoPort[k]>>

\* Words of the memory: what is to be sent, what is received, the table of the monitor.
OutHeader == 1
OutBody == OutHeader + CONSTANT_PACKET_SIZE
InHeader == OutBody + BODY_SIZE
InBody == InHeader + CONSTANT_PACKET_SIZE
MonTable == InBody + BODY_SIZE
RAM_SIZE == MonTable + XCnt * YCnt * TASK_PER_PE * 2

Tables == {"MON_TABLE_QOS"}

INSTANCE Dmni WITH
  Nodes <- Routers, SeqAddr <- Seq_addr, Void <- NoFlit, Count <- AsCount

INSTANCE Injector WITH Endpoint <- EndpointOf

Endpoints == {PE(r) : r \in Routers} \cup {EndpointOf(k) : k \in Injectors}

ASSUME PlatformAssumption ==
  /\ CONSTANT_PACKET_SIZE \in Nat /\ CONSTANT_PACKET_SIZE > 8 /\ BODY_SIZE \in Nat
  /\ BUFFER_SIZE \in 1 .. 16
  /\ {DMNI_TIMER, TASK_PER_PE} \subseteq Nat \ {0}
  /\ {MapperAddress, MonitorAddress, IoPe[MA], IoPe[App]} \subseteq Routers
  /\ \A k \in Injectors : IoPort[k] \in Ports \ {LOCAL_PORT} /\ ~IsLink(IoPe[k], IoPort[k])
  /\ EndpointOf(MA) # EndpointOf(App)
  /\ \A k \in Injectors : Places[k] \in Seq(Range(Places[k]))

\* The reports that come to the monitor, what the tasks send, and what they write of their
\* own: the monitor removes tasks from the table, but only its kernel says where the table is.
IsReports(s) ==
  s \in Seq(Range(s)) /\ \A b \in Range(s) : b.src \in Routers /\ b.task # NoTask
IsPlan(p) ==
  /\ IsReports(p[MonitorAddress].reports)
  /\ \A r \in Routers :
       LET sends == p[r].sends
           writes == p[r].writes
       IN  /\ p[r].pause \in Nat /\ sends \in Seq(Range(sends))
           /\ writes \in Seq(Range(writes)) /\ \A w \in Range(writes) : w.set \in {"nothing", "clear_task"}

ASSUME PlansAssumption == \A p \in Plans : IsPlan(p)

-----------------------------------------------------------------------------
(* The kernel.  todo are the registers it is going to write, outbox the    *)
(* packets it is going to send, reading the part of a packet it waits for. *)

Set(register, value) == [set |-> register, data |-> value]
Pause(n) == [i \in 1 .. n |-> NoCommand]

SendCommands(p) ==
  <<Set("address", OutHeader), Set("size", CONSTANT_PACKET_SIZE), Set("address_2", OutBody),
    Set("size_2", p.size + 2 - CONSTANT_PACKET_SIZE), Set("op", 0), Set("start", 0)>>
ReceiveCommands(address, size) ==
  <<Set("address", address), Set("size", size), Set("op", 1), Set("start", 0)>>

\* The words of a packet as the processor stores them before it is sent.
Stored(p) ==
  [a \in OutHeader .. OutBody - 1 \cup OutBody .. OutBody + p.size + 1 - CONSTANT_PACKET_SIZE |->
     Flits(p)[a - OutHeader + 1]]

InBox(r) == mem[r][InHeader][1]
BodySize(r) == AsCount(mem[r][InHeader + 1]) + 2 - CONSTANT_PACKET_SIZE

\* The packet in the memory, NoPacket if the words are not those of one.
Found(r) ==
  LET words == CONSTANT_PACKET_SIZE + BodySize(r)
  IN  IF \A i \in 1 .. words : mem[r][InHeader + i - 1] = <<InBox(r), i - 1>> THEN InBox(r) ELSE NoPacket

Free(r) == kernel[r].todo = <<>>
HeaderIn(r) == Free(r) /\ kernel[r].reading = "header" /\ ~rcv[r].receive_active
BodyIn(r) == Free(r) /\ kernel[r].reading = "body" /\ ~rcv[r].receive_active
Arrived(r) == BodyIn(r) \/ (HeaderIn(r) /\ BodySize(r) = 0)
Interrupted(r) == Free(r) /\ kernel[r].reading = "nothing" /\ intr(rcv[r])
MaySend(r) ==
  Free(r) /\ kernel[r].reading = "nothing" /\ ~intr(rcv[r]) /\ kernel[r].outbox # <<>> /\ ~snd[r].send_active

-----------------------------------------------------------------------------
(* The mapper.  pending are the messages it has for the injectors: each is *)
(* announced, and sent when it is asked for.  opens says that it has sent  *)
(* RELEASE_PERIPHERAL, which the broadcast network brings to all kernels.  *)

From(r, to, service, body, words) ==
  [from |-> PE(r), target |-> to[1], io |-> to[2], service |-> service, body |-> body,
   size |-> CONSTANT_PACKET_SIZE - 2 + words]

InjectorAt(e) == IF e = EndpointOf(MA) THEN MA ELSE App
FromMapper(to, service, body) == From(MapperAddress, to, service, body, Len(body))

AllocationRequest(k, n) ==
  <<"APP_ALLOCATION_REQUEST">> \o FoldLeft(LAMBDA s, id : s \o <<id - 1, Places[k][id]>>, <<>>, [i \in 1 .. n |-> i])

\* What is announced when a message is added to those pending.
Announce(m, to) == IF m.pending = <<>> THEN <<FromMapper(to, "DATA_AV", <<>>)>> ELSE <<>>
Pend(m, to, body) == [m EXCEPT !.pending = Append(m.pending, [to |-> to, body |-> body])]

\* The mapper does not load its own code.
Loaded(k) == IF k = MA THEN 2 .. Len(Places[k]) ELSE 1 .. Len(Places[k])
LastLoaded(m) == m.missing = 1
Releases(m) ==
  [i \in 1 .. Cardinality(Loaded(m.loading)) |->
     FromMapper(PE(Places[m.loading][SetToSortSeq(Loaded(m.loading), <)[i]]), "TASK_RELEASE", <<>>)]

MapperAfter(m, p) ==
  CASE p.service = "MESSAGE_DELIVERY" /\ p.body[1] = "NEW_APP" ->
         LET k == InjectorAt(p.from)
         IN  [Pend(m, p.from, AllocationRequest(k, p.body[2])) EXCEPT !.loading = k, !.missing = Cardinality(Loaded(k))]
    [] p.service = "MESSAGE_REQUEST" -> [m EXCEPT !.pending = Tail(m.pending)]
    [] p.service = "TASK_ALLOCATED" ->
         IF LastLoaded(m)
           THEN [Pend(m, EndpointOf(m.loading), <<"APP_MAPPING_COMPLETE">>) EXCEPT !.missing = 0, !.opens = TRUE]
         ELSE [m EXCEPT !.missing = m.missing - 1]
    [] OTHER -> m

MapperAnswers(m, p) ==
  CASE p.service = "DATA_AV" -> <<FromMapper(p.from, "MESSAGE_REQUEST", <<>>)>>
    [] p.service = "MESSAGE_DELIVERY" /\ p.body[1] = "NEW_APP" -> Announce(m, p.from)
    [] p.service = "MESSAGE_REQUEST" ->
         <<FromMapper(p.from, "MESSAGE_DELIVERY", Head(m.pending).body)>>
         \o IF Len(m.pending) > 1 THEN <<FromMapper(m.pending[2].to, "DATA_AV", <<>>)>> ELSE <<>>
    [] p.service = "TASK_ALLOCATED" /\ LastLoaded(m) -> Releases(m) \o Announce(m, EndpointOf(m.loading))
    [] OTHER -> <<>>

\* What another kernel answers.
KernelAnswers(r, p) ==
  CASE p.service = "TASK_ALLOCATION" /\ r # MapperAddress ->
         <<From(r, PE(MapperAddress), "TASK_ALLOCATED", <<>>, 0)>>
    [] p.service = "TASK_RELEASE" /\ mapper.loading = App ->
         [i \in DOMAIN plan[r].sends |->
            From(r, PE(plan[r].sends[i].to), "MESSAGE_DELIVERY", <<"DATA", i>>, plan[r].sends[i].words)]
    [] OTHER -> <<>>

KernelWrites(r, p) ==
  CASE p.service = "TASK_RELEASE" /\ r = MonitorAddress /\ mapper.loading = MA -> <<Set("MON_TABLE_QOS", MonTable)>>
    [] p.service = "TASK_RELEASE" /\ mapper.loading = App -> Pause(plan[r].pause) \o plan[r].writes
    [] OTHER -> <<>>

Answers(r, p) == IF r = MapperAddress THEN MapperAnswers(mapper, p) \o KernelAnswers(r, p) ELSE KernelAnswers(r, p)

-----------------------------------------------------------------------------
Kernel(r) ==
  LET k == kernel[r]
  IN  CASE ~Free(r) -> [k EXCEPT !.todo = Tail(k.todo)]
        [] Arrived(r) -> [k EXCEPT !.reading = "nothing", !.todo = KernelWrites(r, Found(r)),
                                   !.outbox = k.outbox \o Answers(r, Found(r))]
        [] HeaderIn(r) /\ ~Arrived(r) ->
             [k EXCEPT !.reading = "body", !.todo = ReceiveCommands(InBody, BodySize(r))]
        [] Interrupted(r) -> [k EXCEPT !.reading = "header",
                                       !.todo = Pause(plan[r].pause) \o ReceiveCommands(InHeader, CONSTANT_PACKET_SIZE)]
        [] MaySend(r) -> [k EXCEPT !.todo = SendCommands(Head(k.outbox)), !.outbox = Tail(k.outbox)]
        [] OTHER -> k

KernelClock ==
  /\ kernel' = [r \in Routers |-> Kernel(r)]
  /\ mapper' = IF Arrived(MapperAddress) THEN MapperAfter(mapper, Found(MapperAddress)) ELSE mapper
  /\ mem_peripheral' = (mem_peripheral \/ (mapper.opens /\ Free(IoPe[App])))

\* What the tasks do is decided when the mapper releases those of an application.
PlanClock ==
  IF Arrived(MapperAddress) /\ Found(MapperAddress).service = "TASK_ALLOCATED" /\ LastLoaded(mapper)
     /\ mapper.loading = App
    THEN /\ plan' \in Plans
         /\ reports' = [reports EXCEPT !.queue = reports.queue \o plan'[MonitorAddress].reports]
    ELSE /\ UNCHANGED plan
         /\ reports' = IF reports.req
              THEN IF mon[MonitorAddress].br_ack_mon
                     THEN [queue |-> Tail(reports.queue), req |-> FALSE] ELSE reports
              ELSE [reports EXCEPT !.req = reports.queue # <<>> /\ ~mon[MonitorAddress].br_ack_mon]

NoRequest == [req |-> FALSE, svc |-> "MON_TABLE_QOS", src |-> MapperAddress, task |-> NoFlit, payload |-> NoFlit]
Request(r) ==
  IF r = MonitorAddress /\ reports.req
    THEN LET b == Head(reports.queue)
         IN  [req |-> TRUE, svc |-> "MON_TABLE_QOS", src |-> b.src, task |-> b.task, payload |-> b.payload]
    ELSE NoRequest

-----------------------------------------------------------------------------
(* The wires.                                                              *)

IsIo(r, p) == \E k \in Injectors : EndpointOf(k) = <<r, p>>

\* The credit of what is at a port that leads to no router.
Outer(r, p) ==
  CASE p = LOCAL_PORT -> slot_available(rcv[r])
    [] IsIo(r, p) -> inj[InjectorAt(<<r, p>>)].credit
    [] OTHER -> FALSE

\* What is driven there.
Driven(r, p) ==
  CASE p = LOCAL_PORT -> <<snd'[r].tx, snd'[r].data_out>>
    [] IsIo(r, p) -> <<inj'[InjectorAt(<<r, p>>)].tx, inj'[InjectorAt(<<r, p>>)].data_out>>
    [] OTHER -> <<FALSE, NoFlit>>

\* An injector sees the credit of its port; AppInjector only once the port is open.
update_credit(k) == fila[IoPe[k]][IoPort[k]].credit /\ (k = MA \/ mem_peripheral)

Tx(e) == switch[e[1]].tx[e[2]]
Out(e) == data_out(switch[e[1]], fila[e[1]], e[2])

-----------------------------------------------------------------------------
(* History.                                                                *)

Begun(e) ==
  IF e[2] = LOCAL_PORT THEN IF MaySend(e[1]) THEN <<Head(kernel[e[1]].outbox)>> ELSE <<>>
  ELSE LET k == InjectorAt(e)
       IN  IF inj'[k].send = inj[k].send \/ inj[k].send = "WAIT_CREDIT" THEN <<>>
           ELSE IF inj'[k].send \in {"DATA_AV", "MSG_REQUEST"} THEN <<inj'[k].aux_pkt>>
           ELSE IF inj'[k].send = "PACKET" THEN <<inj'[k].packet>> ELSE <<>>

HeardNow(k) == IF Tx(EndpointOf(k)) /\ inj[k].credit THEN Append(heard[k], Out(EndpointOf(k))) ELSE heard[k]
EndsHearing(k) ==
  /\ inj[k].rcv \in {"DATA_AV", "MESSAGE_REQUEST", "MESSAGE_DELIVERY"}
  /\ inj'[k].rcv # inj[k].rcv

Whole(flits) == IF flits # <<>> /\ flits = Flits(flits[1][1]) THEN flits[1][1] ELSE NoPacket
Ended(e) ==
  IF e[2] = LOCAL_PORT THEN IF Arrived(e[1]) THEN <<Found(e[1])>> ELSE <<>>
  ELSE IF EndsHearing(InjectorAt(e)) THEN <<Whole(HeardNow(InjectorAt(e)))>> ELSE <<>>

HistoryClock ==
  /\ heard' = [k \in Injectors |-> IF EndsHearing(k) THEN <<>> ELSE HeardNow(k)]
  /\ sent' = [e \in Endpoints |-> sent[e] \o Begun(e)]
  /\ received' = [e \in Endpoints |-> received[e] \o Ended(e)]
  /\ lastReport' =
       IF mon[MonitorAddress].br_rcv_state = "BR_RCV_TASKID"
         THEN LET b == Head(reports.queue)
              IN  [e \in DOMAIN lastReport \cup {<<b.src, b.task>>} |->
                     IF e = <<b.src, b.task>> THEN b.payload ELSE lastReport[e]]
         ELSE lastReport

-----------------------------------------------------------------------------
NoPlan == [r \in Routers |-> [sends |-> <<>>, pause |-> 0, writes |-> <<>>, reports |-> <<>>]]

Init ==
  /\ clock = 0
  /\ HermesInit
  /\ DmniInit
  /\ InjectorInit(ma_start, app_start)
  /\ kernel = [r \in Routers |-> [todo |-> <<>>, outbox |-> <<>>, reading |-> "nothing"]]
  /\ mapper = [pending |-> <<>>, loading |-> MA, missing |-> 0, opens |-> FALSE]
  /\ plan = NoPlan
  /\ mem_peripheral = FALSE
  /\ reports = [queue |-> <<>>, req |-> FALSE]
  /\ lastReport = <<>>
  /\ heard = [k \in Injectors |-> <<>>]
  /\ sent = [e \in Endpoints |-> <<>>]
  /\ received = [e \in Endpoints |-> <<>>]

\* The edge of the clock that all processes wait for.
Edge == clock' = 1 - clock

Tick ==
  /\ Edge
  /\ DmniClock([r \in Routers |-> IF Free(r) THEN NoCommand ELSE Head(kernel[r].todo)],
               [r \in Routers |-> Request(r)],
               [r \in Routers |-> Tx(PE(r))], [r \in Routers |-> Out(PE(r))],
               [r \in Routers |-> fila[r][LOCAL_PORT].credit],
               [r \in Routers |-> IF MaySend(r) THEN Stored(Head(kernel[r].outbox)) ELSE <<>>])
  /\ InjectorClock([k \in Injectors |-> Tx(EndpointOf(k))], [k \in Injectors |-> Out(EndpointOf(k))],
                   [k \in Injectors |-> update_credit(k)])
  /\ HermesClock([r \in Routers |-> [p \in Ports |-> Outer(r, p)]],
                 [r \in Routers |-> [p \in Ports |-> Driven(r, p)]])
  /\ KernelClock
  /\ PlanClock
  /\ HistoryClock

Spec == Init /\ [][Tick]_platformVars /\ WF_clock(Edge)

-----------------------------------------------------------------------------
(* Properties.                                                             *)

\* The platform delivers packets as Delivery says: between the memory of a processing
\* element or an injector and another, through buffers, credits that come a cycle late,
\* transfers that are interrupted and taken up again, no packet is lost, torn, doubled or
\* overtaken by a later one (queue.cpp, switchcontrol.cpp, router_cc.cpp, DMNI.cpp).
Network == INSTANCE Delivery WITH From <- LAMBDA p : p.from, To <- LAMBDA p : <<p.target, p.io>>
PacketsArriveInOrder == Network!Spec

\* Everything that is sent arrives: wormhole packets that hold ports while they wait for
\* others never wait in a circle, and the reports, of which some find the table full, get
\* the memory although it is also used to send and to receive.
EverythingArrives ==
  []<>(reports.queue = <<>> /\ \A s \in Endpoints, d \in Endpoints : Network!Due(s, d) = <<>>)

\* MAInjector gets to its last state, and AppInjector, once it has injected all
\* applications and announced the end, has nothing left to do: no order of their processes
\* makes one of them miss a state of another that lasts one cycle.
EverythingInjected ==
  <>[](inj[MA].monitor = "BOOT_FINISHED" /\ inj[App].monitor = "IDLE" /\ inj[App].apps = <<>>
       /\ \A k \in Injectors : inj[k].send = "IDLE" /\ inj[k].rcv = "HEADER")

\* The credit of a queue is decided before the flit of the same cycle is stored, from indexes
\* that turn: no queue ever takes a flit into its last free place, after which it would
\* count as empty with all its flits lost (queue.cpp:34).
QueueNeverWraps ==
  [][\A r \in Routers, p \in Ports :
       fila'[r][p].last # fila[r][p].last => fila'[r][p].last # fila'[r][p].first]_fila

\* A packet that goes through a router has an output of its own until its last flit has
\* left: the tables of the two directions agree and the output is not free.
OutputsAreHeld ==
  \A r \in Routers, p \in Ports :
    fila[r][p].sender => /\ switch[r].mux_out[switch[r].mux_in[p]] = p
                         /\ ~switch[r].free[switch[r].mux_in[p]]

\* The counter behind the interrupt is the number of packets of which the buffer has the
\* header, without the one whose reception has begun: the processor is told of each packet
\* once, whatever arrives while it programs a reception (DMNI.cpp:340).
Words(q) ==
  {(q.first + i) % BUFFER_SIZE :
     i \in 0 .. (IF q.first = q.last THEN IF q.add_buffer THEN BUFFER_SIZE ELSE 0
                 ELSE (q.last - q.first) % BUFFER_SIZE) - 1}
BeingReceived(q) == q.DMNI_Receive = "COPY_TO_MEM" /\ read_av(q) /\ q.is_header[q.first]
InterruptPerPacket ==
  \A r \in Routers :
    LET headers == Cardinality({i \in Words(rcv[r]) : rcv[r].is_header[i]})
    IN  rcv[r].intr_count = headers - IF BeingReceived(rcv[r]) THEN 1 ELSE 0

\* The DMNI relies on the processor.  A reception starts when the packet has begun to come,
\* with an address, and it takes no word of the packet that follows.
Starts(r) ==
  ~Free(r) /\ Head(kernel[r].todo).set = "start" /\ cfg[r].operation = 1 /\ rcv[r].DMNI_Receive = "WAIT"
Comes(q) == read_av(q) \/ q.SR # "HEADER"
NextIsHeader(q) ==
  LET next == (q.first + 1) % BUFFER_SIZE
  IN  IF next = q.last THEN q.SR = "HEADER" ELSE q.is_header[next]
ReceivesByPacket ==
  \A r \in Routers :
    /\ Starts(r) => cfg[r].address # 0 /\ Comes(rcv[r])
    /\ rcv[r].DMNI_Receive = "COPY_TO_MEM" =>
         /\ Comes(rcv[r])
         /\ rcv[r].recv_size # 0 /\ read_av(rcv[r]) => ~NextIsHeader(rcv[r])

\* What is sent and received stays out of the table of the monitor.
LeavesTable ==
  LET r == MonitorAddress
  IN  /\ MaySend(r) => \A a \in DOMAIN Stored(Head(kernel[r].outbox)) : a < MonTable
      /\ Starts(r) => /\ cfg[r].address \in Nat /\ cfg[r].size \in Nat \ {0}
                      /\ cfg[r].address + cfg[r].size <= MonTable

\* Every packet has a header of the fixed size, and no payload larger than the place for it.
Fits(p) == p # NoPacket /\ p.size \in CONSTANT_PACKET_SIZE - 2 .. CONSTANT_PACKET_SIZE - 2 + BODY_SIZE
PacketsFit ==
  /\ \A e \in Endpoints : \A i \in DOMAIN sent[e] : Fits(sent[e][i])
  /\ \A r \in Routers : \A i \in DOMAIN kernel[r].outbox : Fits(kernel[r].outbox[i])

\* The processor programs every reception for one whole packet, from its header on, and
\* never over the table: the sizes that it reads from the memory are those of the packet,
\* although words come, go back and wait in the buffer meanwhile.
KernelsBehave == PacketsFit /\ ReceivesByPacket /\ LeavesTable

\* While no report is being written each line of the monitor's table that belongs to a task
\* has the task and the last value it reported, whoever used the memory in between.
TableFollowsReports ==
  LET m == mon[MonitorAddress]
      line(n, i) == MonTable + (Seq_addr(n) * TASK_PER_PE + i) * 2
  IN  m.br_rcv_state = "BR_RCV_IDLE" =>
        \A n \in Routers, i \in 0 .. TASK_PER_PE - 1 :
          m.mon_table[n][i] # NoTask =>
            /\ mem[MonitorAddress][line(n, i)] = m.mon_table[n][i]
            /\ mem[MonitorAddress][line(n, i) + 1] = lastReport[<<n, m.mon_table[n][i]>>]

=============================================================================
