------------------------- MODULE PlatformInvariant -------------------------
(***************************************************************************)
(* The inductive invariants of the platform.                               *)
(***************************************************************************)
EXTENDS Platform, HermesInvariant

-----------------------------------------------------------------------------
(* The buffer between network and memory.                                  *)

Cells == 0 .. BUFFER_SIZE - 1
NextCell(k) == (k + 1) % BUFFER_SIZE

BufferType(q) ==
  q \in [SR : {"HEADER", "PAYLOAD", "DATA"}, payload_size : {q.payload_size}, buffer : {q.buffer},
         is_header : [Cells -> BOOLEAN], first : Cells, last : Cells, add_buffer : BOOLEAN,
         DMNI_Receive : {"WAIT", "COPY_TO_MEM", "DROP_MESSAGE", "END"},
         recv_address : {q.recv_address}, recv_size : {q.recv_size}, receive_active : {q.receive_active},
         noc_data_write : {q.noc_data_write}, noc_we : {q.noc_we}, intr_count : 0 .. 15]

\* The places that hold a word, without the arithmetic of Words.
Holds(q, k) ==
  CASE q.first < q.last -> q.first <= k /\ k < q.last
    [] q.first > q.last -> q.first <= k \/ k < q.last
    [] OTHER -> q.add_buffer

Headers(q) == {k \in Cells : Holds(q, k) /\ q.is_header[k]}

\* A packet has a word after its header, so that no two headers are next to each other.
ApartInv(q) ==
  /\ \A k \in Cells :
       Holds(q, k) /\ NextCell(k) = q.last /\ q.is_header[k] => q.SR = "PAYLOAD"
  /\ \A k \in Cells :
       LET n == NextCell(k)
       IN  Holds(q, k) /\ Holds(q, n) /\ n # q.first => ~(q.is_header[k] /\ q.is_header[n])

CountInv(q) == q.intr_count = Cardinality(Headers(q)) - IF BeingReceived(q) THEN 1 ELSE 0

BufferInv(q) == BufferType(q) /\ ApartInv(q) /\ CountInv(q) /\ q.DMNI_Receive # "DROP_MESSAGE"

-----------------------------------------------------------------------------
(* The table of the monitor.                                               *)

Indexes == 0 .. TASK_PER_PE - 1
LineAt(n, i) == MonTable + (Seq_addr(n) * TASK_PER_PE + i) * 2
Pointer == cfg[MonitorAddress].monitor_ptrs["MON_TABLE_QOS"]
Reported == Head(reports.queue)

LinesType(t) == t = [n \in Routers |-> [i \in Indexes |-> t[n][i]]]
ReportType(m) ==
  /\ m \in [br_rcv_state : {"BR_RCV_IDLE", "BR_RCV_TASKID", "BR_RCV_END"}, br_ack_mon : BOOLEAN,
            br_mem_addr : {m.br_mem_addr}, br_mem_data : {m.br_mem_data}, br_we : BOOLEAN,
            mon_table : {m.mon_table}]
  /\ LinesType(m.mon_table)

ArbiterType(a) ==
  a \in [ARB : {"ROUND", "SEND", "RECEIVE", "BR_RECEIVE"}, last_arb : {"SEND", "RECEIVE", "BR_RECEIVE"},
         timer : {a.timer}]

\* The reception writes below the table.
PlaceInv(q) ==
  /\ q.noc_we \in BOOLEAN
  /\ q.noc_we => q.DMNI_Receive \in {"COPY_TO_MEM", "END"} /\ q.recv_address \in Int /\ q.recv_address < MonTable
  /\ q.DMNI_Receive = "COPY_TO_MEM" =>
       q.recv_address \in Int /\ q.recv_size \in Nat /\ q.recv_address + q.recv_size + 2 <= MonTable

\* What the kernel of the monitor is about to write.
OnlyTable(s) ==
  /\ s \in Seq(Range(s))
  /\ \A w \in Range(s) : w.set = "MON_TABLE_QOS" => w.data = MonTable

KernelType(k) == k \in [todo : {k.todo}, outbox : {k.outbox}, reading : {k.reading}]
ConfigType(c) ==
  c \in [address : {c.address}, address_2 : {c.address_2}, size : {c.size}, size_2 : {c.size_2},
         operation : {c.operation}, monitor_ptrs : [Tables -> {0, MonTable}]]

EnvironmentInv ==
  LET M == MonitorAddress
  IN  /\ KernelType(kernel[M]) /\ OnlyTable(kernel[M].todo)
      /\ IsPlan(plan)
      /\ ConfigType(cfg[M])
      /\ reports \in [queue : {reports.queue}, req : BOOLEAN]
      /\ IsReports(reports.queue) /\ (reports.req => reports.queue # <<>>)
      /\ BufferType(rcv[M]) /\ PlaceInv(rcv[M])

\* The writing of a line holds the port from when it begins until it has ended, and the
\* report is there all the while.
PhaseInv(m, a) ==
  /\ ReportType(m) /\ ArbiterType(a)
  /\ m.br_rcv_state = "BR_RCV_IDLE" => ~m.br_we
  /\ m.br_rcv_state # "BR_RCV_IDLE" => a.ARB = "BR_RECEIVE"
  /\ a.ARB = "BR_RECEIVE" /\ m.br_rcv_state # "BR_RCV_END" =>
       reports.req /\ ~m.br_ack_mon /\ Pointer = MonTable

\* The line that is being written.
Begins(m, n, i) == m.br_rcv_state = "BR_RCV_TASKID" /\ m.br_mem_addr = LineAt(n, i) + 1
Finishes(m, n, i) == m.br_rcv_state = "BR_RCV_END" /\ m.br_we /\ m.br_mem_addr = LineAt(n, i)

BeginsInv(m) ==
  m.br_rcv_state = "BR_RCV_TASKID" =>
    /\ m.br_we /\ m.br_mem_data = Reported.payload
    /\ \E i \in Indexes :
         /\ Begins(m, Reported.src, i) /\ m.mon_table[Reported.src][i] \in {Reported.task, NoTask}
         /\ \A j \in Indexes : m.mon_table[Reported.src][j] = Reported.task => j = i

HasLast(memory, last, n, task, address) ==
  <<n, task>> \in DOMAIN last /\ memory[address] = last[<<n, task>>]
Reports(n, task, address) == HasLast(mem[MonitorAddress], lastReport, n, task, address)

FinishesInv(m) ==
  m.br_rcv_state = "BR_RCV_END" /\ m.br_we =>
    \E n \in Routers, i \in Indexes :
      /\ Finishes(m, n, i) /\ m.mon_table[n][i] \in {m.br_mem_data, NoTask}
      /\ Reports(n, m.br_mem_data, m.br_mem_addr + 1)

OneLineInv(m) ==
  \A n \in Routers, i, j \in Indexes :
    m.mon_table[n][i] = m.mon_table[n][j] /\ m.mon_table[n][i] # NoTask => i = j

RecordedInv(m) ==
  \A n \in Routers, i \in Indexes :
    LET task == m.mon_table[n][i]
    IN  task # NoTask /\ ~Begins(m, n, i) /\ ~Finishes(m, n, i) =>
          mem[MonitorAddress][LineAt(n, i)] = task /\ Reports(n, task, LineAt(n, i) + 1)

MemoryType ==
  mem[MonitorAddress] = [a \in 0 .. RAM_SIZE - 1 |-> mem[MonitorAddress][a]]

TableInv ==
  LET m == mon[MonitorAddress]
  IN  /\ EnvironmentInv /\ MemoryType
      /\ PhaseInv(m, arb[MonitorAddress])
      /\ BeginsInv(m) /\ FinishesInv(m) /\ OneLineInv(m) /\ RecordedInv(m)

-----------------------------------------------------------------------------
(* Packets go whole from endpoint to endpoint.                             *)

SentPackets == UNION {Range(sent[e]) : e \in Endpoints}
SentTo(r) == {p \in SentPackets : IsFor(r, p)}

\* n flits of p have come, where last is the flit that came last.
Upto(last, p, n) == IF n = 0 THEN Ends(last) ELSE last = <<p, n - 1>>

\* Who has not offered a flit can rely on the credit for one cycle more.
CreditInv(q, tx) == ~tx /\ q.credit => ~AlmostFull(q)

-----------------------------------------------------------------------------
(* The transmission of a DMNI: q is the queue it sends to.                 *)

SendType(s) ==
  s \in [DMNI_Send : {"WAIT", "LOAD", "COPY_FROM_MEM", "END"}, send_address : {s.send_address},
         send_address_2 : {s.send_address_2}, send_size : {s.send_size}, send_size_2 : {s.send_size_2},
         send_active : BOOLEAN, tx : BOOLEAN, data_out : {s.data_out}]

InMemory(m, p) == \A i \in 0 .. p.size + 1 : m[OutHeader + i] = <<p, i>>

\* n flits of p have been offered, and all of them taken but perhaps the last.
Progress(s, p, n, q, data) ==
  /\ n \in 0 .. p.size + 2
  /\ IF s.send_size_2 # 0
       THEN /\ n <= CONSTANT_PACKET_SIZE /\ s.send_size = CONSTANT_PACKET_SIZE - n
            /\ s.send_size_2 = p.size + 2 - CONSTANT_PACKET_SIZE /\ s.send_address_2 = OutBody
       ELSE s.send_size = p.size + 2 - n
  /\ s.DMNI_Send = "LOAD" => ~s.tx /\ s.send_address = OutHeader + n /\ Upto(LastIn(q), p, n)
  /\ s.DMNI_Send = "COPY_FROM_MEM" =>
       /\ s.send_address = OutHeader + n + 1
       /\ s.send_size # 0 => data = <<p, n>>
       /\ IF s.tx THEN n # 0 /\ s.data_out = <<p, n - 1>> /\ Upto(LastIn(q), p, IF q.credit THEN n ELSE n - 1)
          ELSE q.credit /\ Upto(LastIn(q), p, n)
  /\ s.DMNI_Send = "END" => ~s.tx /\ Ends(LastIn(q))

SendInv(s, q, m, data, P) ==
  /\ SendType(s) /\ (s.send_active <=> s.DMNI_Send # "WAIT")
  /\ s.DMNI_Send = "WAIT" => ~s.tx /\ Ends(LastIn(q))
  /\ s.DMNI_Send # "WAIT" => \E p \in P : \E n \in 0 .. p.size + 2 : InMemory(m, p) /\ Progress(s, p, n, q, data)

-----------------------------------------------------------------------------
(* The reception of a DMNI.  P are the packets for its processor.          *)

PrevCell(k) == IF k = 0 THEN BUFFER_SIZE - 1 ELSE k - 1
LastPut(q) == q.buffer[PrevCell(q.last)]

\* The words of the buffer follow one another, and the one that has left last.
WordsFlow(q, P) ==
  /\ DOMAIN q.buffer = Cells
  /\ q.noc_data_write = NoFlit \/ IsFlit(q.noc_data_write, P)
  /\ LastPut(q) = NoFlit \/ IsFlit(LastPut(q), P)
  /\ \A k \in Cells :
       Holds(q, k) => /\ IsFlit(q.buffer[k], P) /\ (q.is_header[k] <=> q.buffer[k][2] = 0)
                      /\ k # q.first => Follows(q.buffer[PrevCell(k)], q.buffer[k])
  /\ IF read_av(q) THEN Follows(q.noc_data_write, q.buffer[q.first]) ELSE LastPut(q) = q.noc_data_write
  /\ q.SR = "HEADER" <=> Ends(LastPut(q))
  /\ q.SR = "PAYLOAD" <=> ~Ends(LastPut(q)) /\ LastPut(q)[2] = 0
  /\ q.SR = "DATA" => q.payload_size = LastPut(q)[1].size - LastPut(q)[2]

-----------------------------------------------------------------------------
(* The program of a kernel: commands that change no transfer, then those   *)
(* of a transfer.                                                          *)

Quiet(w) == w.set \in {"nothing", "clear_task", "MON_TABLE_QOS"}
AllQuiet(t) == \A i \in DOMAIN t : Quiet(t[i])
IsProgram(t, commands) ==
  \A i \in DOMAIN t :
    LET j == Len(t) - i
    IN  IF j < Len(commands) THEN t[i] = commands[Len(commands) - j] ELSE Quiet(t[i])

Programs(c, t, address, size) ==
  /\ IsProgram(t, ReceiveCommands(address, size))
  /\ Len(t) <= 3 => c.address = address
  /\ Len(t) <= 2 => c.size = size
  /\ Len(t) <= 1 => c.operation = 1

ProgramsSend(c, t, p) ==
  /\ IsProgram(t, SendCommands(p))
  /\ Len(t) <= 5 => c.address = OutHeader
  /\ Len(t) <= 4 => c.size = CONSTANT_PACKET_SIZE
  /\ Len(t) <= 3 => c.address_2 = OutBody
  /\ Len(t) <= 2 => c.size_2 = p.size + 2 - CONSTANT_PACKET_SIZE
  /\ Len(t) <= 1 => c.operation = 0

-----------------------------------------------------------------------------
(* The part of a packet a reception is for, and the words in the memory.   *)

\* noc_data_write is the last word that has been taken.
HeaderBegins(q) ==
  /\ q.DMNI_Receive = "COPY_TO_MEM" /\ Ends(q.noc_data_write) /\ read_av(q) /\ ~q.noc_we
  /\ q.recv_size = CONSTANT_PACKET_SIZE - 1 /\ q.recv_address = InHeader - 1
Copying(q, P, words) ==
  LET w == q.noc_data_write
  IN  /\ IsFlit(w, P)
      /\ q.DMNI_Receive # "WAIT" => q.recv_address = InHeader + w[2]
      /\ IF q.DMNI_Receive = "COPY_TO_MEM" THEN w[2] <= words - 2 /\ q.recv_size = words - 2 - w[2]
         ELSE w[2] = words - 1

\* The words of the packet that have been taken are in the memory, but one on its way.
Received(q, m) ==
  LET w == q.noc_data_write
  IN  \A i \in 0 .. w[2] : (i = w[2] /\ q.noc_we) \/ m[InHeader + i] = <<w[1], i>>

ConfigRecord(c) ==
  c \in [address : {c.address}, address_2 : {c.address_2}, size : {c.size}, size_2 : {c.size_2},
         operation : {c.operation}, monitor_ptrs : {c.monitor_ptrs}]

\* The kernel waits for no packet.  It may be programming a transmission.
RestsInv(t, c, q, s, m, P) ==
  /\ q.DMNI_Receive = "WAIT" /\ Ends(q.noc_data_write)
  /\ \/ AllQuiet(t)
     \/ s.DMNI_Send = "WAIT" /\ \E p \in P : InMemory(m, p) /\ ProgramsSend(c, t, p)

\* It waits for a header: it programs the reception, or the words come.
HeaderInv(t, c, q, m, Q) ==
  IF t # <<>>
    THEN /\ q.DMNI_Receive = "WAIT" /\ Ends(q.noc_data_write) /\ read_av(q)
         /\ Programs(c, t, InHeader, CONSTANT_PACKET_SIZE)
    ELSE HeaderBegins(q) \/ (Copying(q, Q, CONSTANT_PACKET_SIZE) /\ Received(q, m))

\* It waits for what follows the header.
BodyInv(t, c, q, m, Q) ==
  LET w == q.noc_data_write
      words == w[1].size + 2
  IN  /\ IsFlit(w, Q) /\ words > CONSTANT_PACKET_SIZE /\ Received(q, m)
      /\ IF t # <<>>
           THEN /\ q.DMNI_Receive = "WAIT" /\ w[2] = CONSTANT_PACKET_SIZE - 1
                /\ Programs(c, t, InBody, words - CONSTANT_PACKET_SIZE)
           ELSE Copying(q, Q, words) /\ w[2] >= CONSTANT_PACKET_SIZE - 1

KernelInv(k, c, q, s, m, P, Q) ==
  LET t == k.todo
  IN  /\ KernelType(k) /\ t \in Seq(Range(t)) /\ k.outbox \in Seq(Range(k.outbox)) /\ ConfigRecord(c)
      /\ k.reading \in {"nothing", "header", "body"}
      /\ k.reading = "nothing" => RestsInv(t, c, q, s, m, P)
      /\ k.reading = "header" => HeaderInv(t, c, q, m, Q)
      /\ k.reading = "body" => BodyInv(t, c, q, m, Q)

ReceiverInv(q, a) ==
  /\ q.receive_active = (q.DMNI_Receive # "WAIT")
  /\ q.noc_we \in BOOLEAN
  /\ q.noc_we => PortOwner(a) = "RECEIVE" /\ q.DMNI_Receive \in {"COPY_TO_MEM", "END"}

\* The processing elements that have no monitor write no report.
NoReports(r) ==
  r # MonitorAddress => ~mon[r].br_we /\ mon[r].br_rcv_state = "BR_RCV_IDLE" /\ arb[r].ARB # "BR_RECEIVE"

-----------------------------------------------------------------------------
(* The transmission of an injector: q is the queue it sends to.            *)

Driving == {"DATA_AV", "MSG_REQUEST", "PACKET"}
Waiting(k) == IF k = MA THEN {"BOOT_WAIT", "BOOT_TASKS", "BOOT_SEND"} ELSE {"SEND_NEW_APP", "SEND_TASK", "SEND_FINISH"}
Stage(i) == IF i.send = "WAIT_CREDIT" THEN i.last_state ELSE i.send
Current(i) == IF Stage(i) = "PACKET" THEN i.packet ELSE i.aux_pkt
NextIdx(i) == IF Stage(i) = "PACKET" THEN i.pkt_idx ELSE i.aux_idx

MonitorStates(k) ==
  Waiting(k) \cup IF k = MA THEN {"BOOT_INIT", "BOOT_MAP", "BOOT_CONFIRM", "BOOT_FINISHED"}
                 ELSE {"IDLE", "ACTIVE", "WAIT_TIME", "MAP"}
ReceiveStates ==
  {"HEADER", "PAYLOAD_SIZE", "SERVICE", "DATA_AV", "MESSAGE_REQUEST", "MESSAGE_DELIVERY", "WAIT_REQ", "WAIT_DLVR",
   "WAIT_ALLOCATION", "RECEIVE_MAPPING_COMPLETE"}
SendFields == {"packet", "pkt_idx", "aux_pkt", "aux_idx", "send", "last_state", "tx", "data_out"}
InjectorType(k, i) ==
  /\ SendFields \cup {"monitor", "rcv", "credit"} \subseteq DOMAIN i
  /\ i.monitor \in MonitorStates(k) /\ i.rcv \in ReceiveStates /\ i.credit \in BOOLEAN

\* The packet is there until it is sent.
StageInv(k, i, P) ==
  /\ i.send \in {"IDLE", "WAIT_REQUEST", "FINISHED"} \/ Stage(i) \in Driving
  /\ i.tx \in BOOLEAN
  /\ Stage(i) \in {"DATA_AV", "WAIT_REQUEST", "PACKET"} => i.monitor \in Waiting(k)
  /\ Stage(i) \in Driving => Current(i) \in P /\ NextIdx(i) \in 0 .. Current(i).size + 2
  /\ i.send \notin Driving => ~i.tx
  /\ i.tx \/ i.send = "WAIT_CREDIT" => NextIdx(i) # 0 /\ i.data_out = <<Current(i), NextIdx(i) - 1>>

InjectInv(k, i, q, open, P) ==
  /\ StageInv(k, i, P)
  /\ i.send # "IDLE" => open
  /\ i.send \in {"IDLE", "WAIT_REQUEST", "FINISHED"} => Ends(LastIn(q))
  /\ i.send = "WAIT_CREDIT" => Upto(LastIn(q), Current(i), NextIdx(i) - 1)
  /\ i.send \in Driving =>
       IF i.tx THEN Upto(LastIn(q), Current(i), IF q.credit THEN NextIdx(i) ELSE NextIdx(i) - 1)
       ELSE NextIdx(i) = 0 /\ q.credit /\ Ends(LastIn(q))

Opened(k) == k = MA \/ mem_peripheral
PortOf(k) == fila[IoPe[k]][IoPort[k]]

-----------------------------------------------------------------------------
ProcessorInv(r) ==
  LET q == fila[r][LOCAL_PORT]
  IN  /\ DOMAIN mem[r] = 0 .. RAM_SIZE - 1 /\ ArbiterType(arb[r]) /\ ReportType(mon[r])
      /\ CreditInv(q, snd[r].tx)
      /\ SendInv(snd[r], q, mem[r], mem_data_read[r], SentPackets)
      /\ Given(switch[r], fila[r], LOCAL_PORT, FALSE, LastPut(rcv[r]))
      /\ WordsFlow(rcv[r], SentTo(r))
      /\ KernelInv(kernel[r], cfg[r], rcv[r], snd[r], mem[r], SentPackets, SentTo(r))
      /\ ReceiverInv(rcv[r], arb[r]) /\ NoReports(r)

PeripheralInv(k) ==
  InjectorType(k, inj[k]) /\ CreditInv(PortOf(k), inj[k].tx) /\ InjectInv(k, inj[k], PortOf(k), Opened(k), SentPackets)

MapperInv ==
  mapper \in [pending : {mapper.pending}, loading : Injectors, missing : {mapper.missing}, opens : {mapper.opens}]

WholeInv ==
  /\ MapperInv /\ \A e \in Endpoints : sent[e] \in Seq(Range(sent[e]))
  /\ FlowInv(fila, switch, SentPackets)
  /\ \A r \in Routers : ProcessorInv(r)
  /\ order \in Orders /\ mem_peripheral \in BOOLEAN /\ \A k \in Injectors : PeripheralInv(k)

ArrivesWhole == \A r \in Routers : Arrived(r) => Found(r) \in SentTo(r)
=============================================================================
