-------------------------------- MODULE Dmni --------------------------------
(***************************************************************************)
(* The network interface with direct memory access of each processing      *)
(* element (DMNI.cpp), and the port of the memory that it uses (ram.cpp).  *)
(*                                                                         *)
(* It sends packets from the memory to the network, in one or two          *)
(* segments, receives packets from the network into the memory, through a  *)
(* buffer, and writes the reports that the broadcast network brings into   *)
(* tables in the memory.  The three share the one port of the memory: an   *)
(* arbiter gives it to them in turns.                                      *)
(*                                                                         *)
(* Each variable holds the registers of one process.  A process reads the  *)
(* registers as they were before the edge of the clock, so that DmniClock  *)
(* changes all of them at once.  The addresses are those of words: the     *)
(* WORD_SIZE of the code is 1 here.                                        *)
(***************************************************************************)
EXTENDS Integers, Sequences

CONSTANTS
  Nodes,         \* the processing elements, with
  SeqAddr(_),    \* the place of each in a table of all
  Void,          \* a word of no interest
  Count(_),      \* what a word says when it is read as a number of words
  Tables,        \* the tables of the monitoring services
  BUFFER_SIZE,   \* places of the buffer
  DMNI_TIMER,    \* cycles after which a transfer yields the memory to another
  TASK_PER_PE,   \* lines of a table for each processing element
  RAM_SIZE       \* words of the memory

VARIABLES
  arb,            \* the arbiter of the memory port
  cfg,            \* what the processor has configured
  rcv,            \* the reception: from the network to the buffer, from it to the memory
  snd,            \* the transmission
  mon,            \* the writing of reports
  mem,            \* the memory
  mem_data_read   \* the word read last from it

dmniVars == <<arb, cfg, rcv, snd, mon, mem, mem_data_read>>

\* A line without task: -1 in the code.
NoTask == Void

\* What the processor writes to a register, and a request of the broadcast network.
NoCommand == [set |-> "nothing", data |-> 0]

-----------------------------------------------------------------------------
(* The buffer between network and memory.  first = last when it is empty   *)
(* and when it is full; add_buffer says which of the last operations was   *)
(* an insertion.                                                           *)

slot_available(q) == ~(q.first = q.last /\ q.add_buffer)
read_av(q) == ~(q.first = q.last /\ ~q.add_buffer)

Put(q, word) ==
  [q EXCEPT !.buffer[q.last] = word, !.is_header[q.last] = (q.SR = "HEADER"), !.add_buffer = TRUE,
            !.last = (q.last + 1) % BUFFER_SIZE]

\* The side of the network: a word is taken whenever there is a place, and its part in
\* the packet is told by counting.  intr_count are the headers the processor has not
\* begun to receive; there is an interrupt while it is not 0.
FromNoc(q, rx, word) ==
  IF ~(rx /\ slot_available(q)) THEN q
  ELSE CASE q.SR = "HEADER"  -> [Put(q, word) EXCEPT !.SR = "PAYLOAD", !.intr_count = (q.intr_count + 1) % 16]
         [] q.SR = "PAYLOAD" -> [Put(q, word) EXCEPT !.SR = "DATA", !.payload_size = Count(word) - 1]
         [] q.SR = "DATA" /\ q.payload_size = 0 -> [Put(q, word) EXCEPT !.SR = "HEADER"]
         [] OTHER -> [Put(q, word) EXCEPT !.payload_size = q.payload_size - 1]

intr(q) == q.intr_count > 0

\* The removal of a word: q is the state before the edge, t what the side of the network
\* has made of it.
Take(q, t) ==
  [t EXCEPT !.first = (q.first + 1) % BUFFER_SIZE, !.add_buffer = FALSE, !.recv_size = q.recv_size - 1,
            !.DMNI_Receive = IF q.recv_size = 0 THEN "END" ELSE q.DMNI_Receive]

\* Fault: a header that comes on the edge on which a reception begins is not counted.
ToMemory_LostCount(q, t, c, start, write_enable) ==
  IF q.DMNI_Receive = "WAIT" /\ start /\ c.operation = 1
    THEN [t EXCEPT !.recv_address = c.address - 1, !.recv_size = c.size - 1, !.receive_active = TRUE,
                   !.intr_count = IF q.is_header[q.first] /\ q.intr_count > 0 THEN q.intr_count - 1 ELSE q.intr_count,
                   !.DMNI_Receive = "COPY_TO_MEM"]
    ELSE IF q.DMNI_Receive = "COPY_TO_MEM" /\ write_enable /\ read_av(q)
           THEN [Take(q, t) EXCEPT !.noc_we = TRUE, !.noc_data_write = q.buffer[q.first],
                                   !.recv_address = q.recv_address + 1]
    ELSE IF q.DMNI_Receive = "END"
           THEN [t EXCEPT !.receive_active = FALSE, !.noc_we = FALSE, !.DMNI_Receive = "WAIT"]
    ELSE [t EXCEPT !.noc_we = FALSE]

\* The side of the memory.
ToMemory(q, t, c, start, write_enable) ==
  CASE q.DMNI_Receive = "WAIT" ->
         IF ~(start /\ c.operation = 1) THEN t
         ELSE [t EXCEPT !.recv_address = c.address - 1, !.recv_size = c.size - 1, !.receive_active = TRUE,
                        !.intr_count = IF q.is_header[q.first] /\ t.intr_count > 0 THEN t.intr_count - 1
                                       ELSE t.intr_count,
                        !.DMNI_Receive = IF c.address = 0 THEN "DROP_MESSAGE" ELSE "COPY_TO_MEM"]
    [] q.DMNI_Receive = "COPY_TO_MEM" ->
         IF write_enable /\ read_av(q)
           THEN [Take(q, t) EXCEPT !.noc_we = TRUE, !.noc_data_write = q.buffer[q.first],
                                   !.recv_address = q.recv_address + 1]
           ELSE [t EXCEPT !.noc_we = FALSE]
    [] q.DMNI_Receive = "DROP_MESSAGE" ->
         LET u == IF read_av(q) THEN Take(q, t) ELSE t
         IN  [u EXCEPT !.noc_we = FALSE, !.noc_data_write = Void, !.recv_address = 0]
    [] q.DMNI_Receive = "END" ->
         [t EXCEPT !.receive_active = FALSE, !.noc_we = FALSE, !.recv_address = 0, !.recv_size = 0,
                   !.DMNI_Receive = "WAIT"]

receive(q, c, cmd, rx, word, write_enable) ==
  ToMemory(q, FromNoc(q, rx, word), c, cmd.set = "start", write_enable)

-----------------------------------------------------------------------------
(* The transmission.  The memory answers an address one cycle later, so    *)
(* the address runs ahead of the word sent.  When the port is taken away   *)
(* or the network has not taken the last word the address goes back.       *)

StartSend(s, c) ==
  [s EXCEPT !.send_address = c.address, !.send_address_2 = c.address_2, !.send_size = c.size,
            !.send_size_2 = c.size_2, !.send_active = TRUE, !.DMNI_Send = "LOAD"]

\* The next word, or the second block.  The code goes back a word for a block whose address
\* has one of the bits 28 to 30, which no address of the memory has.
NextWord(s, data) ==
  CASE s.send_size > 0 ->
         [s EXCEPT !.tx = TRUE, !.data_out = data, !.send_address = s.send_address + 1,
                   !.send_size = s.send_size - 1]
    [] s.send_size = 0 /\ s.send_size_2 > 0 ->
         [s EXCEPT !.tx = FALSE, !.send_size = s.send_size_2, !.send_size_2 = 0,
                   !.send_address = s.send_address_2, !.DMNI_Send = "LOAD"]
    [] OTHER -> [s EXCEPT !.tx = FALSE, !.DMNI_Send = "END"]

\* Fault: the last word is sent again although the network has taken it.
GoBack_AlwaysAgain(s, credit) ==
  [s EXCEPT !.tx = FALSE, !.DMNI_Send = "LOAD", !.send_address = s.send_address - 2, !.send_size = s.send_size + 1]

\* Fault: the address goes back to the word after the one that the network has not taken.
GoBack_OneBack(s, credit) ==
  [s EXCEPT !.tx = FALSE, !.DMNI_Send = "LOAD", !.send_address = s.send_address - 1,
            !.send_size = IF credit THEN @ ELSE @ + 1]

GoBack(s, credit) ==
  IF credit
    THEN [s EXCEPT !.tx = FALSE, !.DMNI_Send = "LOAD", !.send_address = s.send_address - 1]
    ELSE [s EXCEPT !.tx = FALSE, !.DMNI_Send = "LOAD", !.send_address = s.send_address - 2,
                   !.send_size = s.send_size + 1]

EndSend(s) ==
  [s EXCEPT !.send_active = FALSE, !.send_address = 0, !.send_address_2 = 0, !.send_size = 0,
            !.send_size_2 = 0, !.DMNI_Send = "WAIT"]

send(s, c, cmd, data, credit, read_enable) ==
  CASE s.DMNI_Send = "WAIT" -> IF cmd.set = "start" /\ c.operation = 0 THEN StartSend(s, c) ELSE s
    [] s.DMNI_Send = "LOAD" ->
         IF credit /\ read_enable
           THEN [s EXCEPT !.send_address = s.send_address + 1, !.DMNI_Send = "COPY_FROM_MEM"] ELSE s
    [] s.DMNI_Send = "COPY_FROM_MEM" ->
         IF credit /\ read_enable THEN NextWord(s, data) ELSE GoBack(s, credit)
    [] s.DMNI_Send = "END" -> EndSend(s)

-----------------------------------------------------------------------------
(* The writing of reports.  br is the request at the local port of the     *)
(* broadcast router: whether there is one, the table its service is for,   *)
(* the node it comes from, the task and the value.  A line of a table has  *)
(* the task first and the value second; the value is written first.        *)

Line(c, br, idx) == c.monitor_ptrs[br.svc] + (SeqAddr(br.src) * TASK_PER_PE + idx) * 2

LinesOf(m, n, task) == {i \in 0 .. TASK_PER_PE - 1 : m.mon_table[n][i] = task}
LineFor(m, br) ==
  LET lines == IF LinesOf(m, br.src, br.task) # {} THEN LinesOf(m, br.src, br.task)
               ELSE LinesOf(m, br.src, NoTask)
  IN  IF lines = {} THEN -1 ELSE CHOOSE i \in lines : \A j \in lines : i <= j

\* A request for a table the processor has not set is acknowledged and forgotten.
Acknowledge(m, c, br) ==
  CASE ~br.req -> [m EXCEPT !.br_ack_mon = FALSE]
    [] br.req /\ c.monitor_ptrs[br.svc] = 0 -> [m EXCEPT !.br_ack_mon = TRUE]
    [] OTHER -> m

\* Likewise one that finds no line.
BeginLine(m, c, br) ==
  LET idx == LineFor(m, br)
  IN  IF idx = -1
        THEN [m EXCEPT !.br_mem_data = br.payload, !.br_ack_mon = TRUE, !.br_rcv_state = "BR_RCV_END"]
        ELSE [m EXCEPT !.br_mem_data = br.payload, !.br_mem_addr = Line(c, br, idx) + 1, !.br_we = TRUE,
                       !.mon_table[br.src][idx] = br.task, !.br_rcv_state = "BR_RCV_TASKID"]

WriteLine(m, c, br, enable) ==
  CASE m.br_rcv_state = "BR_RCV_IDLE" -> IF enable THEN BeginLine(m, c, br) ELSE m
    [] m.br_rcv_state = "BR_RCV_TASKID" ->
         [m EXCEPT !.br_mem_data = br.task, !.br_mem_addr = m.br_mem_addr - 1, !.br_we = TRUE,
                   !.br_ack_mon = TRUE, !.br_rcv_state = "BR_RCV_END"]
    [] m.br_rcv_state = "BR_RCV_END" -> [m EXCEPT !.br_we = FALSE, !.br_rcv_state = "BR_RCV_IDLE"]

\* The first line, in the order of the nodes, that holds the task is given back.
ClearTask(m, task) ==
  LET nodes == {n \in Nodes : LinesOf(m, n, task) # {}}
      node == CHOOSE n \in nodes : \A o \in nodes : SeqAddr(n) <= SeqAddr(o)
      line == CHOOSE i \in LinesOf(m, node, task) : \A j \in LinesOf(m, node, task) : i <= j
  IN  IF nodes = {} THEN m ELSE [m EXCEPT !.mon_table[node][line] = NoTask]

br_receive(m, c, cmd, br, enable) ==
  LET w == WriteLine(Acknowledge(m, c, br), c, br, enable)
  IN  IF cmd.set = "clear_task" THEN ClearTask(w, cmd.data) ELSE w

-----------------------------------------------------------------------------
(* The arbiter.  A process may use the port while the arbiter is in its    *)
(* state, read_enable, write_enable and br_rcv_enable of the code.         *)

Turn(last) ==
  CASE last = "SEND" -> <<"RECEIVE", "BR_RECEIVE", "SEND">>
    [] last = "RECEIVE" -> <<"BR_RECEIVE", "SEND", "RECEIVE">>
    [] last = "BR_RECEIVE" -> <<"SEND", "RECEIVE", "BR_RECEIVE">>

Asks(who, q, s, m, c, br) ==
  CASE who = "RECEIVE" -> q.DMNI_Receive = "COPY_TO_MEM"
    [] who = "SEND" -> s.send_active
    [] who = "BR_RECEIVE" -> br.req /\ ~m.br_ack_mon /\ c.monitor_ptrs[br.svc] # 0

\* Fault: the port is taken away once the task is to be written.
Yields_Early(a, q, s, m) ==
  CASE a.ARB = "SEND" -> s.DMNI_Send = "END" \/ (a.timer >= DMNI_TIMER /\ q.receive_active)
    [] a.ARB = "RECEIVE" -> q.DMNI_Receive = "END" \/ (a.timer >= DMNI_TIMER /\ s.send_active)
    [] a.ARB = "BR_RECEIVE" -> m.br_rcv_state = "BR_RCV_TASKID"

Yields(a, q, s, m) ==
  CASE a.ARB = "SEND" -> s.DMNI_Send = "END" \/ (a.timer >= DMNI_TIMER /\ q.receive_active)
    [] a.ARB = "RECEIVE" -> q.DMNI_Receive = "END" \/ (a.timer >= DMNI_TIMER /\ s.send_active)
    [] a.ARB = "BR_RECEIVE" -> m.br_rcv_state = "BR_RCV_END"

\* The reports do not count the cycles.  The timer has eight bits.
Elapse(a) == IF a.ARB = "BR_RECEIVE" THEN a ELSE [a EXCEPT !.timer = (a.timer + 1) % 256]
Round(a) == [ARB |-> "ROUND", last_arb |-> a.ARB, timer |-> IF a.ARB = "BR_RECEIVE" THEN a.timer ELSE 0]

arbiter(a, q, s, m, c, br) ==
  IF a.ARB = "ROUND"
    THEN LET turn == Turn(a.last_arb)
             asking == {i \in 1 .. 3 : Asks(turn[i], q, s, m, c, br)}
         IN  IF asking = {} THEN a
             ELSE [a EXCEPT !.ARB = turn[CHOOSE i \in asking : \A j \in asking : i <= j]]
    ELSE IF Yields(a, q, s, m) THEN Round(a) ELSE Elapse(a)

-----------------------------------------------------------------------------
(* Configuration: one register in a cycle.  The first address and the      *)
(* first size clear the second ones.                                       *)

config(c, cmd) ==
  CASE cmd.set = "address"   -> [c EXCEPT !.address = cmd.data, !.address_2 = 0]
    [] cmd.set = "address_2" -> [c EXCEPT !.address_2 = cmd.data]
    [] cmd.set = "size"      -> [c EXCEPT !.size = cmd.data, !.size_2 = 0]
    [] cmd.set = "size_2"    -> [c EXCEPT !.size_2 = cmd.data]
    [] cmd.set = "op"        -> [c EXCEPT !.operation = cmd.data]
    [] cmd.set \in Tables    -> [c EXCEPT !.monitor_ptrs[cmd.set] = cmd.data]
    [] OTHER -> c

-----------------------------------------------------------------------------
(* The port of the memory.                                                 *)

PortOwner(a) == IF a.ARB = "ROUND" THEN a.last_arb ELSE a.ARB

mem_address_update(a, q, s, m) ==
  CASE PortOwner(a) = "SEND" -> [address |-> s.send_address, we |-> FALSE, data |-> Void]
    [] PortOwner(a) = "RECEIVE" -> [address |-> q.recv_address, we |-> q.noc_we, data |-> q.noc_data_write]
    [] PortOwner(a) = "BR_RECEIVE" -> [address |-> m.br_mem_addr, we |-> m.br_we, data |-> m.br_mem_data]

InRam(a) == a \in 0 .. RAM_SIZE - 1
read_b(memory, port, last) == IF InRam(port.address) THEN memory[port.address] ELSE last
write_b(memory, port) ==
  IF port.we /\ InRam(port.address) THEN [memory EXCEPT ![port.address] = port.data] ELSE memory

-----------------------------------------------------------------------------
DmniInit ==
  /\ arb = [n \in Nodes |-> [ARB |-> "ROUND", last_arb |-> "SEND", timer |-> 0]]
  /\ cfg = [n \in Nodes |->
       [address |-> 0, address_2 |-> 0, size |-> 0, size_2 |-> 0, operation |-> 0,
        monitor_ptrs |-> [t \in Tables |-> 0]]]
  /\ rcv = [n \in Nodes |->
       [SR |-> "HEADER", payload_size |-> 0, buffer |-> [i \in 0 .. BUFFER_SIZE - 1 |-> Void],
        is_header |-> [i \in 0 .. BUFFER_SIZE - 1 |-> FALSE], first |-> 0, last |-> 0, add_buffer |-> FALSE,
        DMNI_Receive |-> "WAIT", recv_address |-> 0, recv_size |-> 0, receive_active |-> FALSE,
        noc_data_write |-> Void, noc_we |-> FALSE, intr_count |-> 0]]
  /\ snd = [n \in Nodes |->
       [DMNI_Send |-> "WAIT", send_address |-> 0, send_address_2 |-> 0, send_size |-> 0, send_size_2 |-> 0,
        send_active |-> FALSE, tx |-> FALSE, data_out |-> Void]]
  /\ mon = [n \in Nodes |->
       [br_rcv_state |-> "BR_RCV_IDLE", br_ack_mon |-> FALSE, br_mem_addr |-> 0, br_mem_data |-> Void,
        br_we |-> FALSE, mon_table |-> [o \in Nodes |-> [i \in 0 .. TASK_PER_PE - 1 |-> NoTask]]]]
  /\ mem = [n \in Nodes |-> [a \in 0 .. RAM_SIZE - 1 |-> Void]]
  /\ mem_data_read = [n \in Nodes |-> Void]

\* A rising edge.  For each node: the register the processor writes, the request of the
\* broadcast network, what the router drives and whether it takes what it is driven, and
\* the words that the processor stores in the memory through its own port.
DmniClock(cmd, br, rx, word, credit, store) ==
  LET port == [n \in Nodes |-> mem_address_update(arb[n], rcv[n], snd[n], mon[n])]
  IN  /\ arb' = [n \in Nodes |-> arbiter(arb[n], rcv[n], snd[n], mon[n], cfg[n], br[n])]
      /\ cfg' = [n \in Nodes |-> config(cfg[n], cmd[n])]
      /\ rcv' = [n \in Nodes |-> receive(rcv[n], cfg[n], cmd[n], rx[n], word[n], arb[n].ARB = "RECEIVE")]
      /\ snd' = [n \in Nodes |->
                   send(snd[n], cfg[n], cmd[n], mem_data_read[n], credit[n], arb[n].ARB = "SEND")]
      /\ mon' = [n \in Nodes |-> br_receive(mon[n], cfg[n], cmd[n], br[n], arb[n].ARB = "BR_RECEIVE")]
      /\ mem' = [n \in Nodes |-> LET m == write_b(mem[n], port[n])
                                 IN  [a \in DOMAIN m |-> IF a \in DOMAIN store[n] THEN store[n][a] ELSE m[a]]]
      /\ mem_data_read' = [n \in Nodes |-> read_b(mem[n], port[n], mem_data_read[n])]

=============================================================================
