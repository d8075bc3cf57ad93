----------------------------- MODULE Processor -----------------------------
(***************************************************************************)
(* A processor in its processing element (PE.cpp): the memory, the         *)
(* registers in memory behind it, its interrupt and its clock.             *)
(*                                                                         *)
(* Tick is a cycle of the clock of the PE.  All of its processes read what *)
(* the signals were before the edge.  The clock of the processor is that   *)
(* clock unless it is held.                                                *)
(*                                                                         *)
(* The DMNI stays idle here.  What is left open is the instant at which    *)
(* the broadcast network brings a message, and the setup: what the memory  *)
(* holds.  Instructions lie in their own words: no program writes them.    *)
(***************************************************************************)
EXTENDS RiscV, FiniteSetsExt

CONSTANTS
  SLACK_MONITOR_WINDOW, RAM_SIZE,
  Tasks,       \* the tasks, by their pages
  Kernel,      \* the instructions of page 0
  Programs,    \* the instructions of a task, by the name of its program
  Listings,    \* the same, in assembler
  Setups       \* the programs of the tasks, the data, the number of messages

VARIABLES
  clock,            \* the number of cycles, modulo 2
  setup,
  cpu,
  cpu_mem_address_reg, cpu_mem_data_write_reg, cpu_mem_write_byte_enable_reg,
  irq_mask_reg, time_slice, pending_service, slack_update_timer,
  clock_aux,        \* whether the clock of the processor runs
  ram, data_read_ram,
  messages,         \* in the buffer of the broadcast network
  toCome,           \* messages still to come
  seen              \* history: the registers and the pc of each task when it last ran

peVars ==
  <<clock, setup, cpu, cpu_mem_address_reg, cpu_mem_data_write_reg, cpu_mem_write_byte_enable_reg, irq_mask_reg,
    time_slice, pending_service, slack_update_timer, clock_aux, ram, data_read_ram, messages, toCome, seen>>

ASSUME ProcessorAssumption ==
  /\ XLEN % 8 = 0 /\ XLEN \in 8 .. 16
  /\ {PAGE_SIZE_BYTES, SLACK_MONITOR_WINDOW} \subseteq Nat \ {0}
  /\ Tasks \subseteq Nat \ {0} /\ \A t \in Tasks : (t + 1) * PAGE_SIZE_BYTES <= RAM_SIZE

\* Tasks have no CSR instruction: csr_helper in RiscV.cpp refuses the registers of the
\* levels below that of the processor and not those above, so that nothing keeps a task that
\* has one from the registers of the kernel.
CsrInstructions == {"csrrw", "csrrs", "csrrc", "csrrwi", "csrrsi", "csrrci"}
ASSUME NoCsrInTasks ==
  \A p \in DOMAIN Listings : \A k \in DOMAIN Listings[p] : Listings[p][k].name \notin CsrInstructions

Registers == 0 .. 3
Page(t) == PAGE_SIZE_BYTES * t

IRQ_MASK == 8208
IRQ_STATUS_ADDR == 8224
TIME_SLICE_ADDR == 8288
CLOCK_HOLD == 8336
SLACK_TIME_MONITOR == 9072
PENDING_SERVICE_INTR == 9216
BR_POP == 9796

\* A word is a number or an instruction.
Number(n) == [number |-> n, instr |-> NoInstruction]
Code(i) == [number |-> 0, instr |-> i]

Init ==
  /\ clock = 0
  /\ setup \in Setups
  /\ cpu = Reset(Registers)
  /\ cpu_mem_address_reg = 0 /\ cpu_mem_data_write_reg = 0 /\ cpu_mem_write_byte_enable_reg = {}
  /\ irq_mask_reg = 0 /\ time_slice = 0 /\ pending_service = FALSE /\ slack_update_timer = 0
  /\ clock_aux = TRUE
  /\ ram = setup.ram /\ data_read_ram = Number(0)
  /\ messages = 0 /\ toCome = setup.messages
  /\ seen = [t \in Tasks |-> [x |-> [r \in Registers |-> 0], pc |-> 0]]

-----------------------------------------------------------------------------
(* Signals.                                                                *)

\* Fault: what a pointer has of another page stays in the address.
Remapped_Kept(current_page, address) == address

\* What a task has in its pointers of another page is replaced by its own;
\* the highest 4 bits stay.
Remapped(current_page, address) ==
  IF current_page = 0 \/ address < PAGE_SIZE_BYTES THEN address
  ELSE LET top == address - (address % 2^(XLEN - 4))
       IN  (top + (address % PAGE_SIZE_BYTES)) | (current_page * PAGE_SIZE_BYTES)

addr_a == Remapped(cpu.current_page, cpu.mem_address)

\* The word of the memory at an address.
Word(address) ==
  LET t == address \div PAGE_SIZE_BYTES
      n == (address % PAGE_SIZE_BYTES) \div 4 + 1
  IN  IF address \in DOMAIN ram THEN Number(ram[address])
      ELSE Code(IF t = 0 THEN Kernel[n] ELSE Programs[setup.programs[t]][n])

write_enable == cpu_mem_write_byte_enable_reg # {}
Written(register) == write_enable /\ cpu_mem_address_reg = register

irq_status ==
  {b \in {0, 1, 3, 6} :
     CASE b = 0 -> pending_service
       [] b = 1 -> slack_update_timer = SLACK_MONITOR_WINDOW
       [] b = 3 -> time_slice = 1
       [] b = 6 -> messages > 0}
irq == \E b \in irq_status : Bit(irq_mask_reg, b) = 1

cpu_mem_data_read ==
  CASE cpu_mem_address_reg = IRQ_MASK -> Number(irq_mask_reg)
    [] cpu_mem_address_reg = IRQ_STATUS_ADDR -> Number(MapThenSumSet(LAMBDA b : 2^b, irq_status))
    [] cpu_mem_address_reg = TIME_SLICE_ADDR -> Number(time_slice)
    [] OTHER -> data_read_ram

-----------------------------------------------------------------------------
(* The processes of an edge.                                               *)

\* The lanes of a word are replaced.
write_a ==
  ram' = IF cpu.mem_byte_we # {} /\ addr_a < RAM_SIZE
           THEN [ram EXCEPT ![addr_a] =
                   MapThenSumSet(LAMBDA l : Field(IF l \in cpu.mem_byte_we THEN cpu.mem_data_w ELSE @, l * Byte, Byte)
                                            * 2^(l * Byte), 0 .. 3)]
           ELSE ram
read_a == data_read_ram' = IF addr_a < RAM_SIZE THEN Word(addr_a) ELSE data_read_ram

sequential_attr ==
  /\ cpu_mem_address_reg' = cpu.mem_address
  /\ cpu_mem_data_write_reg' = cpu.mem_data_w
  /\ cpu_mem_write_byte_enable_reg' = cpu.mem_byte_we
  /\ irq_mask_reg' = IF Written(IRQ_MASK) THEN cpu_mem_data_write_reg % 256 ELSE irq_mask_reg
  /\ time_slice' = IF Written(TIME_SLICE_ADDR) THEN cpu_mem_data_write_reg
                   ELSE IF time_slice > 1 THEN time_slice - 1 ELSE time_slice
  /\ pending_service' = IF Written(PENDING_SERVICE_INTR) THEN cpu_mem_data_write_reg # 0 ELSE pending_service
  /\ slack_update_timer' = IF Written(SLACK_TIME_MONITOR) THEN cpu_mem_data_write_reg
                           ELSE IF slack_update_timer < SLACK_MONITOR_WINDOW THEN slack_update_timer + 1
                           ELSE slack_update_timer

\* The buffer takes a message unless it gives one away.
buffer_in ==
  LET pop == Written(BR_POP) /\ messages > 0
  IN  \E n \in {k \in 0 .. 1 : k <= toCome /\ (pop => k = 0)} :
        /\ messages' = messages + n - (IF pop THEN 1 ELSE 0)
        /\ toCome' = toCome - n

\* Fault: a message does not wake the processor.
Wake_Slept == time_slice = 1 \/ slack_update_timer = SLACK_MONITOR_WINDOW
Wake == messages > 0 \/ time_slice = 1 \/ slack_update_timer = SLACK_MONITOR_WINDOW

\* The process also runs when the clock falls: the next edge goes by what it sees then.
clock_stop == clock_aux' = (~Written(CLOCK_HOLD)' /\ (clock_aux \/ Wake'))

\* The state of the task when the processor is about to go on with it.
Observe(d) ==
  IF Ready(d) /\ d.priv = USER
    THEN [seen EXCEPT ![d.csr.mrar \div PAGE_SIZE_BYTES] = [x |-> Head0(d).x, pc |-> d.pc]]
    ELSE seen

RunCpu ==
  IF clock_aux
    THEN /\ cpu' = cpu_edge(cpu, cpu_mem_data_read, irq)
         /\ seen' = IF cpu.left > 1 THEN seen ELSE Observe(Resume(cpu, cpu_mem_data_read))
    ELSE UNCHANGED <<cpu, seen>>

Edge == clock' = 1 - clock

Tick ==
  /\ Edge
  /\ RunCpu /\ write_a /\ read_a /\ sequential_attr /\ buffer_in /\ clock_stop
  /\ UNCHANGED setup

\* The clock of the PE does not stop.
Spec == Init /\ [][Tick]_peVars /\ WF_clock(Edge)

-----------------------------------------------------------------------------
(* Properties.                                                             *)

\* Whatever interrupts it, whoever else runs on the processor and wherever its
\* pointers say that it lies: a task goes on as if it ran alone (cpu, handle_interrupts
\* and paging in RiscV.cpp, comb_assignments in PE.cpp).  Its instructions do what RV32IM
\* says but for the results that TaskMachine leaves open, and none of them is a CSR
\* instruction (NoCsrInTasks).
DataOf(t) == {a \in Page(t) .. Page(t + 1) - 1 : a - (a % 4) \in DOMAIN ram}
Alone == INSTANCE TaskMachine WITH
  program <- [t \in Tasks |-> Listings[setup.programs[t]]],
  memory <- [t \in Tasks |->
              [o \in {a - Page(t) : a \in DataOf(t)} |->
                 Field(ram[Page(t) + o - (o % 4)], (o % 4) * Byte, Byte)]]
EachTaskRunsAlone == Alone!Spec

\* A processor that waits with its clock held is woken for an interrupt: while one
\* stands, the handler is entered (clock_stop in PE.cpp, handle_interrupts in RiscV.cpp).
InterruptsAreTaken == irq ~> (~irq \/ cpu.priv = MACHINE)

\* A task without CSR instructions (NoCsrInTasks) writes to no page but its own, wherever its
\* pointers say that it lies (comb_assignments in PE.cpp).
StaysInItsPage ==
  [][cpu.priv = USER =>
       \A a \in DOMAIN ram : ram'[a] # ram[a] => a \div PAGE_SIZE_BYTES = cpu.csr.mrar \div PAGE_SIZE_BYTES]_ram
=============================================================================
