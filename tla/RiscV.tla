------------------------------- MODULE RiscV -------------------------------
(***************************************************************************)
(* The processor (RiscV.cpp): an RV32IM core with the privilege levels M,  *)
(* S and U that interprets one instruction after another.                  *)
(*                                                                         *)
(* The state is a record c.  An instruction is a record of its fields; imm *)
(* is the number that the bits of its format stand for, csr the register   *)
(* an address stands for.  Registers have XLEN bits; what the code says    *)
(* of bytes and of halves of a word is of XLEN / 4 and XLEN / 2 bits.      *)
(* The CSRs keep the places of their bits, up to XLEN of them.             *)
(*                                                                         *)
(* The thread of the code waits for the memory inside an instruction.      *)
(* c.at is where it waits, c.left the edges of its clock still to come.    *)
(* Sv32 is left out: memory is paged by the offset of MRAR or not at all.  *)
(***************************************************************************)
EXTENDS Integers, Sequences, Bitwise

CONSTANTS XLEN, PAGE_SIZE_BYTES

USER == 0
SUPERVISOR == 1
MACHINE == 3

-----------------------------------------------------------------------------
(* Words.                                                                  *)

Wrap(n) == n % 2^XLEN
Signed(v) == IF v >= 2^(XLEN - 1) THEN v - 2^XLEN ELSE v
Complement(v) == 2^XLEN - 1 - v

\* The bits of v from low on, as a number and replaced by one.
Field(v, low, width) == (v \div 2^low) % 2^width
WithField(v, low, width, n) == v - Field(v, low, width) * 2^low + n * 2^low
Bit(v, b) == Field(v, b, 1)

-----------------------------------------------------------------------------
(* Control and status registers: the level that they are for, whether they *)
(* are read only, the register behind, the bits that can be written, those *)
(* that are then set, and those that can be read.                          *)

Ones == 2^XLEN - 1
CsrRow(level, ro, reg, wmask_and, wmask_or, rmask) ==
  [level |-> level, ro |-> ro, reg |-> reg, wmask_and |-> wmask_and, wmask_or |-> wmask_or, rmask |-> rmask]
Plain(level, reg) == CsrRow(level, FALSE, reg, Ones, 0, Ones)
ReadOnly(reg) == CsrRow(3, TRUE, reg, Ones, 0, Ones)

CsrTable ==
  [misa      |-> CsrRow(3, FALSE, "misa", 0, 4352, Ones),
   mvendorid |-> ReadOnly("mvendorid"), marchid |-> ReadOnly("marchid"),
   mimpid    |-> ReadOnly("mimpid"),    mhartid |-> ReadOnly("mhartid"),
   mstatus   |-> CsrRow(3, FALSE, "mstatus", 6570, 0, 6570),
   mtvec     |-> CsrRow(3, FALSE, "mtvec", Ones - 3, 0, Ones),
   medeleg   |-> CsrRow(3, FALSE, "medeleg", Ones - 2048, 0, Ones - 2048),
   mideleg   |-> CsrRow(3, FALSE, "mideleg", Ones - 273, 0, Ones - 273),
   mip       |-> CsrRow(3, FALSE, "mip", 546, 0, 2730),
   mie       |-> CsrRow(3, FALSE, "mie", 2730, 0, 2730),
   mscratch  |-> Plain(3, "mscratch"),
   mepc      |-> CsrRow(3, FALSE, "mepc", Ones - 3, 0, Ones),
   mcause    |-> Plain(3, "mcause"), mtval |-> Plain(3, "mtval"),
   sstatus   |-> CsrRow(1, FALSE, "mstatus", 290, 0, 290),
   stvec     |-> CsrRow(1, FALSE, "stvec", Ones - 3, 0, Ones),
   sip       |-> CsrRow(1, FALSE, "mip", 546, 0, 546),
   sie       |-> CsrRow(1, FALSE, "mie", 546, 0, 546),
   sscratch  |-> Plain(1, "sscratch"),
   sepc      |-> CsrRow(1, FALSE, "sepc", Ones - 3, 0, Ones),
   scause    |-> Plain(1, "scause"), stval |-> Plain(1, "stval"), satp |-> Plain(1, "satp"),
   mrar      |-> Plain(3, "mrar")]

\* MISA of a reset has M; S and U are beyond XLEN.
ResetCsr ==
  [r \in {CsrTable[a].reg : a \in DOMAIN CsrTable} |-> IF r = "misa" THEN 4096 ELSE 0]

-----------------------------------------------------------------------------
(* Traps.                                                                  *)

Base(tvec) == (tvec \div 4) * 4

\* The status when a trap to a level is taken, with the previous level and enable kept.
MachineStatus(c) ==
  LET s == WithField(c.csr.mstatus, 11, 2, c.priv)
  IN  WithField(WithField(s, 7, 1, Bit(s, 3)), 3, 1, 0)
SupervisorStatus(c) ==
  LET s == WithField(c.csr.mstatus, 8, 1, c.priv)
  IN  WithField(WithField(s, 5, 1, Bit(s, 1)), 1, 1, 0)

ToMachine(c, cause, tval, epc, pc) ==
  [c EXCEPT !.priv = MACHINE, !.pc = pc,
            !.csr = [@ EXCEPT !.mcause = cause, !.mtval = tval, !.mepc = epc, !.mstatus = MachineStatus(c)]]
ToSupervisor(c, cause, tval, epc, pc) ==
  [c EXCEPT !.priv = SUPERVISOR, !.pc = pc,
            !.csr = [@ EXCEPT !.scause = cause, !.stval = tval, !.sepc = epc, !.mstatus = SupervisorStatus(c)]]

\* External, software and timer interrupts, those of machine level first.
ByPriority == <<11, 3, 7, 9, 1, 5>>
First(pending) ==
  LET k == CHOOSE k \in 1 .. 6 :
             Bit(pending, ByPriority[k]) = 1 /\ \A j \in 1 .. k - 1 : Bit(pending, ByPriority[j]) = 0
  IN  ByPriority[k]

Vector(tvec, code) == IF tvec % 4 = 1 THEN Base(tvec) + 4 * code ELSE Base(tvec)
CauseOf(code) == 2^(XLEN - 1) + code

\* Fault: the interrupted instruction is passed over.
handle_interrupts_Skip(c) ==
  LET enabled == c.csr.mip & c.csr.mie
      forMachine == enabled & Complement(c.csr.mideleg)
  IN  IF forMachine # 0 /\ (c.priv # MACHINE \/ Bit(c.csr.mstatus, 3) = 1)
        THEN ToMachine(c, CauseOf(First(forMachine)), 0, c.pc + 4, Vector(c.csr.mtvec, First(forMachine)))
      ELSE c

handle_interrupts(c) ==
  LET enabled == c.csr.mip & c.csr.mie
      forMachine == enabled & Complement(c.csr.mideleg)
      forSupervisor == enabled & c.csr.mideleg
  IN  IF forMachine # 0 /\ (c.priv # MACHINE \/ Bit(c.csr.mstatus, 3) = 1)
        THEN ToMachine(c, CauseOf(First(forMachine)), 0, c.pc, Vector(c.csr.mtvec, First(forMachine)))
      ELSE IF /\ forSupervisor # 0
              /\ c.priv = USER \/ (c.priv = SUPERVISOR /\ Bit(c.csr.mstatus, 1) = 1)
        THEN ToSupervisor(c, CauseOf(First(forSupervisor)), 0, c.pc, Vector(c.csr.stvec, First(forSupervisor)))
      ELSE c

INSTRUCTION_ADDRESS_MISALIGNED == 0
ILLEGAL_INSTRUCTION == 2
ECALL == [l \in {USER, SUPERVISOR, MACHINE} |-> 8 + l]

\* A trap comes back to the instruction after the one that caused it.  The value of an
\* instruction that is illegal is its word, of which the number is left out.
handle_exceptions(c, code) ==
  LET tval == IF code = INSTRUCTION_ADDRESS_MISALIGNED THEN c.pc ELSE 0
  IN  IF c.priv # MACHINE /\ Bit(c.csr.medeleg, code) = 1
        THEN ToSupervisor(c, code, tval, Wrap(c.pc + 4), Base(c.csr.stvec))
        ELSE ToMachine(c, code, tval, Wrap(c.pc + 4), Base(c.csr.mtvec))

-----------------------------------------------------------------------------
(* Memory.                                                                 *)

BareMode(c) ==
  \/ c.priv = MACHINE
  \/ Bit(c.csr.satp, XLEN - 1) = 0 /\ Bit(c.csr.mrar, 0) = 1
  \/ Bit(c.csr.mrar, 0) = 0 /\ c.priv = SUPERVISOR

\* The page that is told to the PE, and the address.
paging(c, address) ==
  CASE BareMode(c) -> [current_page |-> 0, address |-> address]
    [] ~BareMode(c) /\ Bit(c.csr.mrar, 0) = 0 ->
         [current_page |-> c.csr.mrar \div PAGE_SIZE_BYTES, address |-> address | c.csr.mrar]

MEM_READ == 2
MEM_WRITE == 1

mem_read(c, address, at) ==
  LET p == paging(c, address)
  IN  [c EXCEPT !.current_page = p.current_page, !.mem_address = p.address, !.at = at, !.left = MEM_READ]
mem_write(c, address, value, lanes) ==
  LET p == paging(c, address)
  IN  [c EXCEPT !.current_page = p.current_page, !.mem_address = p.address, !.mem_data_w = value,
                !.mem_byte_we = lanes, !.at = "store", !.left = MEM_WRITE]

Byte == XLEN \div 4
Half == XLEN \div 2

Aligned(name, address) ==
  CASE name \in {"lb", "lbu", "sb"} -> TRUE
    [] name \in {"lh", "lhu", "sh"} -> address % 2 = 0
    [] name \in {"lw", "sw"} -> address % 4 = 0

Extended(v, width) == IF Bit(v, width - 1) = 1 THEN v + 2^XLEN - 2^width ELSE v
Loaded(name, offset, word) ==
  LET byte == Field(word, offset * Byte, Byte)
      half == IF offset = 0 THEN Field(word, 0, Half) ELSE Field(word, Half, Half)
  IN  CASE name = "lb" -> Extended(byte, Byte)
        [] name = "lbu" -> byte
        [] name = "lh" -> Extended(half, Half)
        [] name = "lhu" -> half
        [] name = "lw" -> word

\* The value on all lanes, and the lanes that are written.
Lanes(name, offset) ==
  CASE name = "sb" -> {offset}
    [] name = "sh" -> IF offset = 0 THEN {0, 1} ELSE {2, 3}
    [] name = "sw" -> 0 .. 3
OnLanes(name, v) ==
  CASE name = "sb" -> (v % 2^Byte) * (1 + 2^Byte + 2^(2 * Byte) + 2^(3 * Byte))
    [] name = "sh" -> (v % 2^Half) * (1 + 2^Half)
    [] name = "sw" -> v

-----------------------------------------------------------------------------
(* Decoding.                                                               *)

Row(names, i) == names[i.funct3 + 1]
Unprivileged(i) == i.rs1 = 0 /\ i.rd = 0

decode_op_imm(i) ==
  CASE i.funct3 = 1 -> IF i.funct7 = 0 THEN "slli" ELSE "illegal"
    [] i.funct3 = 5 -> CASE i.funct7 = 32 -> "srai" [] i.funct7 = 0 -> "srli" [] OTHER -> "illegal"
    [] OTHER -> Row(<<"addi", "slli", "slti", "sltiu", "xori", "srli", "ori", "andi">>, i)
decode_op(i) ==
  CASE i.funct7 = 32 ->
         Row(<<"sub", "illegal", "illegal", "illegal", "illegal", "sra", "illegal", "illegal">>, i)
    [] i.funct7 = 1 -> Row(<<"mul", "mulh", "mulhsu", "mulhu", "div", "divu", "rem", "remu">>, i)
    [] i.funct7 = 0 -> Row(<<"add", "sll", "slt", "sltu", "xor", "srl", "or", "and">>, i)
    [] OTHER -> "illegal"
decode_branch(i) == Row(<<"beq", "bne", "illegal", "illegal", "blt", "bge", "bltu", "bgeu">>, i)
decode_load(i) == Row(<<"lb", "lh", "lw", "illegal", "lbu", "lhu", "illegal", "illegal">>, i)
decode_store(i) ==
  Row(<<"sb", "sh", "sw", "illegal", "illegal", "illegal", "illegal", "illegal">>, i)
decode_system(i) ==
  CASE i.funct3 # 0 ->
         Row(<<"illegal", "csrrw", "csrrs", "csrrc", "illegal", "csrrwi", "csrrsi", "csrrci">>, i)
    [] i.funct3 = 0 /\ i.funct7 = 9 /\ i.rd = 0 -> "sfence_vma"
    [] i.funct3 = 0 /\ Unprivileged(i) /\ <<i.funct7, i.rs2>> = <<0, 0>> -> "ecall"
    [] i.funct3 = 0 /\ Unprivileged(i) /\ <<i.funct7, i.rs2>> = <<0, 1>> -> "ebreak"
    [] i.funct3 = 0 /\ Unprivileged(i) /\ <<i.funct7, i.rs2>> = <<8, 2>> -> "sret"
    [] i.funct3 = 0 /\ Unprivileged(i) /\ <<i.funct7, i.rs2>> = <<8, 5>> -> "wfi"
    [] i.funct3 = 0 /\ Unprivileged(i) /\ <<i.funct7, i.rs2>> = <<24, 2>> -> "mret"
    [] OTHER -> "illegal"

decode(i) ==
  CASE i.opcode = "OP_IMM" -> decode_op_imm(i)
    [] i.opcode = "LUI" -> "lui"
    [] i.opcode = "AUIPC" -> "auipc"
    [] i.opcode = "OP" -> decode_op(i)
    [] i.opcode = "JAL" -> "jal"
    [] i.opcode = "JALR" /\ i.funct3 = 0 -> "jalr"
    [] i.opcode = "BRANCH" -> decode_branch(i)
    [] i.opcode = "LOAD" -> decode_load(i)
    [] i.opcode = "STORE" -> decode_store(i)
    [] i.opcode = "MISC_MEM" /\ i.funct3 = 0 -> "fence"
    [] i.opcode = "SYSTEM" -> decode_system(i)
    [] OTHER -> "illegal"

-----------------------------------------------------------------------------
(* Arithmetic.                                                             *)

ShiftRight(a, n) == a \div 2^n
srai(a, n) == WithField(ShiftRight(a, n), XLEN - 1 - n, n + 1, IF Bit(a, XLEN - 1) = 1 THEN 2^(n + 1) - 1 ELSE 0)

\* Products by halves: a product of words does not fit the numbers of TLC.
mul(a, b) == Wrap(a * (b % 2^Half) + ((a * (b \div 2^Half)) % 2^Half) * 2^Half)
mulhu(a, b) == ((a \div 2^Half) * b + ((a % 2^Half) * b) \div 2^Half) \div 2^Half

\* What C makes of signed numbers.
Abs(n) == IF n < 0 THEN 0 - n ELSE n
Quotient(n, d) == LET q == Abs(n) \div Abs(d) IN IF (n < 0) = (d < 0) THEN q ELSE 0 - q
Remainder(n, d) == n - d * Quotient(n, d)

div(a, b) ==
  CASE a = 0 -> 0
    [] a # 0 /\ b = 0 -> Ones
    [] a = 1 /\ Signed(b) = -1 -> a
    [] OTHER -> Wrap(Quotient(Signed(a), Signed(b)))
divu(a, b) == IF a = 0 THEN 0 ELSE IF b = 0 THEN Ones ELSE a \div b
rem(a, b) ==
  CASE a = 0 -> 0
    [] a # 0 /\ b = 0 -> a
    [] a = 1 /\ Signed(b) = -1 -> 0
    [] OTHER -> Wrap(Remainder(Signed(a), Signed(b)))
remu(a, b) == IF a = 0 THEN 0 ELSE IF b = 0 THEN a ELSE a % b

Flag(condition) == IF condition THEN 1 ELSE 0

\* All three products of which the upper half is kept are products of numbers without sign.
op(name, a, b) ==
  CASE name = "add" -> Wrap(a + b)
    [] name = "sub" -> Wrap(a - b)
    [] name = "sll" -> Wrap((a % 2^(XLEN - (b % XLEN))) * 2^(b % XLEN))
    [] name = "slt" -> Flag(Signed(a) < Signed(b))
    [] name = "sltu" -> Flag(a < b)
    [] name = "xor" -> a ^^ b
    [] name = "srl" -> ShiftRight(a, b % XLEN)
    [] name = "sra" -> srai(a, b % XLEN)
    [] name = "or" -> a | b
    [] name = "and" -> a & b
    [] name = "mul" -> mul(a, b)
    [] name \in {"mulh", "mulhsu", "mulhu"} -> mulhu(a, b)
    [] name = "div" -> div(a, b)
    [] name = "divu" -> divu(a, b)
    [] name = "rem" -> rem(a, b)
    [] name = "remu" -> remu(a, b)

\* The operation of each instruction with an immediate.
op_imm ==
  [addi |-> "add", slti |-> "slt", sltiu |-> "sltu", xori |-> "xor", ori |-> "or", andi |-> "and",
   slli |-> "sll", srli |-> "srl", srai |-> "sra"]

branch(name, a, b) ==
  CASE name = "beq" -> a = b
    [] name = "bne" -> a # b
    [] name = "blt" -> Signed(a) < Signed(b)
    [] name = "bge" -> Signed(a) >= Signed(b)
    [] name = "bltu" -> a < b
    [] name = "bgeu" -> a >= b

-----------------------------------------------------------------------------
(* Instructions: c after the one that c.instr is, or where it waits.       *)

next(c) == [c EXCEPT !.pc = Wrap(c.pc + 4)]
Put(c, v) == [c EXCEPT !.x[c.instr.rd] = v]
Jump(c, target) ==
  IF target % 4 # 0 THEN handle_exceptions(c, INSTRUCTION_ADDRESS_MISALIGNED) ELSE [c EXCEPT !.pc = target]
Link(c) == Put(c, Wrap(c.pc + 4))

\* What an instruction reads of a CSR and what it writes.
csr_helper(c, how, v, rw, reads) ==
  LET csr == CsrTable[c.instr.csr]
      old == c.csr[csr.reg] & csr.rmask
      new == CASE how = "write" -> v [] how = "set" -> old | v [] how = "clear" -> old & Complement(v)
      written == IF rw THEN [c EXCEPT !.csr[csr.reg] = (new & csr.wmask_and) | csr.wmask_or] ELSE c
  IN  IF (csr.ro /\ rw) \/ csr.level < c.priv THEN handle_exceptions(c, ILLEGAL_INSTRUCTION)
      ELSE next(IF reads THEN Put(written, old) ELSE written)

csrrw(c, v) == csr_helper(c, "write", v, TRUE, c.instr.rd # 0)
csrrs(c, v) == csr_helper(c, "set", v, c.instr.rs1 # 0, TRUE)
csrrc(c, v) == csr_helper(c, "clear", v, c.instr.rs1 # 0, TRUE)

\* TSR, TW and MPRV of the status are beyond XLEN.
sret(c) ==
  LET s == c.csr.mstatus
  IN  IF c.priv = USER THEN handle_exceptions(c, ILLEGAL_INSTRUCTION)
      ELSE [c EXCEPT !.priv = Bit(s, 8), !.pc = c.csr.sepc,
                     !.csr.mstatus = WithField(WithField(WithField(s, 1, 1, Bit(s, 5)), 5, 1, 1), 8, 1, USER)]
mret(c) ==
  LET s == c.csr.mstatus
  IN  IF c.priv # MACHINE THEN handle_exceptions(c, ILLEGAL_INSTRUCTION)
      ELSE [c EXCEPT !.priv = Field(s, 11, 2), !.pc = c.csr.mepc,
                     !.csr.mstatus = WithField(WithField(WithField(s, 3, 1, Bit(s, 7)), 7, 1, 1), 11, 2, USER)]

system(c, name) ==
  LET rs1 == c.x[c.instr.rs1]
  IN  CASE name = "ecall" -> handle_exceptions(c, ECALL[c.priv])
        [] name = "ebreak" -> next(c)
        [] name = "csrrw" -> csrrw(c, rs1)
        [] name = "csrrs" -> csrrs(c, rs1)
        [] name = "csrrc" -> csrrc(c, rs1)
        [] name = "csrrwi" -> csrrw(c, c.instr.rs1)
        [] name = "csrrsi" -> csrrs(c, c.instr.rs1)
        [] name = "csrrci" -> csrrc(c, c.instr.rs1)
        [] name = "sret" -> sret(c)
        [] name = "mret" -> mret(c)
        [] name \in {"wfi", "sfence_vma"} ->
             IF c.priv = USER THEN handle_exceptions(c, ILLEGAL_INSTRUCTION) ELSE next(c)

\* A load or a store waits, unless its address is not aligned.
Address(c) == Wrap(c.instr.imm + c.x[c.instr.rs1])
access(c, name) ==
  LET a == Address(c)
  IN  CASE ~Aligned(name, a) -> handle_exceptions(c, INSTRUCTION_ADDRESS_MISALIGNED)
        [] Aligned(name, a) /\ c.instr.opcode = "LOAD" -> mem_read(c, a - (a % 4), "load")
        [] Aligned(name, a) /\ c.instr.opcode = "STORE" ->
             mem_write(c, a - (a % 4), OnLanes(name, c.x[c.instr.rs2]), Lanes(name, a % 4))

execute(c) ==
  LET i == c.instr
      name == decode(i)
      rs1 == c.x[i.rs1]
  IN  CASE name = "illegal" -> handle_exceptions(c, ILLEGAL_INSTRUCTION)
        [] name # "illegal" /\ i.opcode = "OP_IMM" ->
             next(Put(c, op(op_imm[name], rs1, IF name \in {"slli", "srli", "srai"} THEN i.rs2 ELSE Wrap(i.imm))))
        [] name # "illegal" /\ i.opcode = "OP" -> next(Put(c, op(name, rs1, c.x[i.rs2])))
        [] name = "lui" -> next(Put(c, Wrap(i.imm)))
        [] name = "auipc" -> next(Put(c, Wrap(i.imm + c.pc)))
        [] name = "jal" -> Jump(Link(c), Wrap(i.imm + c.pc))
        [] name = "jalr" -> Jump(Link(c), LET r == Wrap(i.imm + rs1) IN r - (r % 2))
        [] name # "illegal" /\ i.opcode = "BRANCH" ->
             IF branch(name, rs1, c.x[i.rs2]) THEN Jump(c, Wrap(i.imm + c.pc)) ELSE next(c)
        [] name # "illegal" /\ i.opcode \in {"LOAD", "STORE"} -> access(c, name)
        [] name = "fence" -> next(c)
        [] name # "illegal" /\ i.opcode = "SYSTEM" -> system(c, name)

-----------------------------------------------------------------------------
(* The thread.                                                             *)

NoInstruction ==
  [opcode |-> "NONE", funct3 |-> 0, funct7 |-> 0, rd |-> 0, rs1 |-> 0, rs2 |-> 0, imm |-> 0, csr |-> "NONE"]

Reset(registers) ==
  [x |-> [r \in registers |-> 0], pc |-> 0, priv |-> MACHINE, csr |-> ResetCsr, instr |-> NoInstruction, current_page |-> 0,
   mem_address |-> 0, mem_data_w |-> 0, mem_byte_we |-> {}, at |-> "reset", left |-> 17]

\* Where the loop starts again.
Ready(c) == c.at = "ready"

\* The wait is over, with a word from the memory: as an instruction and as a number.
Resume(c, data) ==
  LET d == [c EXCEPT !.at = "ready"]
  IN  CASE c.at = "reset" -> d
        [] c.at = "fetch" -> execute([d EXCEPT !.instr = data.instr])
        [] c.at = "load" -> next(Put(d, Loaded(decode(c.instr), Address(c) % 4, data.number)))
        [] c.at = "store" -> next([d EXCEPT !.mem_byte_we = {}])

\* The head of the loop: an interrupt that is taken leaves no other enabled.
Head0(c) == [c EXCEPT !.x[0] = 0]
fetch(c) == mem_read(c, c.pc, "fetch")
Begin(c, intr_in) ==
  fetch(handle_interrupts([Head0(c) EXCEPT !.csr.mip = WithField(@, 11, 1, Flag(intr_in))]))

\* An edge of its clock.
cpu_edge(c, data, intr_in) ==
  IF c.left > 1 THEN [c EXCEPT !.left = c.left - 1]
  ELSE LET d == Resume(c, data) IN IF Ready(d) THEN Begin(d, intr_in) ELSE d

=============================================================================
