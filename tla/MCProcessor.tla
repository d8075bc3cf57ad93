---------------------------- MODULE MCProcessor ----------------------------
(***************************************************************************)
(* Words of 16 bits, 4 pages of 512 bytes: the kernel in page 0, a task    *)
(* in page 1 and in page 3.  Each program is a list in assembler, whose    *)
(* fields are those of the instruction set.                                *)
(***************************************************************************)
EXTENDS Processor, TLC

Item(name, rd, rs1, rs2, imm, csr) ==
  [name |-> name, rd |-> rd, rs1 |-> rs1, rs2 |-> rs2, imm |-> imm, csr |-> csr]
R(name, rd, rs1, rs2) == Item(name, rd, rs1, rs2, 0, "")
I(name, rd, rs1, imm) == Item(name, rd, rs1, 0, imm, "")
S(name, rs2, imm, rs1) == Item(name, 0, rs1, rs2, imm, "")
B(name, rs1, rs2, imm) == Item(name, 0, rs1, rs2, imm, "")
U(name, rd, imm) == Item(name, rd, 0, 0, imm, "")
C(name, rd, csr, rs1) == Item(name, rd, rs1, 0, 0, csr)
Shift(name, rd, rs1, n) == Item(name, rd, rs1, n, n, "")
Trap(name, rs2) == Item(name, 0, 0, rs2, 0, "")

Lists ==
  <<<<"OP_IMM", 0, <<"addi", "slli", "slti", "sltiu", "xori", "srli", "ori", "andi">>>>,
    <<"OP_IMM", 32, <<"", "", "", "", "", "srai", "", "">>>>,
    <<"OP", 0, <<"add", "sll", "slt", "sltu", "xor", "srl", "or", "and">>>>,
    <<"OP", 32, <<"sub", "", "", "", "", "sra", "", "">>>>,
    <<"OP", 1, <<"mul", "mulh", "mulhsu", "mulhu", "div", "divu", "rem", "remu">>>>,
    <<"LUI", 0, <<"lui">>>>, <<"AUIPC", 0, <<"auipc">>>>, <<"JAL", 0, <<"jal">>>>, <<"JALR", 0, <<"jalr">>>>,
    <<"BRANCH", 0, <<"beq", "bne", "", "", "blt", "bge", "bltu", "bgeu">>>>,
    <<"LOAD", 0, <<"lb", "lh", "lw", "", "lbu", "lhu">>>>, <<"STORE", 0, <<"sb", "sh", "sw">>>>,
    <<"MISC_MEM", 0, <<"fence">>>>,
    <<"SYSTEM", 0, <<"ecall", "csrrw", "csrrs", "csrrc", "", "csrrwi", "csrrsi", "csrrci">>>>,
    <<"SYSTEM", 0, <<"ebreak">>>>, <<"SYSTEM", 8, <<"sret">>>>, <<"SYSTEM", 8, <<"wfi">>>>,
    <<"SYSTEM", 24, <<"mret">>>>, <<"SYSTEM", 9, <<"sfence_vma">>>>, <<"CUSTOM", 0, <<"illegal">>>>>>

Encoding(name) ==
  LET l == CHOOSE l \in 1 .. Len(Lists) : \E k \in 1 .. Len(Lists[l][3]) : Lists[l][3][k] = name
      k == CHOOSE k \in 1 .. Len(Lists[l][3]) : Lists[l][3][k] = name
  IN  [opcode |-> Lists[l][1], funct7 |-> Lists[l][2], funct3 |-> k - 1]

Encode(i) ==
  LET e == Encoding(i.name)
  IN  [opcode |-> e.opcode, funct7 |-> e.funct7, funct3 |-> e.funct3,
       rd |-> i.rd, rs1 |-> i.rs1, rs2 |-> i.rs2, imm |-> i.imm, csr |-> i.csr]
Assembled(program) == [k \in 1 .. Len(program) |-> Encode(program[k])]

-----------------------------------------------------------------------------
(* The kernel.  A task has a record of 7 words: registers 1 to 3, pc, the  *)
(* record of the next task, its page, its time slice.                      *)

TCB1 == 416
TCB2 == 448
Slack == 480

MachineBoot(boot, handler) ==
  <<I("addi", 1, 0, handler), C("csrrw", 0, "mtvec", 1),
    I("addi", 1, 0, 256), C("csrrw", 0, "medeleg", 1),
    U("lui", 1, 4096), Shift("srli", 1, 1, 1), C("csrrs", 0, "mie", 1), C("csrrw", 0, "mstatus", 1),
    U("lui", 2, 8192), I("addi", 1, 0, 75), S("sw", 1, 16, 2),
    I("lw", 1, 0, Slack), S("sw", 1, 880, 2),
    I("addi", 1, 0, TCB1), C("csrrw", 0, "mscratch", 1), I("lw", 1, 1, 20), C("csrrw", 0, "mrar", 1),
    I("addi", 1, 0, boot), C("csrrw", 0, "mepc", 1), Trap("mret", 2)>>

SupervisorBoot(handler) ==
  <<I("addi", 1, 0, handler), C("csrrw", 0, "stvec", 1), C("csrrw", 0, "sscratch", 2), C("csrrwi", 0, "sepc", 0),
    I("lw", 1, 0, TCB1 + 24), S("sw", 1, 96, 2),
    I("addi", 1, 0, 0), I("addi", 2, 0, 0), I("addi", 3, 0, 0), Trap("sret", 2)>>

\* It saves the task, takes the message and the request, and goes on with the next task.
MachineHandler ==
  <<C("csrrw", 1, "mscratch", 1), S("sw", 2, 4, 1), S("sw", 3, 8, 1), C("csrrs", 2, "mscratch", 0),
    S("sw", 2, 0, 1), C("csrrs", 2, "mepc", 0), S("sw", 2, 12, 1),
    U("lui", 2, 8192), I("lw", 3, 2, 32), I("andi", 3, 3, 64), B("beq", 3, 0, 8), S("sw", 0, 1604, 2),
    S("sw", 0, 1024, 2), I("lw", 3, 0, Slack), S("sw", 3, 880, 2),
    C("csrrs", 3, "mstatus", 0), Shift("srli", 3, 3, 11), B("bne", 3, 0, 8), I("lw", 1, 1, 16),
    C("csrrw", 0, "mscratch", 1), I("lw", 3, 1, 20), C("csrrw", 0, "mrar", 3),
    I("lw", 3, 1, 24), S("sw", 3, 96, 2), I("lw", 3, 1, 12), C("csrrw", 0, "mepc", 3),
    I("lw", 2, 1, 4), I("lw", 3, 1, 8), I("lw", 1, 1, 0), Trap("mret", 2)>>

\* It waits for an interrupt or asks for one, and counts the call.
SupervisorHandler ==
  <<C("csrrw", 1, "sscratch", 1), B("bne", 2, 0, 12), S("sw", 1, 1024, 1), U("jal", 0, 8), S("sw", 0, 144, 1),
    I("addi", 3, 3, 1), C("csrrw", 1, "sscratch", 1), Trap("sret", 2)>>

MCKernel == Assembled(MachineBoot(80, 120) \o SupervisorBoot(240) \o MachineHandler \o SupervisorHandler)

-----------------------------------------------------------------------------
(* The tasks.  Each has two words of data.                                 *)

Load == <<I("lw", 1, 0, 496), I("lw", 2, 0, 500)>>
Each(names) == [k \in 1 .. Len(names) |-> R(names[k], 3, 1, 2)]

\* Operations of the two words of data.
Op == Load \o Each(<<"add", "sub", "sll", "slt", "sltu", "xor", "srl", "sra", "or", "and", "mul">>)
High == Load \o Each(<<"mulh", "mulhsu", "mulhu">>)
Div == Load \o Each(<<"div", "divu", "rem", "remu">>)
Imm ==
  Load \o
  <<I("addi", 3, 1, -7), I("slti", 3, 1, -1), I("sltiu", 3, 1, -1), I("xori", 3, 1, -2048), I("ori", 3, 1, 1365),
    I("andi", 3, 1, -256), Shift("slli", 3, 1, 5), Shift("srli", 3, 1, 3), Shift("srai", 3, 1, 3),
    U("lui", 3, -4096), U("auipc", 3, 8192)>>
Flow ==
  Load \o
  <<B("beq", 1, 2, 8), I("addi", 3, 3, 1), B("bne", 1, 2, 8), I("addi", 3, 3, 2), B("blt", 1, 2, 8),
    I("addi", 3, 3, 4), B("bge", 1, 2, 8), I("addi", 3, 3, 8), B("bltu", 1, 2, 8), I("addi", 3, 3, 16),
    B("bgeu", 1, 2, 8), I("addi", 3, 3, 32),
    U("jal", 3, 8), Trap("illegal", 0), I("jalr", 2, 3, 12), Trap("illegal", 0)>>

\* Through the pointer in the second word; some accesses are not aligned.
Mem ==
  Load \o
  <<I("lb", 3, 2, 0), I("lb", 3, 2, 1), I("lbu", 3, 2, 1), I("lh", 3, 2, 0), I("lh", 3, 2, 2), I("lhu", 3, 2, 2),
    I("lh", 3, 2, 1), I("lw", 3, 2, 2), S("sb", 1, 3, 2), S("sb", 1, 0, 2), S("sh", 1, 2, 2), S("sh", 1, 1, 2),
    S("sw", 2, 6, 2), S("sw", 2, 0, 2), I("lw", 3, 2, 0), S("sh", 3, 4, 2)>>

\* A jump to the address in the first word, and a loop that counts in memory.
Loop ==
  Load \o
  <<I("jalr", 2, 1, 0), Trap("illegal", 0),
    I("addi", 3, 3, 1), S("sw", 3, 500, 0), I("addi", 2, 0, 9), I("lw", 3, 0, 500), B("bne", 3, 2, -16)>>

\* What asks for the kernel, and what the kernel refuses.
Calls ==
  <<Trap("ecall", 0), Trap("fence", 0), Trap("ebreak", 1), Trap("illegal", 0), I("addi", 2, 0, 1), Trap("ecall", 0),
    Trap("wfi", 5), Trap("sret", 2), Trap("mret", 2), Trap("sfence_vma", 0), Trap("ecall", 0)>>

Ended(program) == program \o <<U("jal", 0, 0)>>
MCListings ==
  [op |-> Ended(Op), high |-> Ended(High), div |-> Ended(Div), imm |-> Ended(Imm), flow |-> Ended(Flow),
   mem |-> Ended(Mem), loop |-> Ended(Loop), calls |-> Ended(Calls)]
MCPrograms == [p \in DOMAIN MCListings |-> Assembled(MCListings[p])]

-----------------------------------------------------------------------------
(* Each task: its program, its data, its time slice; 0 is none.            *)

T(program, a, b, slice) == [program |-> program, a |-> a, b |-> b, slice |-> slice]

Record(at, other, page, slice) ==
  (at :> 0) @@ (at + 4 :> 0) @@ (at + 8 :> 0) @@ (at + 12 :> 0)
  @@ (at + 16 :> other) @@ (at + 20 :> page) @@ (at + 24 :> slice)

Setup(first, second, slack, n) ==
  [programs |-> (1 :> first.program) @@ (3 :> second.program), messages |-> n,
   ram |-> Record(TCB1, TCB2, 512, first.slice) @@ Record(TCB2, TCB1, 1536, second.slice) @@ (Slack :> slack)
           @@ (1008 :> first.a) @@ (1012 :> first.b) @@ (2032 :> second.a) @@ (2036 :> second.b)]
Off == SLACK_MONITOR_WINDOW + 1

Pairs == {<<5, 3>>, <<65535, 1>>, <<32768, 32767>>, <<4660, 65529>>, <<40000, 17>>, <<0, 9>>}
Alternating(p, a, b) == Setup(T(p, a, b, 61), T("loop", 524, 0, 67), Off, 0)

\* Operands of which the upper products and the quotients depart from RV32IM are among those
\* of high and div, all but the least number by -1, which is undefined in C++.
HighPairs == {<<32767, 257>>, <<300, 300>>, <<65535, 1>>, <<17, 40000>>, <<40000, 50000>>}
DivPairs == Pairs \cup {<<65529, 2>>, <<7, 65534>>, <<65530, 65533>>, <<9, 0>>, <<0, 0>>, <<1, 65535>>}

\* Pointers name page 1 or 2.  With one message and no time slices, the message comes at
\* any instant; with slack 0 the monitor interrupts.
MCSetups ==
  {Alternating(p, ab[1], ab[2]) : p \in {"op", "imm", "flow"}, ab \in Pairs}
  \cup {Alternating("high", ab[1], ab[2]) : ab \in HighPairs}
  \cup {Alternating("div", ab[1], ab[2]) : ab \in DivPairs}
  \cup {Setup(T("mem", 43981, 1520, s), T("mem", 33153, 1008, 71), Off, 0) : s \in 62 .. 69}
  \cup {Setup(T("calls", 0, 0, s), T("loop", 528, 0, 70), Off, 0) : s \in 60 .. 69}
  \cup {Setup(T("loop", 1036, 0, s), T("calls", 0, 0, 0), 0, 0) : s \in {0, 64}}
  \cup {Setup(T("calls", 0, 0, 0), T("calls", 0, 0, 0), Off, 1)}
=============================================================================
