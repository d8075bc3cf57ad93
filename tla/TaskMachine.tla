---------------------------- MODULE TaskMachine ----------------------------
(***************************************************************************)
(* What the tasks of a processor are promised: each is a machine of its    *)
(* own, with its registers and its memory, that executes one instruction   *)
(* of its program after another.  No task sees the kernel, the interrupts  *)
(* or the other tasks.                                                     *)
(*                                                                         *)
(* Instructions are told apart by their names.  Numbers are those of       *)
(* mathematics, cut to a word; a memory is a function of its bytes.        *)
(*                                                                         *)
(* docs/Platform.md calls the processor RV32IM_zicsr.  RiscV.cpp departs   *)
(* from that for some operands of products and divisions, where only the   *)
(* result is left open; and it does not refuse a task the registers of the *)
(* kernel, so that a task that has a CSR instruction is promised nothing.  *)
(***************************************************************************)
EXTENDS Integers, FiniteSetsExt

CONSTANTS XLEN, PAGE_SIZE_BYTES, Tasks, Registers

VARIABLES
  program,   \* of each task: a list
  seen,      \* its registers and its pc
  memory     \* its bytes

Cut(n) == n % 2^XLEN
Number(v) == IF v >= 2^(XLEN - 1) THEN v - 2^XLEN ELSE v
ByteBits == XLEN \div 4

Bits(v) == {b \in 0 .. XLEN - 1 : (v \div 2^b) % 2 = 1}
OfBits(S) == MapThenSumSet(LAMBDA b : 2^b, S)
Truth(p) == IF p THEN 1 ELSE 0

\* The quotient is cut towards 0.
Magnitude(n) == IF n < 0 THEN 0 - n ELSE n
TowardsZero(n, d) ==
  (IF (n < 0) = (d < 0) THEN 1 ELSE -1) * (Magnitude(n) \div Magnitude(d))

Result(name, a, b) ==
  CASE name \in {"add", "addi"} -> Cut(a + b)
    [] name = "sub" -> Cut(a - b)
    [] name \in {"sll", "slli"} -> Cut(a * 2^(b % XLEN))
    [] name \in {"srl", "srli"} -> a \div 2^(b % XLEN)
    [] name \in {"sra", "srai"} -> Cut(Number(a) \div 2^(b % XLEN))
    [] name \in {"slt", "slti"} -> Truth(Number(a) < Number(b))
    [] name \in {"sltu", "sltiu"} -> Truth(a < b)
    [] name \in {"xor", "xori"} -> OfBits((Bits(a) \ Bits(b)) \cup (Bits(b) \ Bits(a)))
    [] name \in {"or", "ori"} -> OfBits(Bits(a) \cup Bits(b))
    [] name \in {"and", "andi"} -> OfBits(Bits(a) \cap Bits(b))
    [] name = "mul" -> Cut(Number(a) * Number(b))
    [] name = "mulh" -> Cut((Number(a) * Number(b)) \div 2^XLEN)
    [] name = "mulhsu" -> Cut((Number(a) * b) \div 2^XLEN)
    [] name = "mulhu" -> (a * b) \div 2^XLEN
    [] name = "div" -> IF b = 0 THEN Cut(-1) ELSE Cut(TowardsZero(Number(a), Number(b)))
    [] name = "divu" -> IF b = 0 THEN Cut(-1) ELSE a \div b
    [] name = "rem" -> IF b = 0 THEN a ELSE Cut(Number(a) - Number(b) * TowardsZero(Number(a), Number(b)))
    [] name = "remu" -> IF b = 0 THEN a ELSE a % b

\* Where the result is not that of RV32IM: mulh and mulhsu multiply numbers without sign,
\* 0 / 0 is 0, and 1 is taken for the least number when it is divided by -1, whereas the
\* quotient of the least number itself is undefined in C++.
Departs(name, a, b) ==
  \/ name = "mulh" /\ (Number(a) < 0 \/ Number(b) < 0)
  \/ name = "mulhsu" /\ Number(a) < 0
  \/ name \in {"div", "divu"} /\ a = 0 /\ b = 0
  \/ name = "div" /\ a = 1 /\ Number(b) = -1
  \/ name \in {"div", "rem"} /\ a = 2^(XLEN - 1) /\ Number(b) = -1

Taken(name, a, b) ==
  CASE name = "beq" -> a = b
    [] name = "bne" -> a # b
    [] name = "blt" -> Number(a) < Number(b)
    [] name = "bge" -> Number(a) >= Number(b)
    [] name = "bltu" -> a < b
    [] name = "bgeu" -> a >= b

-----------------------------------------------------------------------------
(* Memory: little endian, the same bytes whatever page a pointer names.    *)

Loads == {"lb", "lbu", "lh", "lhu", "lw"}
Stores == {"sb", "sh", "sw"}
Width(name) ==
  CASE name \in {"lb", "lbu", "sb"} -> 1 [] name \in {"lh", "lhu", "sh"} -> 2 [] name \in {"lw", "sw"} -> 4

Where(s, i) == (s.x[i.rs1] + i.imm) % PAGE_SIZE_BYTES

Value(m, a, name) ==
  LET v == MapThenSumSet(LAMBDA k : m[a + k] * 2^(k * ByteBits), 0 .. Width(name) - 1)
      top == 2^(Width(name) * ByteBits)
  IN  IF name \in {"lb", "lh"} /\ 2 * v >= top THEN Cut(v - top) ELSE v

Replaced(m, a, name, v) ==
  [o \in DOMAIN m |->
     IF o \in a .. a + Width(name) - 1 THEN (v \div 2^((o - a) * ByteBits)) % 2^ByteBits ELSE m[o]]

-----------------------------------------------------------------------------

\* An instruction that is refused is passed over.
Refused(s, i) ==
  \/ i.name \in {"illegal", "sret", "mret", "wfi", "sfence_vma"}
  \/ i.name \in Loads \cup Stores /\ Where(s, i) % Width(i.name) # 0

Goto(s, pc) == [s EXCEPT !.pc = Cut(pc)]
SetTo(s, r, v) == IF r = 0 THEN s ELSE [s EXCEPT !.x[r] = v]

Immediates == {"addi", "slti", "sltiu", "xori", "ori", "andi", "slli", "srli", "srai"}
Branches == {"beq", "bne", "blt", "bge", "bltu", "bgeu"}

\* The registers and the pc after an instruction.
After(s, i, m) ==
  LET a == s.x[i.rs1]
      b == IF i.name \in Immediates THEN Cut(i.imm) ELSE s.x[i.rs2]
      then == s.pc + 4
  IN  CASE Refused(s, i) \/ i.name \in {"fence", "ebreak"} \cup Stores -> Goto(s, then)
        [] ~Refused(s, i) /\ i.name \in Loads -> Goto(SetTo(s, i.rd, Value(m, Where(s, i), i.name)), then)
        [] i.name = "lui" -> Goto(SetTo(s, i.rd, Cut(i.imm)), then)
        [] i.name = "auipc" -> Goto(SetTo(s, i.rd, Cut(i.imm + s.pc)), then)
        [] i.name = "jal" -> Goto(SetTo(s, i.rd, Cut(then)), s.pc + i.imm)
        [] i.name = "jalr" -> Goto(SetTo(s, i.rd, Cut(then)), ((a + i.imm) \div 2) * 2)
        [] i.name \in Branches -> Goto(s, IF Taken(i.name, a, b) THEN s.pc + i.imm ELSE then)
        [] i.name = "ecall" -> Goto(SetTo(s, 3, Cut(s.x[3] + 1)), then)
        [] OTHER -> Goto(SetTo(s, i.rd, Result(i.name, a, b)), then)

\* The services of this kernel count their calls in register 3.  An operation that departs
\* leaves some word in its register, and nothing else changes.
Step(t) ==
  LET s == seen[t]
      i == program[t][(s.pc % PAGE_SIZE_BYTES) \div 4 + 1]
      word == seen'[t].x[i.rd]
  IN  /\ \/ /\ ~Departs(i.name, s.x[i.rs1], s.x[i.rs2])
            /\ seen' = [seen EXCEPT ![t] = After(s, i, memory[t])]
         \/ /\ Departs(i.name, s.x[i.rs1], s.x[i.rs2])
            /\ word \in 0 .. 2^XLEN - 1
            /\ seen' = [seen EXCEPT ![t] = Goto(SetTo(s, i.rd, word), s.pc + 4)]
      /\ memory' = IF i.name \in Stores /\ ~Refused(s, i)
                     THEN [memory EXCEPT ![t] = Replaced(@, Where(s, i), i.name, s.x[i.rs2])]
                     ELSE memory
      /\ UNCHANGED program

Init == seen = [t \in Tasks |-> [x |-> [r \in Registers |-> 0], pc |-> 0]]

Spec == Init /\ [][\E t \in Tasks : Step(t)]_<<program, seen, memory>>
=============================================================================
