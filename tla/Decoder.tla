-------------------------------- MODULE Decoder --------------------------------
(* Decode and execute of npc as functions (controller.sv, imm.sv, alu.sv and   *)
(* the EX stage of ysyx_25040131.sv) beside decode_exec of NEMU (inst.c).      *)
(* Immediates are built from 32-bit words, written as the set of their one     *)
(* bits; execution works on words of XLEN bits.                                *)
EXTENDS Integers, FiniteSets, Bitwise

CONSTANTS XLEN,   \* bits of a word of the execution, a power of two above 2
          M,      \* multiplications are among the instructions
          Strays  \* so are the CSRs and the writes that only NEMU knows

VARIABLES word,   \* an instruction word
          src1,   \* what the register rs1 holds
          op2,    \* what rs2 holds, and a CSR
          pc

vars == <<word, src1, op2, pc>>

------------------------------------------------------------------------------
(* Immediates *)

(* w[hi:lo], moved to bit at; BITS(w, hi, lo) is at = 0. *)
Bits(w, hi, lo, at) == {k - lo + at : k \in w \cap (lo .. hi)}

Repeat(w, bit, from) == IF bit \in w THEN from .. 31 ELSE {}

imm_32(type, w) ==
    CASE type = "I"    -> Repeat(w, 31, 12) \cup Bits(w, 31, 20, 0)
      [] type = "U"    -> Bits(w, 31, 12, 12)
      [] type = "S"    -> Repeat(w, 31, 12) \cup Bits(w, 31, 25, 5) \cup Bits(w, 11, 7, 0)
      [] type = "B"    -> Repeat(w, 31, 12) \cup Bits(w, 7, 7, 11) \cup Bits(w, 30, 25, 5) \cup Bits(w, 11, 8, 1)
      [] type = "J"    -> Repeat(w, 31, 20) \cup Bits(w, 19, 12, 12) \cup Bits(w, 20, 20, 11) \cup Bits(w, 30, 21, 1)
      [] type = "srai" -> (Repeat(w, 31, 12) \cup Bits(w, 31, 20, 0)) \ {10}

SEXT(x, len) == x \cup Repeat(x, len - 1, len)

Shl(x, n) == {k + n : k \in x} \cap (0 .. 31)

(* decode_operand *)
imm(type, w) ==
    CASE type \in {"I", "srai"} -> SEXT(Bits(w, 31, 20, 0), 12)
      [] type = "U" -> Shl(SEXT(Bits(w, 31, 12, 0), 20), 12)
      [] type = "S" -> Shl(SEXT(Bits(w, 31, 25, 0), 7), 5) \cup Bits(w, 11, 7, 0)
      [] type = "B" -> Shl(SEXT(Bits(w, 31, 31, 0), 1), 12) \cup Shl(Bits(w, 7, 7, 0), 11)
                       \cup Shl(Bits(w, 30, 25, 0), 5) \cup Shl(Bits(w, 11, 8, 0), 1)
      [] type = "J" -> Shl(SEXT(Bits(w, 31, 31, 0), 1), 20) \cup Shl(Bits(w, 19, 12, 0), 12)
                       \cup Shl(Bits(w, 20, 20, 0), 11) \cup Shl(Bits(w, 30, 21, 0), 1)

------------------------------------------------------------------------------
(* Execution *)

Word == 0 .. 2^XLEN - 1
Wrap(v) == v % 2^XLEN
Signed(v) == IF v < 2^(XLEN - 1) THEN v ELSE v - 2^XLEN
Complement(v) == 2^XLEN - 1 - v
Bool(b) == IF b THEN 1 ELSE 0
Even(v) == v - (v % 2)

(* An instruction: opcode, func3, func7, whether rd and rs1 are x0, the rs1    *)
(* field as a number and the value of the immediate; of a CSR instruction the  *)
(* kind of CSR that the immediate names.                                       *)
Instr(opcode, func3s, func7s, imms) ==
    [opcode : {opcode}, func3 : func3s, func7 : func7s, rd0 : BOOLEAN, zimm : {0, 3}, imm : imms]

(* The CSRs: mstatus, mtvec, mepc, mcause, mscratch and mtval; mvendorid and   *)
(* marchid, which npc does not write; those that NEMU alone has (misa, mie,    *)
(* satp, mcycle, ...); no CSR at all.                                          *)
CsrKind == {"rw", "id", "nemu", "none"}
CsrInstrs == Instr("csr", {1, 2, 3, 5, 6, 7}, {0}, CsrKind)

(* Those on which npc and NEMU agree. *)
Reads(i) == i.func3 \notin {1, 5} /\ i.zimm = 0
CommonCsrInstrs == {i \in CsrInstrs : i.imm = "rw" \/ (i.imm = "id" /\ Reads(i))}

(* RV32I with the CSR instructions, as the compiler is told (-march=rv32i_zicsr). *)
Instrs ==
    Instr("lui", {0}, {0}, Word) \cup Instr("auipc", {0}, {0}, Word)
    \cup Instr("jal", {0}, {0}, {Even(v) : v \in Word}) \cup Instr("jalr", {0}, {0}, Word)
    \cup Instr("branch", {0, 1, 4, 5, 6, 7}, {0}, {Even(v) : v \in Word})
    \cup Instr("load", {0, 1, 2, 4, 5}, {0}, Word) \cup Instr("store", {0, 1, 2}, {0}, Word)
    \cup Instr("imm", (0 .. 7) \ {1, 5}, {0}, Word) \cup Instr("imm", {1, 5}, {0}, 0 .. XLEN - 1)
    \cup Instr("imm", {5}, {32}, 0 .. XLEN - 1)
    \cup Instr("reg", 0 .. 7, {0}, {0}) \cup Instr("reg", {0, 5}, {32}, {0})
    \cup (IF Strays THEN CsrInstrs ELSE CommonCsrInstrs)
    \cup (IF M THEN Instr("reg", {0}, {1}, {0}) ELSE {})

(* x0 reads as 0: the rs1 field is 0 for x0. *)
Rs1(i) == IF i.zimm = 0 THEN 0 ELSE src1

(* The memory: any fixed contents, read with a width. *)
Loaded(func3, addr) == Wrap(addr + 5 * func3)

NoWrite == -1
NoStore == [func3 |-> NoWrite, addr |-> NoWrite]

(* What an instruction does: the value for rd, the next pc, the store and the  *)
(* value for the CSR.                                                          *)
Effect(rd, npc, store, csr) == [rd |-> rd, npc |-> npc, store |-> store, csr |-> csr]

(* aluc for the register and immediate operations *)
Aluc(func3, func7) ==
    CASE func3 = 1 -> "sll" [] func3 = 2 -> "slt" [] func3 = 3 -> "sltu" [] func3 = 4 -> "xor"
      [] func3 = 5 -> IF func7 = 32 THEN "sra" ELSE "srl"
      [] func3 = 6 -> "or"  [] func3 = 7 -> "and" [] OTHER -> "add"

Branch(func3) ==
    CASE func3 = 0 -> "eq" [] func3 = 1 -> "ne" [] func3 = 4 -> "lt"
      [] func3 = 5 -> "ge" [] func3 = 6 -> "ltu" [] func3 = 7 -> "geu" [] OTHER -> "add"

(* controller: the ALU operation, its inputs, and whether rd is written *)
Ctrl(aluc, a, b, write_reg) == [aluc |-> aluc, a |-> a, b |-> b, write_reg |-> write_reg]

controller(i) ==
    CASE i.opcode = "lui"    -> Ctrl("b", "rs1", "imm", TRUE)
      [] i.opcode = "auipc"  -> Ctrl("add", "pc", "imm", TRUE)
      [] i.opcode = "jal"    -> Ctrl("add", "pc", "4", ~ i.rd0)
      [] i.opcode = "jalr"   -> Ctrl("addeven", "pc", "4", ~ i.rd0)
      [] i.opcode = "branch" -> Ctrl(Branch(i.func3), "rs1", "rs2", FALSE)
      [] i.opcode = "load"   -> Ctrl("add", "rs1", "imm", TRUE)
      [] i.opcode = "store"  -> Ctrl("add", "rs1", "imm", FALSE)
      [] i.opcode = "imm"    -> Ctrl(IF i.func3 = 0 THEN "add" ELSE Aluc(i.func3, i.func7), "rs1", "imm", TRUE)
      [] i.opcode = "reg"    -> Ctrl(IF i.func3 = 0 /\ i.func7 = 32 THEN "sub" ELSE Aluc(i.func3, i.func7),
                                     "rs1", "rs2", TRUE)
      [] i.opcode = "csr"    -> Ctrl("add", "rs1", "rs2", TRUE)

alu(aluc, a, b) ==
    CASE aluc = "add"  -> Wrap(a + b)       [] aluc = "sub" -> Wrap(a - b)
      [] aluc = "and"  -> a & b             [] aluc = "or"  -> a | b
      [] aluc = "xor"  -> a ^^ b            [] aluc = "sll" -> Wrap(a * 2^(b % XLEN))
      [] aluc = "slt"  -> Bool(Signed(a) < Signed(b))
      [] aluc = "sltu" -> Bool(a < b)
      [] aluc = "srl"  -> a \div 2^(b % XLEN)
      [] aluc = "sra"  -> Wrap(Signed(a) \div 2^(b % XLEN))
      [] aluc = "addeven" -> Even(Wrap(a + b))
      [] aluc = "b"    -> b
      [] OTHER         -> 0

(* Mutant: blt compares unsigned. *)
condition_branch_Unsigned(aluc, a, b) ==
    CASE aluc = "eq"  -> a = b  [] aluc = "ne"  -> a # b
      [] aluc \in {"lt", "ltu"} -> a < b  [] aluc \in {"ge", "geu"} -> a >= b
      [] OTHER        -> FALSE

condition_branch(aluc, a, b) ==
    CASE aluc = "eq"  -> a = b                  [] aluc = "ne"  -> a # b
      [] aluc = "lt"  -> Signed(a) < Signed(b)  [] aluc = "ge"  -> Signed(a) >= Signed(b)
      [] aluc = "ltu" -> a < b                  [] aluc = "geu" -> a >= b
      [] OTHER        -> FALSE

csr_we(i) == i.func3 \in {2, 6} => i.zimm # 0

(* u_csr: what an address reads, and what a write leaves in the register *)
csr_rdata(i) == IF i.imm \in {"rw", "id"} THEN op2 ELSE 0
csr_write(i, csr_wdata) == IF i.imm = "rw" /\ csr_we(i) THEN csr_wdata ELSE op2

csr_wdata(i) ==
    LET data == IF i.func3 >= 4 THEN i.zimm ELSE Rs1(i)
    IN  CASE i.func3 % 4 = 2 -> csr_rdata(i) | data
          [] i.func3 % 4 = 3 -> csr_rdata(i) & Complement(data)
          [] OTHER           -> data

(* EX and what reaches WB *)
Core(i) ==
    LET c     == controller(i)
        a     == IF c.a = "pc" THEN pc ELSE Rs1(i)
        b     == CASE c.b = "imm" -> i.imm [] c.b = "4" -> 4 [] OTHER -> op2
        out   == alu(c.aluc, a, b)
        taken == i.opcode \in {"jal", "jalr"} \/ condition_branch(c.aluc, a, b)
        goal  == IF i.opcode = "jalr" THEN Even(Wrap(Rs1(i) + i.imm)) ELSE Wrap(pc + i.imm)
        value == CASE i.opcode = "csr" -> csr_rdata(i) [] i.opcode = "load" -> Loaded(i.func3, out) [] OTHER -> out
    IN  Effect(IF c.write_reg /\ ~ i.rd0 THEN value ELSE NoWrite,
               IF taken THEN goal ELSE Wrap(pc + 4),
               IF i.opcode = "store" THEN [func3 |-> i.func3, addr |-> out] ELSE NoStore,
               IF i.opcode = "csr" THEN csr_write(i, csr_wdata(i)) ELSE op2)

------------------------------------------------------------------------------
(* decode_exec: the value an instruction assigns to R(rd) *)
Result(i) ==
    LET s == Rs1(i)
        t == IF i.opcode = "imm" THEN i.imm ELSE op2
        n == t % XLEN
    IN  CASE i.func7 = 1                   -> Wrap(s * t)
          [] i.func3 = 0                   -> IF i.func7 = 32 THEN Wrap(s - t) ELSE Wrap(s + t)
          [] i.func3 = 1                   -> Wrap(s * 2^n)
          [] i.func3 = 2                   -> IF Signed(s) < Signed(t) THEN 1 ELSE 0
          [] i.func3 = 3                   -> IF s < t THEN 1 ELSE 0
          [] i.func3 = 4                   -> s ^^ t
          [] i.func3 = 5 /\ i.func7 = 32   -> Wrap(Signed(s) \div 2^n)
          [] i.func3 = 5                   -> s \div 2^n
          [] i.func3 = 6                   -> s | t
          [] i.func3 = 7                   -> s & t

BranchTaken(i) ==
    LET s == Rs1(i) IN
    CASE i.func3 = 0 -> s = op2                  [] i.func3 = 1 -> s # op2
      [] i.func3 = 4 -> Signed(s) < Signed(op2)  [] i.func3 = 5 -> Signed(s) >= Signed(op2)
      [] i.func3 = 6 -> s < op2                  [] i.func3 = 7 -> s >= op2

CsrAfter(i) ==
    LET s == IF i.func3 >= 5 THEN i.zimm ELSE Rs1(i) IN
    CASE i.func3 \in {1, 5} -> s
      [] i.func3 \in {2, 6} -> IF i.zimm # 0 THEN op2 | s ELSE op2
      [] i.func3 \in {3, 7} -> IF i.zimm # 0 THEN op2 & Complement(s) ELSE op2

(* Of a CSR that does not exist csr_valid raises MCA_ILLEGAL_INS: on to mtvec, *)
(* which no instruction of npc reaches.                                        *)
mtvec == -2
csr_valid(i) == i.imm # "none"

decode_exec(i) ==
    LET snpc  == Wrap(pc + 4)
        Rd(v) == IF i.rd0 THEN NoWrite ELSE v
    IN  CASE i.opcode = "lui"    -> Effect(Rd(i.imm), snpc, NoStore, op2)
          [] i.opcode = "auipc"  -> Effect(Rd(Wrap(pc + i.imm)), snpc, NoStore, op2)
          [] i.opcode = "jal"    -> Effect(Rd(snpc), Wrap(pc + i.imm), NoStore, op2)
          [] i.opcode = "jalr"   -> Effect(Rd(snpc), Even(Wrap(Rs1(i) + i.imm)), NoStore, op2)
          [] i.opcode = "branch" -> Effect(NoWrite, IF BranchTaken(i) THEN Wrap(pc + i.imm) ELSE snpc, NoStore, op2)
          [] i.opcode = "load"   -> Effect(Rd(Loaded(i.func3, Wrap(Rs1(i) + i.imm))), snpc, NoStore, op2)
          [] i.opcode = "store"  -> Effect(NoWrite, snpc, [func3 |-> i.func3, addr |-> Wrap(Rs1(i) + i.imm)], op2)
          [] i.opcode \in {"imm", "reg"} -> Effect(Rd(Result(i)), snpc, NoStore, op2)
          [] i.opcode = "csr"    -> IF csr_valid(i) THEN Effect(Rd(op2), snpc, NoStore, CsrAfter(i))
                                    ELSE Effect(NoWrite, mtvec, NoStore, op2)

------------------------------------------------------------------------------
Init == word = {} /\ src1 = 0 /\ op2 = 0 /\ pc = 0

(* The next word in ID, with up to three one bits: every bit of an immediate   *)
(* depends on one bit of the word. Words and operands are varied separately.   *)
Fetch ==
    /\ src1 = 0 /\ op2 = 0 /\ pc = 0
    /\ \E k \in 0 .. 31 : word' = IF Cardinality(word) < 3 THEN word \cup {k} ELSE {k}
    /\ UNCHANGED <<src1, op2, pc>>

(* The next operands in EX, whatever registers and forwarding deliver. *)
Issue ==
    /\ word = {}
    /\ \/ \E v \in Word : src1' = v /\ UNCHANGED <<op2, pc>>
       \/ \E v \in Word : op2' = v /\ UNCHANGED <<src1, pc>>
       \/ \E v \in Word : pc' = Even(v) /\ UNCHANGED <<src1, op2>>
    /\ UNCHANGED word

Next == Fetch \/ Issue

Spec == Init /\ [][Next]_vars

(* Every immediate of npc is NEMU's, and the shift amounts of srai are (the    *)
(* rest of that immediate is not used).                                        *)
ImmediatesMatch ==
    /\ \A type \in {"I", "U", "S", "B", "J"} : imm_32(type, word) = imm(type, word)
    /\ imm_32("srai", word) \cap (0 .. 4) = imm("srai", word) \cap (0 .. 4)

(* For all operands, every instruction of npc writes the register, takes the   *)
(* next pc, stores and changes the CSR as decode_exec does.                    *)
EffectsMatch == word = {} => \A i \in Instrs : Core(i) = decode_exec(i)
================================================================================
