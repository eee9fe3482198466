-------------------------------- MODULE Isa --------------------------------
(***************************************************************************)
(* The RV32 subset that npc implements, as the sequential machine          *)
(* decode_exec of nemu/src/isa/riscv32/inst.c runs.  The simulator uses it *)
(* as the reference of its differential test: it is what a program means.  *)
(*                                                                         *)
(* Data abstraction.  Addresses and register values are words: an address  *)
(* counts 4-byte words, so pc + 4 is Plus(pc, 1), and arithmetic wraps at  *)
(* WORDS instead of 2^32.  An instruction word is decoded by the table     *)
(* Decode; the ALU operations are represented by addition.                 *)
(***************************************************************************)
EXTENDS Naturals

CONSTANTS
    WORDS,      \* number of words (2^32 in the code)
    NREGS,      \* number of general registers (32 in the code)
    Decode      \* instruction word -> decoded instruction

ASSUME WordsAssumption == WORDS \in Nat \ {0} /\ WORDS % 16 = 0
ASSUME NregsAssumption == NREGS \in Nat \ {0, 1}

Word == 0 .. WORDS - 1
Reg  == 0 .. NREGS - 1
Op   == {"add", "addi", "lw", "sw", "beq", "jal", "jalr", "csrrw",
         "ecall", "mret", "fence_i", "illegal"}
Csr  == {"mtvec", "mepc", "mcause", "mtval", "mscratch", "mstatus"}

ILLEGAL_INS == 2    \* MCA_ILLEGAL_INS
ENV_CAL_MMO == 11   \* MCA_ENV_CAL_MMO

Instruction == [op : Op, rd : Reg, rs1 : Reg, rs2 : Reg, imm : Word, csr : Csr]

ASSUME DecodeAssumption == Decode \in [Word -> Instruction]

Plus(a, b) == (a + b) % WORDS

(* R(0) = 0 after every instruction. *)
SetReg(regs, rd, v) == IF rd = 0 THEN regs ELSE [regs EXCEPT ![rd] = v]

(* mstatus with its fields packed into the low four bits,                   *)
(* MIE + 2 * MPIE + 4 * MPP.  A trap saves MIE in MPIE, clears MIE and sets *)
(* MPP to machine mode; mret restores MIE and sets MPIE.                    *)
MSTATUS_RESET    == 12      \* 0x1800: MPP = 3
TrapStatus(mst)  == 16 * (mst \div 16) + 12 + 2 * (mst % 2)
MretStatus(mst)  == 4 * (mst \div 4) + 2 + ((mst \div 2) % 2)

(* isa_raise_intr: mepc takes the pc of the instruction, mcause the reason, *)
(* and mtvec is the next pc.                                                *)
RaiseIntr(s, NO) ==
    [s EXCEPT !.csr["mepc"] = s.pc, !.csr["mcause"] = NO, !.csr["mtval"] = 0,
              !.csr["mstatus"] = TrapStatus(s.csr["mstatus"]),
              !.pc = s.csr["mtvec"]]

(* cpu_exec(1) of the reference machine.  An instruction it does not know   *)
(* (fence.i is one of them) aborts it (INV): the pc still moves on, and     *)
(* cpu_exec then refuses every further instruction.                         *)
Exec(s) ==
    LET i    == Decode[s.mem[s.pc]]
        src1 == s.regs[i.rs1]
        src2 == s.regs[i.rs2]
        snpc == Plus(s.pc, 1)
        Write(v, dnpc) == [s EXCEPT !.regs = SetReg(@, i.rd, v), !.pc = dnpc]
    IN  IF ~s.running THEN s ELSE
        CASE i.op = "add"     -> Write(Plus(src1, src2), snpc)
          [] i.op = "addi"    -> Write(Plus(src1, i.imm), snpc)
          [] i.op = "lw"      -> Write(s.mem[Plus(src1, i.imm)], snpc)
          [] i.op = "sw"      -> [s EXCEPT !.mem[Plus(src1, i.imm)] = src2,
                                           !.pc = snpc]
          [] i.op = "beq"     -> [s EXCEPT !.pc = IF src1 = src2
                                                  THEN Plus(s.pc, i.imm)
                                                  ELSE snpc]
          [] i.op = "jal"     -> Write(snpc, Plus(s.pc, i.imm))
          [] i.op = "jalr"    -> Write(snpc, Plus(src1, i.imm))
          [] i.op = "csrrw"   -> [Write(s.csr[i.csr], snpc)
                                    EXCEPT !.csr[i.csr] = src1]
          [] i.op = "mret"    -> [s EXCEPT !.csr["mstatus"] = MretStatus(s.csr["mstatus"]),
                                           !.pc = s.csr["mepc"]]
          [] i.op = "ecall"   -> RaiseIntr(s, ENV_CAL_MMO)
          [] OTHER            -> [s EXCEPT !.pc = snpc, !.running = FALSE]

MachineState == [pc : Word, regs : [Reg -> Word],
                 csr : [Csr -> Word], mem : [Word -> Word], running : BOOLEAN]
=============================================================================
