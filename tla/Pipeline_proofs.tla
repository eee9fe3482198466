-------------------------- MODULE Pipeline_proofs ---------------------------
(***************************************************************************)
(* The core executes its program: for every program, every initial memory, *)
(* every memory latency and every size of caches and predictors, what      *)
(* commits is what executing one instruction after the other gives.        *)
(*                                                                         *)
(* The argument gives every instruction in the pipeline the machine it is  *)
(* executed by: the reference for WB, and for each earlier stage the       *)
(* machine that executing the instructions ahead of it leaves (AtMem,      *)
(* AtEx, AtId).  What a device answers is not known before it has, so the  *)
(* machines behind a load from one are those for every answer.  The        *)
(* invariant says of each pipeline register that it holds what its         *)
(* instruction does to its machine, as far as the stages behind have got   *)
(* (InWb, InMem, InEx), of the front that it is at the next instruction or *)
(* a redirection is on its way (Front), of the LSU, the bus and the SRAM   *)
(* that they carry the access of the instruction in MEM (StorePath,        *)
(* StoreRight, LoadRight), and of the differential test that it skips the  *)
(* commit of a device access and no other (SkipRight).  That decode holds  *)
(* the word of memory at its pc is FetchedRight of Npc_proofs.             *)
(***************************************************************************)
EXTENDS Npc_proofs, Halt

(* The result of the ALU for the instruction that the machine s executes   *)
(* next, whether it jumps, and which instruction comes after it.           *)
Result(s) == LET i == Ins(s)
             IN  CASE IsJump(i.op)                  -> Plus(s.pc, 1)
                   [] i.op \in {"addi", "lw", "sw"} -> Plus(s.regs[i.rs1], i.imm)
                   [] OTHER                         -> Plus(s.regs[i.rs1], s.regs[i.rs2])
Taken(s)  == LET i == Ins(s)
             IN  IsJump(i.op) \/ (i.op = "beq" /\ s.regs[i.rs1] = s.regs[i.rs2])
Target(s) == LET i == Ins(s)
             IN  IF i.op = "jalr" THEN Plus(s.regs[i.rs1], i.imm) ELSE Plus(s.pc, i.imm)
NextPc(s) == IF Taken(s) THEN Target(s) ELSE Plus(s.pc, 1)

(* What it writes to its register, when v is what a device answers (Step   *)
(* in Npc is the machine that it leaves).                                  *)
Value(s, v) == LET i == Ins(s)
               IN  CASE i.op = "csrrw" -> s.csr[i.csr]
                     [] i.op = "lw"    -> IF Device(s) THEN v ELSE s.mem[Result(s)]
                     [] OTHER          -> Result(s)

(* The machine that each stage executes its instruction on.  A device that *)
(* the instruction in MEM loads from answers v, one that EX is about to    *)
(* load from w.                                                            *)
AtMem      == IF mem_wb_valid THEN Step(ref, mem_wb_out.mem_rdata) ELSE ref
AtEx(v)    == IF ex_mem_valid THEN Step(AtMem, v) ELSE AtMem
AtId(v, w) == IF id_ex_valid THEN Step(AtEx(v), w) ELSE AtEx(v)

(* The BTB's prediction for that instruction is not what it does.          *)
BtbWrong(s, predicted, target) ==
    IF Taken(s) THEN ~predicted \/ target # NextPc(s) ELSE predicted

(***************************************************************************)
(* What is asked of the program.  Plain (in Npc_proofs) says that it runs  *)
(* in Code and executes no trap, mret or fence.i.  Of the other three the  *)
(* runs csr_hazard and ras_override show the last two to be necessary.     *)
(***************************************************************************)

(* The instruction in EX accesses SRAM or a device that the differential   *)
(* test skips, and stores outside Code; a store does not go to the CLINT.  *)
DataApart ==
    id_ex_valid => \A v \in Word :
        /\ Ins(AtEx(v)).op = "lw" => Result(AtEx(v)) \in SramAddr \cup SkipAddr \cup Clint
        /\ Ins(AtEx(v)).op = "sw" => Result(AtEx(v)) \in (SramAddr \cup SkipAddr) \ Code

(* No csrrw leaves EX while a csrrw of the same CSR is in MEM or WB: EX     *)
(* reads the CSR file, and nothing forwards to it.                          *)
CsrApart ==
    id_ex_valid /\ id_ex_out.op = "csrrw" /\ ex_mem_ready =>
        /\ ~(ex_mem_valid /\ ex_mem_out.op = "csrrw" /\ ex_mem_out.csr = id_ex_out.csr)
        /\ ~(mem_wb_valid /\ mem_wb_out.op = "csrrw" /\ mem_wb_out.csr = id_ex_out.csr)

(* When decode redirects the fetch by the RAS, then either rightly or while *)
(* the BTB's prediction is wrong, so that EX will redirect it again,        *)
(* whatever the devices have still to answer.                               *)
RasHarmless ==
    id_ras_hit => \A v, w \in Word :
        \/ ras_target = NextPc(AtId(v, w))
        \/ BtbWrong(AtId(v, w), if_id_out.btb_predicted, if_id_out.btb_target)

(* The instructions of a plain program.                                    *)
PlainOps == {"add", "addi", "lw", "sw", "beq", "jal", "jalr", "csrrw"}

(***************************************************************************)
(* The invariant, stage by stage.                                          *)
(***************************************************************************)

(* A machine that runs the program in Code.                                *)
Right(s) == /\ s \in MachineState /\ s.running /\ s.regs[0] = 0
            /\ \A a \in Code : s.mem[a] = mem[a]

(* A register behind EX holds what its instruction does to machine s.      *)
Done(m, s) ==
    LET i == Ins(s)
    IN  /\ m.op = i.op /\ m.rd = i.rd /\ m.csr = i.csr /\ m.pc = s.pc
        /\ m.op \in PlainOps
        /\ m.alu_result = Result(s) /\ m.csr_wdata = s.regs[i.rs1] /\ m.npc = NextPc(s)
        /\ m.op = "csrrw" => m.csr_rdata = s.csr[i.csr]
        /\ m.op = "lw" => m.alu_result \in SramAddr \cup SkipAddr \cup Clint
        /\ m.op = "sw" => m.alu_result \in (SramAddr \cup SkipAddr) \ Code

(* WB holds the next instruction of the reference, whose registers and     *)
(* CSRs are those of the core.                                             *)
InWb == /\ Right(ref) /\ regs = ref.regs /\ csr = ref.csr
        /\ mem_wb_valid =>
              /\ Done(mem_wb_out, ref)
              /\ mem_wb_out.op = "lw" => mem_wb_out.mem_rdata = Value(ref, mem_wb_out.mem_rdata)
(* MEM holds the instruction after it, with its address and data.          *)
InMem == ex_mem_valid => /\ Done(ex_mem_out, AtMem)
                         /\ ex_mem_out.mem_wdata = AtMem.regs[Ins(AtMem).rs2]
(* EX holds the one after that, and does not read what a load in MEM is    *)
(* about to write.  Its operands are latched, or were read from the        *)
(* reference's registers and lack at most what is forwarded.               *)
InEx == id_ex_valid => \A v \in Word :
    LET i == Ins(AtEx(v))
    IN  /\ id_ex_out.op = i.op /\ id_ex_out.rd = i.rd /\ id_ex_out.csr = i.csr
        /\ id_ex_out.rs1 = i.rs1 /\ id_ex_out.rs2 = i.rs2 /\ id_ex_out.imm = i.imm
        /\ id_ex_out.pc = AtEx(v).pc
        /\ i.op \in PlainOps
        /\ ex_mem_valid /\ ex_mem_out.op = "lw" /\ ex_mem_out.rd # 0 =>
              ex_mem_out.rd \notin {i.rs1, i.rs2}
        /\ IF ex_data_latched
           THEN ex_rs1_latched = AtEx(v).regs[i.rs1] /\ ex_rs2_latched = AtEx(v).regs[i.rs2]
           ELSE id_ex_out.rs1_data = ref.regs[i.rs1] /\ id_ex_out.rs2_data = ref.regs[i.rs2]
(* Decode holds the next one and the IFU goes on behind it, or EX is about *)
(* to redirect the IFU.                                                    *)
Front == \A v, w \in Word :
         IF if_id_valid
         THEN /\ if_id_out.pc = AtId(v, w).pc /\ ~ex_mispredict
              /\ \/ pc_reg = NextPc(AtId(v, w))
                 \/ BtbWrong(AtId(v, w), if_id_out.btb_predicted, if_id_out.btb_target)
         ELSE pc_reg = AtId(v, w).pc \/ ex_mispredict

(* The bus has as much of a store as the slave has not taken; the SRAM has *)
(* the rest of it if the store is to the SRAM, and nothing otherwise.      *)
StorePath ==
    /\ state_store # "SYNC" =>
          /\ ~aw_received /\ ~w_received
          /\ ~awvalid_reg /\ ~wvalid_reg /\ ~slave_aw_done /\ ~slave_w_done
    /\ state_store = "SYNC" => /\ sram_write = "AW"
                               /\ slave_aw_done = ~awvalid_reg /\ slave_w_done = ~wvalid_reg
    /\ state_store = "SYNC" /\ awaddr_reg \in SramAddr =>
          /\ wvalid_reg = awvalid_reg
          /\ aw_received = ~awvalid_reg /\ w_received = ~awvalid_reg
          /\ ~awvalid_reg => write_addr_reg = awaddr_reg /\ write_data_reg = wdata_reg
    /\ state_store = "WRITE_B" /\ awaddr_reg \in SramAddr =>
          /\ sram_write \in {"W", "B"}
          /\ write_addr_reg = awaddr_reg /\ write_data_reg = wdata_reg
    /\ ~(state_store \in {"SYNC", "WRITE_B"} /\ awaddr_reg \in SramAddr) =>
          sram_write = "AW" /\ ~aw_received /\ ~w_received
(* The SRAM has written the store in MEM.                                  *)
Stored == sram_write = "B" \/ state_store = "WRITE_DONE" \/ lsu_store = "STORE_DONE"
(* The store under way is the one in MEM, and memory is what the           *)
(* instructions ahead of it have stored, and then what it stores.          *)
StoreRight ==
    /\ lsu_store # "STORE_IDLE" => ex_mem_valid /\ ex_mem_out.op = "sw"
    /\ lsu_store = "STORE_SYNC" => /\ lsu_awaddr = ex_mem_out.alu_result
                                   /\ lsu_wdata = ex_mem_out.mem_wdata
    /\ lsu_store = "STORE_RESP" => /\ awaddr_reg = ex_mem_out.alu_result
                                   /\ wdata_reg = ex_mem_out.mem_wdata
    /\ mem = IF Stored THEN Step(AtMem, 0).mem ELSE AtMem.mem
(* The load under way is the one in MEM, and what it is given from SRAM is *)
(* memory.                                                                 *)
LoadRight ==
    LET sram == ex_mem_out.alu_result \in SramAddr
    IN  /\ lsu_load # "LOAD_IDLE" => ex_mem_valid /\ ex_mem_out.op = "lw"
        /\ lsu_load = "LOAD_ADDR" => lsu_araddr = ex_mem_out.alu_result
        /\ state_load \in {"LSU_REQ_AR", "LSU_WAIT_R"} =>
              araddr_reg = ex_mem_out.alu_result /\ araddr_reg \notin Clint
        /\ state_load = "LSU_WAIT_R" /\ sram_read = "R" => rdata_reg = mem[araddr_reg]
        /\ sram /\ state_load = "LSU_DONE" => lsu_rdata_reg = mem[ex_mem_out.alu_result]
        /\ sram /\ lsu_load = "LOAD_DONE" => read_data = mem[ex_mem_out.alu_result]

(* The access of the instruction in MEM has shown on the bus.              *)
Shown == \/ lsu_load \in {"LOAD_DATA", "LOAD_DONE"} /\ state_load # "LSU_REQ_AR"
         \/ state_store = "SYNC" /\ ~awvalid_reg
         \/ state_store \in {"WRITE_B", "WRITE_DONE"} \/ lsu_store = "STORE_DONE"
(* WB is empty while the LSU works, so the skip that a device access asks  *)
(* for waits for the commit of that access, and is gone with it.           *)
SkipRight ==
    /\ lsu_load # "LOAD_IDLE" \/ lsu_store # "STORE_IDLE" => ~mem_wb_valid
    /\ mem_wb_valid => (is_skip_ref <=> Device(ref))
    /\ ~mem_wb_valid => (is_skip_ref => ex_mem_valid /\ Device(AtMem))
    /\ ex_mem_valid /\ Device(AtMem) /\ Shown => is_skip_ref

(* All of it: the fetch path, the handshakes and the stages.               *)
Sound == /\ Paired /\ BurstInv /\ Counted /\ Lines /\ Fetched
         /\ LsuReadPaired /\ StoreHandshake
         /\ InWb /\ InMem /\ InEx /\ Front
         /\ StorePath /\ StoreRight /\ LoadRight /\ SkipRight

(* Neither the CLINT nor a device of the differential test is in SRAM      *)
(* (a constant-level condition on the address map).                        *)
DevicesApart == SkipAddr \cap SramAddr = {} /\ Clint \cap SramAddr = {}

-----------------------------------------------------------------------------
(* The ALU gives a load or store its address, and by it the access of a    *)
(* device is told.                                                         *)
LEMMA Accesses ==
    ASSUME NEW s
    PROVE  /\ Ins(s).op \in {"lw", "sw"} => Result(s) = Address(s)
           /\ Device(s) <=> Ins(s).op \in {"lw", "sw"} /\ Result(s) \in SkipAddr \cup Clint
  BY DEF Result, Address, Device, IsJump

(* The parts of the decoded instruction have their types.                  *)
LEMMA InsType ==
    ASSUME NEW s \in MachineState, NEW v \in Word
    PROVE  /\ Ins(s).op \in Op /\ Ins(s).rd \in Reg /\ Ins(s).rs1 \in Reg
           /\ Ins(s).rs2 \in Reg /\ Ins(s).imm \in Word /\ Ins(s).csr \in Csr
           /\ Result(s) \in Word /\ Value(s, v) \in Word
<1>1. /\ s.pc \in Word /\ s.regs \in [Reg -> Word] /\ s.csr \in [Csr -> Word]
      /\ s.mem \in [Word -> Word]
  BY DEF MachineState
<1>2. /\ Ins(s).op \in Op /\ Ins(s).rd \in Reg /\ Ins(s).rs1 \in Reg
      /\ Ins(s).rs2 \in Reg /\ Ins(s).imm \in Word /\ Ins(s).csr \in Csr
  BY <1>1, DecodeAssumption DEF Instruction, Ins
<1>3. Result(s) \in Word
  BY <1>1, <1>2, WordArith DEF Result
<1>4. Value(s, v) \in Word
  BY <1>1, <1>2, <1>3 DEF Value
<1> QED BY <1>2, <1>3, <1>4

(* What executing a plain instruction changes, part by part (decode_exec). *)
LEMMA ExecEffect ==
    ASSUME NEW s \in MachineState, s.running, Ins(s).op \in PlainOps, ~Device(s), NEW v
    PROVE  /\ Exec(s) \in MachineState /\ Exec(s).running
           /\ Exec(s).pc = NextPc(s)
           /\ Exec(s).regs = IF WritesReg(Ins(s).op) /\ Ins(s).rd # 0
                             THEN [s.regs EXCEPT ![Ins(s).rd] = Value(s, v)] ELSE s.regs
           /\ Exec(s).csr = IF Ins(s).op = "csrrw"
                            THEN [s.csr EXCEPT ![Ins(s).csr] = s.regs[Ins(s).rs1]] ELSE s.csr
           /\ Exec(s).mem = IF Ins(s).op = "sw"
                            THEN [s.mem EXCEPT ![Result(s)] = s.regs[Ins(s).rs2]] ELSE s.mem
<1> DEFINE i == Ins(s)
           src1 == s.regs[i.rs1]
           src2 == s.regs[i.rs2]
           snpc == Plus(s.pc, 1)
           sum  == Plus(src1, i.imm)
           Write(x, dnpc) == [s EXCEPT !.regs = SetReg(@, i.rd, x), !.pc = dnpc]
           Store == [s EXCEPT !.mem[sum] = src2, !.pc = snpc]
           Branch == [s EXCEPT !.pc = IF src1 = src2 THEN Plus(s.pc, i.imm) ELSE snpc]
           Swap(m) == [m EXCEPT !.csr[i.csr] = src1]
<1>1. /\ s.pc \in Word /\ s.regs \in [Reg -> Word] /\ s.csr \in [Csr -> Word]
      /\ s.mem \in [Word -> Word]
      /\ DOMAIN s = {"pc", "regs", "csr", "mem", "running"}
  BY DEF MachineState
<1>2. Exec(s) = CASE i.op = "add"     -> Write(Plus(src1, src2), snpc)
                  [] i.op = "addi"    -> Write(sum, snpc)
                  [] i.op = "lw"      -> Write(s.mem[sum], snpc)
                  [] i.op = "sw"      -> Store
                  [] i.op = "beq"     -> Branch
                  [] i.op = "jal"     -> Write(snpc, Plus(s.pc, i.imm))
                  [] i.op = "jalr"    -> Write(snpc, sum)
                  [] i.op = "csrrw"   -> Swap(Write(s.csr[i.csr], snpc))
                  [] OTHER            -> Exec(s)
  BY DEF Exec, Ins
<1>3. /\ Taken(s) <=> i.op \in {"jal", "jalr"} \/ (i.op = "beq" /\ src1 = src2)
      /\ Target(s) = IF i.op = "jalr" THEN sum ELSE Plus(s.pc, i.imm)
      /\ NextPc(s) = IF Taken(s) THEN Target(s) ELSE snpc
      /\ Result(s) = CASE i.op \in {"jal", "jalr"}      -> snpc
                       [] i.op \in {"addi", "lw", "sw"} -> sum
                       [] OTHER                         -> Plus(src1, src2)
      /\ Value(s, v) = CASE i.op = "csrrw" -> s.csr[i.csr]
                      [] i.op = "lw"    -> s.mem[Result(s)]
                      [] OTHER          -> Result(s)
  BY DEF Taken, Target, NextPc, Result, Value, IsJump
<1>4. \A x, dnpc : LET m == Write(x, dnpc)
                  IN  /\ m.pc = dnpc /\ m.running = s.running /\ m.mem = s.mem /\ m.csr = s.csr
                      /\ m.regs = IF i.rd # 0 THEN [s.regs EXCEPT ![i.rd] = x] ELSE s.regs
                      /\ DOMAIN m = DOMAIN s
  BY <1>1 DEF SetReg
<1>5. /\ Store.pc = snpc /\ Store.running = s.running /\ Store.regs = s.regs /\ Store.csr = s.csr
      /\ Store.mem = [s.mem EXCEPT ![sum] = src2]
  BY <1>1
<1>6. /\ Branch.pc = IF src1 = src2 THEN Plus(s.pc, i.imm) ELSE snpc
      /\ Branch.running = s.running /\ Branch.regs = s.regs /\ Branch.csr = s.csr
      /\ Branch.mem = s.mem
  BY <1>1
<1>7. \A m : DOMAIN m = DOMAIN s =>
             /\ Swap(m).pc = m.pc /\ Swap(m).running = m.running /\ Swap(m).regs = m.regs
             /\ Swap(m).mem = m.mem /\ Swap(m).csr = [m.csr EXCEPT ![i.csr] = src1]
  BY <1>1
<1> HIDE DEF i, src1, src2, snpc, sum, Write, Store, Branch, Swap
<1>8. Ins(s) = i /\ s.regs[i.rs1] = src1 /\ s.regs[i.rs2] = src2 /\ Plus(s.pc, 1) = snpc
  BY DEF i, src1, src2, snpc
<1>9. i.op \in PlainOps
  BY <1>8
<1>10. CASE i.op \in {"add", "addi", "lw", "jal", "jalr"}
  <2> DEFINE npc == IF Taken(s) THEN Target(s) ELSE snpc
             m   == Write(Value(s, v), npc)
  <2>1. Exec(s) = m
    BY <1>2, <1>3, <1>10
  <2>2. /\ m.pc = npc /\ m.running = s.running /\ m.mem = s.mem /\ m.csr = s.csr
        /\ m.regs = IF i.rd # 0 THEN [s.regs EXCEPT ![i.rd] = Value(s, v)] ELSE s.regs
    BY <1>4
  <2> HIDE DEF m
  <2> QED BY <2>1, <2>2, <1>3, <1>8, <1>10, ExecType DEF WritesReg
<1>11. CASE i.op = "sw"
  BY <1>2, <1>3, <1>5, <1>8, <1>11, ExecType DEF WritesReg
<1>12. CASE i.op = "beq"
  BY <1>2, <1>3, <1>6, <1>8, <1>12, ExecType DEF WritesReg
<1>13. CASE i.op = "csrrw"
  <2> DEFINE m == Write(s.csr[i.csr], snpc)
  <2>1. DOMAIN m = DOMAIN s /\ m.pc = snpc /\ m.running = s.running /\ m.mem = s.mem /\ m.csr = s.csr
        /\ m.regs = IF i.rd # 0 THEN [s.regs EXCEPT ![i.rd] = s.csr[i.csr]] ELSE s.regs
    BY <1>4
  <2>2. Exec(s) = Swap(m)
    BY <1>2, <1>13
  <2> HIDE DEF m
  <2>3. /\ Swap(m).pc = m.pc /\ Swap(m).running = m.running /\ Swap(m).regs = m.regs
        /\ Swap(m).mem = m.mem /\ Swap(m).csr = [m.csr EXCEPT ![i.csr] = src1]
    BY <1>7, <2>1
  <2>4. ~Taken(s) /\ Value(s, v) = s.csr[i.csr]
    BY <1>3, <1>13
  <2>5. NextPc(s) = snpc
    BY <1>3, <2>4
  <2> QED BY <2>1, <2>2, <2>3, <2>4, <2>5, <1>8, <1>13, ExecType DEF WritesReg
<1> QED BY <1>9, <1>10, <1>11, <1>12, <1>13 DEF PlainOps

(* The same of the machine that an instruction leaves in the pipeline: a   *)
(* device access writes no memory, and a load from a device the answer.    *)
LEMMA StepEffect ==
    ASSUME NEW s \in MachineState, s.running, Ins(s).op \in PlainOps, NEW v \in Word
    PROVE  /\ Step(s, v) \in MachineState /\ Step(s, v).running
           /\ Step(s, v).pc = NextPc(s)
           /\ Step(s, v).regs = IF WritesReg(Ins(s).op) /\ Ins(s).rd # 0
                                THEN [s.regs EXCEPT ![Ins(s).rd] = Value(s, v)] ELSE s.regs
           /\ Step(s, v).csr = IF Ins(s).op = "csrrw"
                               THEN [s.csr EXCEPT ![Ins(s).csr] = s.regs[Ins(s).rs1]] ELSE s.csr
           /\ Step(s, v).mem = IF Ins(s).op = "sw" /\ ~Device(s)
                               THEN [s.mem EXCEPT ![Result(s)] = s.regs[Ins(s).rs2]] ELSE s.mem
<1>1. CASE ~Device(s)
  <2>1. Step(s, v) = Exec(s)
    BY <1>1 DEF Step
  <2> QED BY <1>1, <2>1, ExecEffect
<1>2. CASE Device(s)
  <2> DEFINE r == IF Ins(s).op = "lw" THEN SetReg(s.regs, Ins(s).rd, v) ELSE s.regs
             m == [s EXCEPT !.pc = Plus(s.pc, 1), !.regs = r]
  <2>1. Step(s, v) = m /\ Ins(s).op \in {"lw", "sw"}
    BY <1>2 DEF Step, Device
  <2>2. NextPc(s) = Plus(s.pc, 1) /\ (Ins(s).op = "lw" => Value(s, v) = v)
    BY <1>2, <2>1 DEF NextPc, Taken, IsJump, Value
  <2>3. r = IF WritesReg(Ins(s).op) /\ Ins(s).rd # 0 THEN [s.regs EXCEPT ![Ins(s).rd] = Value(s, v)] ELSE s.regs
    BY <2>1, <2>2 DEF SetReg, WritesReg
  <2>4. r \in [Reg -> Word] /\ Plus(s.pc, 1) \in Word
    <3>1. s.regs \in [Reg -> Word] /\ s.pc \in Word
      BY DEF MachineState
    <3> QED BY <3>1, InsType, WordArith DEF SetReg
  <2> HIDE DEF r
  <2>5. /\ m \in MachineState /\ m.running = s.running /\ m.pc = Plus(s.pc, 1) /\ m.regs = r
        /\ m.csr = s.csr /\ m.mem = s.mem
    BY <2>4 DEF MachineState
  <2> HIDE DEF m
  <2> QED BY <1>2, <2>1, <2>2, <2>3, <2>5
<1> QED BY <1>1, <1>2

(* The registers after a plain instruction, one by one.                    *)
LEMMA StepRegs ==
    ASSUME NEW s, Right(s), Ins(s).op \in PlainOps, NEW r \in Reg, NEW v \in Word
    PROVE  Step(s, v).regs[r] = IF WritesReg(Ins(s).op) /\ r # 0 /\ r = Ins(s).rd
                                THEN Value(s, v) ELSE s.regs[r]
<1>1. /\ s \in MachineState /\ s.running
      /\ s.regs \in [Reg -> Word]
  BY DEF Right, MachineState
<1> QED BY <1>1, StepEffect

(* A plain instruction that stores nothing to Code leads from a machine    *)
(* that runs the program to one that does.                                 *)
LEMMA StepRight ==
    ASSUME CodeLines, NEW s, Right(s), Ins(s).op \in PlainOps, Ins(s).op = "sw" => Result(s) \notin Code,
           NEW v \in Word
    PROVE  Right(Step(s, v))
<1>1. s \in MachineState /\ s.running /\ s.mem \in [Word -> Word] /\ 0 \in Reg
  BY NregsAssumption DEF Right, MachineState, Reg
<1>2. Step(s, v).regs[0] = 0
  BY <1>1, StepRegs DEF Right
<1>3. \A a \in Code : Step(s, v).mem[a] = s.mem[a]
  BY <1>1, StepEffect, MapAssumption DEF CodeLines
<1> QED BY <1>1, <1>2, <1>3, StepEffect DEF Right

(* The machines that MEM and EX execute on run the program, whatever the   *)
(* load in MEM is answered.                                                *)
LEMMA Stages ==
    ASSUME CodeLines, TypeOK, InWb, InMem
    PROVE  Right(ref) /\ Right(AtMem) /\ \A v \in Word : Right(AtEx(v))
<1>1. Right(ref) /\ mem_wb_out.mem_rdata \in Word
  BY DEF InWb, TypeOK, MemWb
<1>2. Right(AtMem)
  BY <1>1, StepRight DEF InWb, Done, AtMem
<1>3. \A v \in Word : Right(AtEx(v))
  BY <1>2, StepRight DEF InMem, Done, AtEx
<1> QED BY <1>1, <1>2, <1>3

(* What WB writes is the value of its instruction.                         *)
LEMMA WriteBack ==
    ASSUME TypeOK, InWb, NEW r \in Reg
    PROVE  AtMem.regs[r] = IF rf_we /\ mem_wb_out.rd = r THEN wb_final_wdata ELSE ref.regs[r]
<1> DEFINE d == mem_wb_out.mem_rdata
<1>1. CASE mem_wb_valid
  <2>1. Done(mem_wb_out, ref) /\ (mem_wb_out.op = "lw" => d = Value(ref, d)) /\ Right(ref)
    BY <1>1 DEF InWb
  <2>2. AtMem = Step(ref, d) /\ Ins(ref).op \in PlainOps /\ d \in Word
    BY <1>1, <2>1 DEF AtMem, Done, TypeOK, MemWb
  <2>3. wb_final_wdata = Value(ref, d)
    BY <2>1 DEF wb_final_wdata, Done, Value, IsLoad
  <2>4. rf_we <=> WritesReg(Ins(ref).op) /\ Ins(ref).rd # 0
    BY <1>1, <2>1 DEF rf_we, Done
  <2>5. mem_wb_out.rd = Ins(ref).rd
    BY <2>1 DEF Done
  <2> QED BY <2>1, <2>2, <2>3, <2>4, <2>5, StepRegs
<1>2. CASE ~mem_wb_valid
  BY <1>2 DEF AtMem, rf_we
<1> QED BY <1>1, <1>2

(* Forwarding gives EX the register that its instruction reads.            *)
LEMMA Forwarding ==
    ASSUME CodeLines, TypeOK, InWb, InMem, NEW r \in Reg, NEW v \in Word,
           ex_mem_valid /\ ex_mem_out.op = "lw" /\ ex_mem_out.rd # 0 => ex_mem_out.rd # r
    PROVE  Forward(r, ref.regs[r]) = AtEx(v).regs[r]
<1>1. CASE ex_mem_valid
  <2>1. Done(ex_mem_out, AtMem) /\ Right(AtMem) /\ AtEx(v) = Step(AtMem, v) /\ Ins(AtMem).op \in PlainOps
    BY <1>1, Stages DEF InMem, AtEx, Done
  <2>2. ex_mem_out.op # "lw" => mem_forward_data = Value(AtMem, v)
    BY <2>1 DEF mem_forward_data, Done, Value
  <2>3. ex_mem_out.op = Ins(AtMem).op /\ ex_mem_out.rd = Ins(AtMem).rd
    BY <2>1 DEF Done
  <2>4. AtEx(v).regs[r] = IF WritesReg(ex_mem_out.op) /\ r # 0 /\ ex_mem_out.rd = r
                          THEN Value(AtMem, v) ELSE AtMem.regs[r]
    BY <2>1, <2>3, StepRegs
  <2>5. CASE WritesReg(ex_mem_out.op) /\ r # 0 /\ ex_mem_out.rd = r
    BY <1>1, <2>2, <2>4, <2>5 DEF Forward
  <2>6. CASE ~(WritesReg(ex_mem_out.op) /\ r # 0 /\ ex_mem_out.rd = r)
    BY <2>4, <2>6, WriteBack DEF Forward
  <2> QED BY <2>5, <2>6
<1>2. CASE ~ex_mem_valid
  BY <1>2, WriteBack DEF Forward, AtEx
<1> QED BY <1>1, <1>2

(* What EX computes is what its instruction does.                          *)
LEMMA Operands ==
    ASSUME CodeLines, TypeOK, InWb, InMem, InEx, id_ex_valid, NEW v \in Word
    PROVE  LET i == Ins(AtEx(v))
           IN  /\ ex_rs1 = AtEx(v).regs[i.rs1] /\ ex_rs2 = AtEx(v).regs[i.rs2]
               /\ out_alu = Result(AtEx(v))
               /\ ex_branch_taken <=> Taken(AtEx(v))
               /\ ex_branch_target = Target(AtEx(v))
               /\ ex_npc = NextPc(AtEx(v))
<1> DEFINE s == AtEx(v)
           i == Ins(s)
<1>1. Right(s) /\ s \in MachineState /\ s.running
  BY Stages DEF Right
<1>2. i.rs1 \in Reg /\ i.rs2 \in Reg
  BY <1>1, InsType
<1>3. /\ id_ex_out.op = i.op /\ id_ex_out.rs1 = i.rs1 /\ id_ex_out.rs2 = i.rs2
      /\ id_ex_out.imm = i.imm /\ id_ex_out.pc = s.pc /\ i.op \in PlainOps
      /\ ex_mem_valid /\ ex_mem_out.op = "lw" /\ ex_mem_out.rd # 0 => ex_mem_out.rd \notin {i.rs1, i.rs2}
  BY DEF InEx
<1>4. ex_rs1 = s.regs[i.rs1] /\ ex_rs2 = s.regs[i.rs2]
  <2>1. CASE ex_data_latched
    BY <2>1 DEF InEx, ex_rs1, ex_rs2
  <2>2. CASE ~ex_data_latched
    <3>1. id_ex_out.rs1_data = ref.regs[i.rs1] /\ id_ex_out.rs2_data = ref.regs[i.rs2]
      BY <2>2 DEF InEx
    <3>2. /\ Forward(i.rs1, ref.regs[i.rs1]) = s.regs[i.rs1]
          /\ Forward(i.rs2, ref.regs[i.rs2]) = s.regs[i.rs2]
      BY <1>2, <1>3, Forwarding
    <3>3. forward_rs1 = Forward(i.rs1, ref.regs[i.rs1]) /\ forward_rs2 = Forward(i.rs2, ref.regs[i.rs2])
      BY <1>3, <3>1 DEF forward_rs1, forward_rs2
    <3> QED BY <2>2, <3>2, <3>3 DEF ex_rs1, ex_rs2
  <2> QED BY <2>1, <2>2
<1> HIDE DEF s
<1>5. out_alu = Result(s)
  BY <1>3, <1>4 DEF out_alu, Result
<1>6. ex_branch_taken <=> Taken(s)
  BY <1>3, <1>4 DEF ex_branch_taken, Taken
<1>7. ex_branch_target = Target(s)
  BY <1>3, <1>4 DEF ex_branch_target, Target
<1>8. ex_npc = NextPc(s)
  BY <1>1, <1>3, <1>6, <1>7 DEF ex_npc, NextPc
<1> QED BY <1>4, <1>5, <1>6, <1>7, <1>8 DEF s

-----------------------------------------------------------------------------
(* When MEM hands its instruction on, the LSU has done its part.           *)
LEMMA MemLeaves ==
    ASSUME TypeOK, StoreRight, LoadRight
    PROVE  /\ mem_out_valid => /\ ex_mem_valid
                               /\ lsu_store = IF ex_mem_out.op = "sw" THEN "STORE_DONE" ELSE "STORE_IDLE"
                               /\ lsu_load = IF ex_mem_out.op = "lw" THEN "LOAD_DONE" ELSE "LOAD_IDLE"
           /\ ~mem_out_valid /\ ex_mem_valid =>
                 /\ ~ex_mem_ready /\ lsu_store # "STORE_DONE" /\ lsu_load # "LOAD_DONE"
                 /\ ex_mem_out.op \in {"lw", "sw"}
           /\ ~ex_mem_valid => lsu_store = "STORE_IDLE" /\ lsu_load = "LOAD_IDLE" /\ ~mem_out_valid
<1>1. /\ lsu_load \in {"LOAD_IDLE", "LOAD_ADDR", "LOAD_DATA", "LOAD_DONE"}
      /\ lsu_store \in {"STORE_IDLE", "STORE_SYNC", "STORE_RESP", "STORE_DONE"}
  BY DEF TypeOK, LsuTypeOK
<1>2. /\ lsu_store # "STORE_IDLE" => ex_mem_valid /\ ex_mem_out.op = "sw"
      /\ lsu_load # "LOAD_IDLE" => ex_mem_valid /\ ex_mem_out.op = "lw"
  BY DEF StoreRight, LoadRight
<1> QED BY <1>1, <1>2 DEF mem_out_valid, mem_valid, ex_mem_ready, IsLoad, IsStore

(* Between two stores the bus and the SRAM have nothing of a store left,   *)
(* and memory is what the instructions behind EX see.                      *)
LEMMA NothingStored ==
    ASSUME TypeOK, StoreHandshake, StorePath, StoreRight
    PROVE  /\ lsu_store = "STORE_RESP" => awaddr_reg = ex_mem_out.alu_result
                                          /\ wdata_reg = ex_mem_out.mem_wdata
           /\ lsu_store # "STORE_RESP" => state_store = "WRITE_IDLE" /\ sram_write = "AW"
           /\ lsu_store \in {"STORE_IDLE", "STORE_SYNC"} => ~Stored
           /\ state_store = "SYNC" <=> awvalid_reg \/ slave_aw_done
<1>1. /\ state_store \in {"WRITE_IDLE", "SYNC", "WRITE_B", "WRITE_DONE"}
      /\ awvalid_reg \in BOOLEAN /\ slave_aw_done \in BOOLEAN
  BY DEF TypeOK, BusTypeOK
<1>2. state_store # "WRITE_IDLE" => lsu_store = "STORE_RESP"
  BY DEF StoreHandshake, LsuWritePaired
<1>3. lsu_store = "STORE_RESP" => awaddr_reg = ex_mem_out.alu_result /\ wdata_reg = ex_mem_out.mem_wdata
  BY DEF StoreRight
<1>4. lsu_store # "STORE_RESP" => state_store = "WRITE_IDLE" /\ sram_write = "AW"
  BY <1>2 DEF StorePath
<1> QED BY <1>1, <1>2, <1>3, <1>4 DEF StorePath, Stored

(* The access of the instruction in MEM shows on the bus in this cycle.    *)
Shows == \/ lsu_load = "LOAD_ADDR" /\ lsu_araddr \in Clint
         \/ state_load = "LSU_REQ_AR"
         \/ state_store = "SYNC" /\ awvalid_reg

(* The test skips the commit of the device accesses, and no other (Plain:  *)
(* no fence.i asks for a skip).                                            *)
LEMMA Skips ==
    ASSUME CodeLines, DevicesApart, Sound, Plain
    PROVE  /\ mem_wb_valid => (skip_ref <=> Device(ref))
           /\ ~mem_wb_valid => (skip_ref => ex_mem_valid /\ Device(AtMem))
           /\ ex_mem_valid /\ Device(AtMem) /\ (Shown \/ Shows) => skip_ref
<1> USE DEF Sound
<1> DEFINE addr == ex_mem_out.alu_result
<1>1. ex_mem_valid => /\ ex_mem_out.op = Ins(AtMem).op /\ addr = Result(AtMem)
                      /\ ex_mem_out.op = "lw" => addr \in SramAddr \cup SkipAddr \cup Clint
                      /\ ex_mem_out.op = "sw" => addr \in SramAddr \cup SkipAddr
  BY DEF InMem, Done
<1>2. /\ awvalid_reg => ex_mem_valid /\ ex_mem_out.op = "sw" /\ awaddr_reg = addr /\ ~mem_wb_valid
      /\ state_store = "SYNC" => ex_mem_valid /\ ex_mem_out.op = "sw" /\ awaddr_reg = addr
  <2>1. TypeOK /\ StoreHandshake /\ StorePath /\ StoreRight
    BY DEF Paired
  <2>2. awvalid_reg \/ state_store = "SYNC" => lsu_store = "STORE_RESP"
    BY <2>1, NothingStored
  <2> QED BY <2>1, <2>2 DEF StoreRight, SkipRight
<1>3. /\ state_load = "LSU_REQ_AR" => /\ ex_mem_valid /\ ex_mem_out.op = "lw" /\ araddr_reg = addr
                                      /\ araddr_reg \notin Clint /\ ~mem_wb_valid
      /\ lsu_arvalid => ex_mem_valid /\ ex_mem_out.op = "lw" /\ lsu_araddr = addr /\ ~mem_wb_valid
  BY DEF LoadRight, LsuReadPaired, SkipRight, lsu_arvalid
<1>4. state_load = "IFU_REQ_AR" => araddr_reg \in SramAddr
  <2>1. state_load = "IFU_REQ_AR" => ic_state = "MISS_R"
    BY DEF Paired, Coupled
  <2> QED BY <2>1, RefillBeats DEF Paired
<1>5. skip_ref /\ ~is_skip_ref => ex_mem_valid /\ Device(AtMem) /\ ~mem_wb_valid
  BY <1>1, <1>2, <1>3, <1>4, Accesses
     DEF skip_ref, icache_skip_ref, Plain, clint_arvalid, m_arvalid, DevicesApart
<1>6. ex_mem_valid /\ Device(AtMem) /\ Shows => skip_ref
  BY <1>1, <1>2, <1>3, Accesses DEF skip_ref, clint_arvalid, lsu_arvalid, m_arvalid, Shows, DevicesApart
<1>7. is_skip_ref => skip_ref
  BY DEF skip_ref
<1> QED BY <1>5, <1>6, <1>7 DEF SkipRight

(* What WB writes to the registers and the CSRs.                           *)
LEMMA WbWrites ==
    ASSUME TypeOK, TrapFree, InWb, Next
    PROVE  regs' = AtMem.regs /\ csr' = AtMem.csr
<1>1. GprClock /\ CsrClock /\ ~wbu_trap_fire /\ ~wbu_mret_fire
  BY NoTrapFlush DEF Next, PipeClock
<1>2. CASE mem_wb_valid
  <2> DEFINE d == mem_wb_out.mem_rdata
  <2>1. /\ Done(mem_wb_out, ref) /\ regs = ref.regs /\ csr = ref.csr
        /\ mem_wb_out.op = "lw" => d = Value(ref, d)
    BY <1>2 DEF InWb
  <2>2. /\ mem_wb_out.op = Ins(ref).op /\ mem_wb_out.rd = Ins(ref).rd /\ mem_wb_out.csr = Ins(ref).csr
        /\ mem_wb_out.csr_wdata = ref.regs[Ins(ref).rs1] /\ Ins(ref).op \in PlainOps
    BY <2>1 DEF Done
  <2>3. wb_final_wdata = Value(ref, d)
    BY <2>1 DEF wb_final_wdata, Done, Value, IsLoad
  <2>4. rf_we <=> WritesReg(Ins(ref).op) /\ Ins(ref).rd # 0
    BY <1>2, <2>2 DEF rf_we
  <2>5. ref \in MachineState /\ ref.running /\ AtMem = Step(ref, d) /\ d \in Word
    BY <1>2 DEF InWb, Right, AtMem, TypeOK, MemWb
  <2>6. regs' = IF WritesReg(Ins(ref).op) /\ Ins(ref).rd # 0
                THEN [ref.regs EXCEPT ![Ins(ref).rd] = Value(ref, d)] ELSE ref.regs
    BY <1>1, <2>1, <2>2, <2>3, <2>4 DEF GprClock
  <2>7. csr' = IF Ins(ref).op = "csrrw"
               THEN [ref.csr EXCEPT ![Ins(ref).csr] = ref.regs[Ins(ref).rs1]] ELSE ref.csr
    BY <1>1, <1>2, <2>1, <2>2 DEF CsrClock
  <2> QED BY <2>2, <2>5, <2>6, <2>7, StepEffect
<1>3. CASE ~mem_wb_valid
  BY <1>1, <1>3 DEF GprClock, CsrClock, rf_we, AtMem, InWb
<1> QED BY <1>2, <1>3

(* The reference executes what commits, or is given what it does: the      *)
(* registers and CSRs that RefClock copies are those of the machine that   *)
(* the device access leaves.                                               *)
LEMMA RefMoves ==
    ASSUME TypeOK, TrapFree, InWb, Next, mem_wb_valid => (skip_ref <=> Device(ref))
    PROVE  ref' = AtMem /\ (is_skip_ref' <=> skip_ref /\ ~mem_wb_valid)
<1>1. RefClock /\ ~wbu_trap_fire /\ ~wbu_mret_fire
  BY NoTrapFlush DEF Next, PipeClock
<1>2. regs' = AtMem.regs /\ csr' = AtMem.csr
  BY WbWrites
<1>3. CASE mem_wb_valid /\ skip_ref
  <2> DEFINE d == mem_wb_out.mem_rdata
             r == IF Ins(ref).op = "lw" THEN SetReg(ref.regs, Ins(ref).rd, d) ELSE ref.regs
  <2>1. /\ AtMem = [ref EXCEPT !.pc = Plus(ref.pc, 1), !.regs = r]
        /\ Ins(ref).op \in {"lw", "sw"}
    BY <1>3 DEF AtMem, Step, Device
  <2>2. ref \in MachineState /\ Done(mem_wb_out, ref)
    BY <1>3 DEF InWb, Right
  <2>3. final_wbu_npc = Plus(ref.pc, 1)
    BY <1>1, <2>1, <2>2 DEF final_wbu_npc, Done, NextPc, Taken, IsJump
  <2>4. ref' = [ref EXCEPT !.pc = Plus(ref.pc, 1), !.regs = AtMem.regs,
                           !.csr = [AtMem.csr EXCEPT !["mscratch"] = ref.csr["mscratch"]]]
    BY <1>1, <1>2, <1>3, <2>3 DEF RefClock
  <2> HIDE DEF r
  <2>5. ref.csr \in [Csr -> Word] /\ DOMAIN ref = {"pc", "regs", "csr", "mem", "running"}
    BY <2>2 DEF MachineState
  <2>6. AtMem.regs = r /\ AtMem.csr = ref.csr
    BY <2>1, <2>5
  <2>7. [AtMem.csr EXCEPT !["mscratch"] = ref.csr["mscratch"]] = ref.csr
    BY <2>5, <2>6
  <2>8. ref' = [ref EXCEPT !.pc = Plus(ref.pc, 1), !.regs = r, !.csr = ref.csr]
    BY <2>4, <2>6, <2>7
  <2>9. [ref EXCEPT !.pc = Plus(ref.pc, 1), !.regs = r, !.csr = ref.csr]
           = [ref EXCEPT !.pc = Plus(ref.pc, 1), !.regs = r]
    BY <2>2 DEF MachineState
  <2>10. is_skip_ref' <=> skip_ref /\ ~mem_wb_valid
    BY <1>1 DEF RefClock
  <2> QED BY <2>1, <2>8, <2>9, <2>10
<1>4. CASE ~(mem_wb_valid /\ skip_ref)
  BY <1>1, <1>4 DEF RefClock, AtMem, Step
<1> QED BY <1>3, <1>4

(* Valid bits and data of the registers behind EX.                         *)
LEMMA BackMoves ==
    ASSUME TypeOK, TrapFree, StoreRight, LoadRight, Next
    PROVE  /\ mem_wb_valid' <=> mem_out_valid
           /\ mem_out_valid => mem_wb_out' = mem_wb_in
           /\ ex_mem_ready => (ex_mem_valid' <=> id_ex_valid) /\ (mem_out_valid <=> ex_mem_valid)
           /\ ex_mem_ready /\ id_ex_valid => ex_mem_out' = ex_mem_in
           /\ ~ex_mem_ready => /\ ex_mem_valid /\ ex_mem_valid' /\ ex_mem_out' = ex_mem_out
                               /\ ~mem_out_valid
<1>1. ExMemClock /\ MemWbClock /\ ~global_trap_flush
  BY NoTrapFlush DEF Next, PipeClock
<1>2. ex_mem_valid \in BOOLEAN /\ id_ex_valid \in BOOLEAN
  BY DEF TypeOK
<1>3. mem_out_valid => ex_mem_valid
  BY MemLeaves
<1>4. ex_mem_ready <=> mem_out_valid \/ ~ex_mem_valid
  BY DEF ex_mem_ready
<1> HIDE DEF mem_out_valid, ex_mem_ready
<1> QED BY <1>1, <1>2, <1>3, <1>4 DEF ExMemClock, MemWbClock, Pipcon

(* The instruction in decode enters EX.                                    *)
Enters == if_id_valid /\ id_ex_ready /\ ~hazard_stall

(* Each stage executes on the machine its instruction has met on the way:  *)
(* what leaves MEM takes the word that the LSU has read with it, which     *)
(* settles what the device answered.                                       *)
LEMMA Shift ==
    ASSUME TypeOK, TrapFree, StoreRight, LoadRight, ref' = AtMem, Next
    PROVE  /\ ex_mem_ready => /\ AtMem' = AtEx(read_data)
                              /\ \A v \in Word : AtEx(v)' = AtId(read_data, v)
           /\ ~ex_mem_ready => AtMem' = AtMem /\ \A v \in Word : AtEx(v)' = AtEx(v)
           /\ \A v, w \in Word : \E a, b \in Word :
                 /\ AtId(v, w)' = IF Enters THEN Step(AtId(a, b), w) ELSE AtId(a, b)
                 /\ Enters => AtEx(v)' = AtId(a, b)
<1>1. /\ mem_wb_valid' <=> mem_out_valid
      /\ mem_out_valid => mem_wb_out'.mem_rdata = read_data
      /\ ex_mem_ready => (ex_mem_valid' <=> id_ex_valid) /\ (mem_out_valid <=> ex_mem_valid)
      /\ ~ex_mem_ready => ex_mem_valid /\ ex_mem_valid' /\ ~mem_out_valid
  BY BackMoves DEF mem_wb_in
<1>2. /\ AtMem' = IF mem_wb_valid' THEN Step(AtMem, mem_wb_out'.mem_rdata) ELSE AtMem
      /\ \A v : AtEx(v)' = IF ex_mem_valid' THEN Step(AtMem', v) ELSE AtMem'
      /\ \A v, w : AtId(v, w)' = IF id_ex_valid' THEN Step(AtEx(v)', w) ELSE AtEx(v)'
  BY DEF AtMem, AtEx, AtId
<1>3. /\ ex_mem_ready => AtMem' = AtEx(read_data) /\ \A v \in Word : AtEx(v)' = AtId(read_data, v)
      /\ ~ex_mem_ready => AtMem' = AtMem /\ \A v \in Word : AtEx(v)' = AtEx(v)
  BY <1>1, <1>2 DEF AtEx, AtId
<1>4. /\ ~id_ex_ready => (id_ex_valid' <=> id_ex_valid)
      /\ id_ex_ready => (id_ex_valid' <=> if_id_valid /\ ~hazard_stall)
      /\ id_ex_ready <=> ex_mem_ready \/ ~id_ex_valid
  BY IdExMoves DEF id_ex_ready
<1>5. read_data \in Word
  BY DEF TypeOK, LsuTypeOK
<1> HIDE DEF ex_mem_ready, id_ex_ready, hazard_stall
<1>6. ASSUME NEW v \in Word, NEW w \in Word
      PROVE  \E a, b \in Word :
                 /\ AtId(v, w)' = IF Enters THEN Step(AtId(a, b), w) ELSE AtId(a, b)
                 /\ Enters => AtEx(v)' = AtId(a, b)
  <2>1. AtId(v, w)' = IF id_ex_valid' THEN Step(AtEx(v)', w) ELSE AtEx(v)'
    BY <1>2
  <2>2. CASE ex_mem_ready
    <3>1. AtEx(v)' = AtId(read_data, v) /\ (id_ex_valid' <=> Enters)
      BY <1>3, <1>4, <2>2 DEF Enters
    <3> QED BY <1>5, <2>1, <3>1
  <2>3. CASE ~ex_mem_ready
    <3>1. AtEx(v)' = AtEx(v) /\ (Enters => ~id_ex_valid) /\ (id_ex_valid' <=> id_ex_valid \/ Enters)
      BY <1>3, <1>4, <2>3 DEF Enters
    <3> QED BY <2>1, <3>1 DEF AtId
  <2> QED BY <2>2, <2>3
<1> QED BY <1>3, <1>6

-----------------------------------------------------------------------------
(* The SRAM is written by the store in MEM, once, and nowhere else.        *)
LEMMA Writes ==
    ASSUME TypeOK, StoreHandshake, StorePath, StoreRight, InMem, Next
    PROVE  \/ mem' = mem /\ (sram_write' = "B" => sram_write = "B")
           \/ /\ sram_write = "W" /\ sram_write' = "B"
              /\ state_store = "WRITE_B" /\ lsu_store = "STORE_RESP"
              /\ ex_mem_valid /\ ex_mem_out.op = "sw"
              /\ mem' = [mem EXCEPT ![ex_mem_out.alu_result] = ex_mem_out.mem_wdata]
<1>1. SramWriteClock(awvalid_reg /\ awaddr_reg \in SramAddr, awaddr_reg,
                     wvalid_reg /\ awaddr_reg \in SramAddr, wdata_reg,
                     m_bready /\ awaddr_reg \in SramAddr)
  BY DEF Next, MemClock, SocWriteClock
<1>2. sram_write = "W" => /\ state_store = "WRITE_B" /\ lsu_store = "STORE_RESP"
                          /\ write_addr_reg = ex_mem_out.alu_result
                          /\ write_data_reg = ex_mem_out.mem_wdata
                          /\ ex_mem_valid /\ ex_mem_out.op = "sw"
  <2> SUFFICES ASSUME sram_write = "W"
               PROVE  /\ state_store = "WRITE_B" /\ lsu_store = "STORE_RESP"
                      /\ write_addr_reg = ex_mem_out.alu_result
                      /\ write_data_reg = ex_mem_out.mem_wdata
                      /\ ex_mem_valid /\ ex_mem_out.op = "sw"
    OBVIOUS
  <2>1. state_store = "WRITE_B" /\ awaddr_reg \in SramAddr
    BY DEF StorePath, TypeOK, BusTypeOK
  <2>2. lsu_store = "STORE_RESP"
    BY <2>1 DEF StoreHandshake, LsuWritePaired
  <2> QED BY <2>1, <2>2 DEF StorePath, StoreRight
<1>3. CASE sram_write = "W"
  BY <1>1, <1>2, <1>3 DEF SramWriteClock, SramWriteAccept, SramWriteDelay, SramWriteResp, sramWriteVars
<1>4. CASE sram_write # "W"
  BY <1>1, <1>4 DEF SramWriteClock, SramWriteAccept, SramWriteDelay, SramWriteResp
<1> QED BY <1>3, <1>4

(* So no word of Code is.                                                  *)
LEMMA CodeStays ==
    ASSUME CodeLines, Sound, Next
    PROVE  CodeKept
<1>1. Code \subseteq Word
  BY MapAssumption DEF CodeLines
<1>2. mem \in [Word -> Word]
  BY DEF Sound, Paired, TypeOK, SocTypeOK, SramTypeOK
<1>3. \/ mem' = mem
      \/ /\ ex_mem_valid /\ ex_mem_out.op = "sw"
         /\ mem' = [mem EXCEPT ![ex_mem_out.alu_result] = ex_mem_out.mem_wdata]
  BY Writes DEF Sound, Paired
<1>4. ex_mem_valid /\ ex_mem_out.op = "sw" => ex_mem_out.alu_result \notin Code
  BY DEF Sound, InMem, Done
<1> QED BY <1>1, <1>2, <1>3, <1>4 DEF CodeKept

(* What decode holds is the next instruction of the program.               *)
LEMMA Decoded ==
    ASSUME CodeLines, Sound, Plain, DataApart, NEW v \in Word, NEW w \in Word
    PROVE  /\ Right(AtId(v, w))
           /\ if_id_valid => id = Ins(AtId(v, w)) /\ id.op \in PlainOps
<1> DEFINE s == AtId(v, w)
<1>1. Right(AtEx(v))
  BY Stages DEF Sound, Paired
<1>2. Right(s)
  <2>1. CASE id_ex_valid
    <3>1. Ins(AtEx(v)).op \in PlainOps
      BY <2>1 DEF Sound, InEx
    <3>2. Ins(AtEx(v)).op = "sw" => Result(AtEx(v)) \notin Code
      BY <2>1 DEF DataApart
    <3> QED BY <1>1, <2>1, <3>1, <3>2, StepRight DEF AtId
  <2>2. CASE ~id_ex_valid
    BY <1>1, <2>2 DEF AtId
  <2> QED BY <2>1, <2>2
<1>3. ASSUME if_id_valid PROVE id = Ins(s) /\ id.op \in PlainOps
  <2>1. if_id_out.pc = s.pc /\ if_id_out.pc \in Code /\ if_id_out.inst = mem[if_id_out.pc]
    BY <1>3 DEF Sound, Front, Fetched
  <2>2. id = Ins(s)
    BY <1>2, <2>1 DEF Right, id, Ins
  <2>3. id.op \in Op
    BY WireTypes DEF Sound, Paired, TypeOK, Instruction
  <2> QED BY <1>3, <2>2, <2>3 DEF Plain, is_fence_i, TrapOps, Op, PlainOps
<1> QED BY <1>2, <1>3

-----------------------------------------------------------------------------
(* What the step lemmas are about: a cycle of a core that is sound so far. *)
Clocked == /\ CodeLines /\ DevicesApart /\ Sound
           /\ Plain /\ DataApart /\ CsrApart /\ RasHarmless /\ Plain' /\ Next

(* The facts about this cycle that every step lemma starts from.           *)
LEMMA Cycle ==
    ASSUME Clocked
    PROVE  /\ TypeOK /\ TrapFree /\ CodeKept /\ read_data \in Word
           /\ ref' = AtMem /\ (is_skip_ref' <=> skip_ref /\ ~mem_wb_valid)
           /\ Right(ref) /\ Right(AtMem)
           /\ \A v \in Word : Right(AtEx(v)) /\ \A w \in Word : Right(AtId(v, w))
           /\ ex_mem_ready => /\ AtMem' = AtEx(read_data)
                              /\ \A v \in Word : AtEx(v)' = AtId(read_data, v)
           /\ ~ex_mem_ready => AtMem' = AtMem /\ \A v \in Word : AtEx(v)' = AtEx(v)
           /\ \A v, w \in Word : \E a, b \in Word :
                 /\ AtId(v, w)' = IF Enters THEN Step(AtId(a, b), w) ELSE AtId(a, b)
                 /\ Enters => AtEx(v)' = AtId(a, b)
<1>1. TypeOK /\ TrapFree /\ CodeKept /\ read_data \in Word
  BY CodeStays DEF Clocked, Sound, Paired, TypeOK, LsuTypeOK
<1>2. ref' = AtMem /\ (is_skip_ref' <=> skip_ref /\ ~mem_wb_valid)
  <2>1. mem_wb_valid => (skip_ref <=> Device(ref))
    BY Skips DEF Clocked
  <2> QED BY <1>1, <2>1, RefMoves DEF Clocked, Sound
<1>3. Right(ref) /\ Right(AtMem) /\ \A v \in Word : Right(AtEx(v))
  BY <1>1, Stages DEF Clocked, Sound
<1>4. \A v, w \in Word : Right(AtId(v, w))
  BY Decoded DEF Clocked
<1>5. /\ ex_mem_ready => AtMem' = AtEx(read_data) /\ \A v \in Word : AtEx(v)' = AtId(read_data, v)
      /\ ~ex_mem_ready => AtMem' = AtMem /\ \A v \in Word : AtEx(v)' = AtEx(v)
      /\ \A v, w \in Word : \E a, b \in Word :
            /\ AtId(v, w)' = IF Enters THEN Step(AtId(a, b), w) ELSE AtId(a, b)
            /\ Enters => AtEx(v)' = AtId(a, b)
  BY <1>1, <1>2, Shift DEF Clocked, Sound
<1> QED BY <1>1, <1>2, <1>3, <1>4, <1>5

(* The valid bits and the data of the registers behind decode.             *)
LEMMA CycleMoves ==
    ASSUME Clocked
    PROVE  /\ mem_wb_valid' <=> mem_out_valid
           /\ mem_out_valid => mem_wb_out' = mem_wb_in /\ ex_mem_valid
           /\ ex_mem_ready => (ex_mem_valid' <=> id_ex_valid) /\ (mem_out_valid <=> ex_mem_valid)
           /\ ex_mem_ready /\ id_ex_valid => ex_mem_out' = ex_mem_in
           /\ ~ex_mem_ready => /\ ex_mem_valid /\ ex_mem_valid' /\ ex_mem_out' = ex_mem_out
                               /\ ~mem_out_valid
           /\ ~id_ex_ready => id_ex_valid /\ ~ex_mem_ready /\ id_ex_valid' /\ id_ex_out' = id_ex_out
           /\ id_ex_ready => (id_ex_valid' <=> Enters)
           /\ Enters => id_ex_out' = id_ex_in
<1>1. TypeOK /\ TrapFree /\ StoreRight /\ LoadRight /\ Next
  BY DEF Clocked, Sound, Paired
<1>2. id_ex_valid \in BOOLEAN
  BY <1>1 DEF TypeOK
<1>3. id_ex_ready <=> ex_mem_ready \/ ~id_ex_valid
  BY DEF id_ex_ready
<1>4. mem_out_valid => ex_mem_valid
  BY <1>1, MemLeaves
<1> HIDE DEF id_ex_ready, ex_mem_ready, mem_out_valid, hazard_stall
<1> QED BY <1>1, <1>2, <1>3, <1>4, BackMoves, IdExMoves DEF Enters

(* WB: registers and CSRs follow the reference, and MEM hands on what its  *)
(* instruction does, with the word that the LSU has read.                  *)
LEMMA WbStep ==
    ASSUME Clocked
    PROVE  InWb'
<1>1. Right(ref)'
  BY Cycle, ExecType DEF Right, CodeKept, MachineState
<1>2. regs' = AtMem.regs /\ csr' = AtMem.csr
  BY Cycle, WbWrites DEF Clocked, Sound
<1>3. mem_wb_valid' => /\ Done(mem_wb_out', ref')
                       /\ mem_wb_out'.op = "lw" =>
                             mem_wb_out'.mem_rdata = Value(ref', mem_wb_out'.mem_rdata)
  <2> SUFFICES ASSUME mem_wb_valid'
               PROVE  /\ Done(mem_wb_in, AtMem)
                      /\ mem_wb_in.op = "lw" => mem_wb_in.mem_rdata = Value(AtMem, mem_wb_in.mem_rdata)
    BY Cycle, CycleMoves
  <2>1. mem_out_valid /\ ex_mem_valid
    BY CycleMoves
  <2>2. Done(ex_mem_out, AtMem)
    BY <2>1 DEF Clocked, Sound, InMem
  <2>3. Done(mem_wb_in, AtMem)
    BY <2>2 DEF Done, mem_wb_in
  <2>4. ASSUME ex_mem_out.op = "lw" PROVE read_data = Value(AtMem, read_data)
    <3>1. lsu_load = "LOAD_DONE" /\ lsu_store = "STORE_IDLE"
      BY <2>1, <2>4, Cycle, MemLeaves DEF Clocked, Sound
    <3>2. ~Device(AtMem) => ex_mem_out.alu_result \in SramAddr
      BY <2>2, <2>4, Accesses DEF Done
    <3>3. ~Device(AtMem) => read_data = mem[ex_mem_out.alu_result]
      BY <3>1, <3>2 DEF Clocked, Sound, LoadRight
    <3>4. mem = AtMem.mem
      BY <3>1, Cycle, NothingStored DEF Clocked, Sound, StoreRight
    <3> QED BY <2>2, <2>4, <3>3, <3>4 DEF Done, Value
  <2> QED BY <2>3, <2>4 DEF mem_wb_in
<1> QED BY <1>1, <1>2, <1>3, Cycle DEF InWb

(* The CSR that EX reads is the one its instruction finds: no write to it  *)
(* is on its way (CsrApart).                                               *)
LEMMA CsrRead ==
    ASSUME Clocked, id_ex_valid, ex_mem_ready, id_ex_out.op = "csrrw", NEW v \in Word
    PROVE  csr[id_ex_out.csr] = AtEx(v).csr[id_ex_out.csr]
<1> DEFINE c == id_ex_out.csr
<1>1. /\ ~(ex_mem_valid /\ ex_mem_out.op = "csrrw" /\ ex_mem_out.csr = c)
      /\ ~(mem_wb_valid /\ mem_wb_out.op = "csrrw" /\ mem_wb_out.csr = c)
  BY DEF Clocked, CsrApart
<1>2. csr = ref.csr /\ c \in Csr /\ mem_wb_out.mem_rdata \in Word
  BY Cycle DEF Clocked, Sound, InWb, TypeOK, IdEx, MemWb
<1>3. AtMem.csr[c] = ref.csr[c]
  <2>1. CASE mem_wb_valid
    <3>1. Done(mem_wb_out, ref) /\ ref \in MachineState /\ ref.running
          /\ AtMem = Step(ref, mem_wb_out.mem_rdata)
      BY <2>1, Cycle DEF Clocked, Sound, InWb, Right, AtMem
    <3>2. ref.csr \in [Csr -> Word] /\ mem_wb_out.op = Ins(ref).op /\ mem_wb_out.csr = Ins(ref).csr
          /\ Ins(ref).op \in PlainOps
      BY <3>1 DEF MachineState, Done
    <3>3. AtMem.csr = IF Ins(ref).op = "csrrw"
                   THEN [ref.csr EXCEPT ![Ins(ref).csr] = ref.regs[Ins(ref).rs1]] ELSE ref.csr
      BY <1>2, <3>1, <3>2, StepEffect
    <3> QED BY <1>1, <1>2, <2>1, <3>2, <3>3
  <2>2. CASE ~mem_wb_valid
    BY <2>2 DEF AtMem
  <2> QED BY <2>1, <2>2
<1>4. AtEx(v).csr[c] = AtMem.csr[c]
  <2>1. CASE ex_mem_valid
    <3>1. Done(ex_mem_out, AtMem) /\ AtMem \in MachineState /\ AtMem.running /\ AtEx(v) = Step(AtMem, v)
      BY <2>1, Cycle DEF Clocked, Sound, InMem, Right, AtEx
    <3>2. AtMem.csr \in [Csr -> Word] /\ ex_mem_out.op = Ins(AtMem).op /\ ex_mem_out.csr = Ins(AtMem).csr
          /\ Ins(AtMem).op \in PlainOps
      BY <3>1 DEF MachineState, Done
    <3>3. AtEx(v).csr = IF Ins(AtMem).op = "csrrw"
                   THEN [AtMem.csr EXCEPT ![Ins(AtMem).csr] = AtMem.regs[Ins(AtMem).rs1]] ELSE AtMem.csr
      BY <1>2, <3>1, <3>2, StepEffect
    <3> QED BY <1>1, <1>2, <2>1, <3>2, <3>3
  <2>2. CASE ~ex_mem_valid
    BY <2>2 DEF AtEx
  <2> QED BY <2>1, <2>2
<1> QED BY <1>2, <1>3, <1>4

(* MEM: what enters it is what EX computed; what waits in it stays.        *)
LEMMA MemStep ==
    ASSUME Clocked
    PROVE  InMem'
<1> SUFFICES ASSUME ex_mem_valid'
             PROVE  /\ Done(ex_mem_out', AtMem')
                    /\ ex_mem_out'.mem_wdata = AtMem'.regs[Ins(AtMem').rs2]
  BY DEF InMem
<1>1. CASE ex_mem_ready
  <2> DEFINE s == AtEx(read_data)
             i == Ins(s)
  <2>1. id_ex_valid /\ ex_mem_out' = ex_mem_in /\ AtMem' = s /\ read_data \in Word
    BY <1>1, Cycle, CycleMoves
  <2>2. /\ id_ex_out.op = i.op /\ id_ex_out.rd = i.rd /\ id_ex_out.csr = i.csr
        /\ id_ex_out.pc = s.pc /\ i.op \in PlainOps
    BY <2>1 DEF Clocked, Sound, InEx
  <2>3. /\ ex_rs1 = s.regs[i.rs1] /\ ex_rs2 = s.regs[i.rs2]
        /\ out_alu = Result(s) /\ ex_npc = NextPc(s)
    BY <2>1, Cycle, Operands DEF Clocked, Sound
  <2>4. i.op = "csrrw" => csr[id_ex_out.csr] = s.csr[i.csr]
    BY <1>1, <2>1, <2>2, CsrRead
  <2>5. /\ id_ex_out.op = "lw" => out_alu \in SramAddr \cup SkipAddr \cup Clint
        /\ id_ex_out.op = "sw" => out_alu \in (SramAddr \cup SkipAddr) \ Code
    BY <2>1, <2>2, <2>3 DEF Clocked, DataApart
  <2> HIDE DEF s
  <2>6. Done(ex_mem_in, s) /\ ex_mem_in.mem_wdata = ex_rs2
    BY <2>2, <2>3, <2>4, <2>5 DEF Done, ex_mem_in
  <2>7. ex_mem_in.mem_wdata = s.regs[Ins(s).rs2]
    BY <2>3, <2>6
  <2> QED BY <2>1, <2>6, <2>7
<1>2. CASE ~ex_mem_ready
  BY <1>2, Cycle, CycleMoves DEF Clocked, Sound, InMem
<1> QED BY <1>1, <1>2

(* EX: what enters it is what decode holds, with registers that lack at    *)
(* most the results MEM and WB forward; the operands of what stays are     *)
(* kept.                                                                   *)
LEMMA ExStep ==
    ASSUME Clocked
    PROVE  InEx'
<1> DEFINE Holds(v) ==
        LET i == Ins(AtEx(v))
        IN  /\ id_ex_out.op = i.op /\ id_ex_out.rd = i.rd /\ id_ex_out.csr = i.csr
            /\ id_ex_out.rs1 = i.rs1 /\ id_ex_out.rs2 = i.rs2 /\ id_ex_out.imm = i.imm
            /\ id_ex_out.pc = AtEx(v).pc
            /\ i.op \in PlainOps
            /\ ex_mem_valid /\ ex_mem_out.op = "lw" /\ ex_mem_out.rd # 0 =>
                  ex_mem_out.rd \notin {i.rs1, i.rs2}
            /\ IF ex_data_latched
               THEN ex_rs1_latched = AtEx(v).regs[i.rs1] /\ ex_rs2_latched = AtEx(v).regs[i.rs2]
               ELSE id_ex_out.rs1_data = ref.regs[i.rs1] /\ id_ex_out.rs2_data = ref.regs[i.rs2]
<1> SUFFICES ASSUME id_ex_valid', NEW v \in Word PROVE Holds(v)'
  BY DEF InEx
<1>1. CASE id_ex_ready
  <2>1. Enters /\ id_ex_out' = id_ex_in
    BY <1>1, CycleMoves
  <2>2. PICK a \in Word, b \in Word : AtEx(v)' = AtId(a, b)
    BY <2>1, Cycle
  <2> DEFINE i == Ins(AtId(a, b))
  <2>3. id = i /\ i.op \in PlainOps /\ if_id_out.pc = AtId(a, b).pc
    BY <2>1, Decoded DEF Enters, Clocked, Sound, Front
  <2>4. i.rs1 \in Reg /\ i.rs2 \in Reg
    BY Cycle, InsType DEF Right
  <2>5. ~ex_data_latched'
    <3>1. ex_data_latched' = (id_ex_valid /\ ~ex_mem_ready)
      BY DEF Clocked, Next, PipeClock, ExLatchClock
    <3> QED BY <1>1, <3>1 DEF id_ex_ready
  <2>6. \A r \in Reg : GprRead(r) = ref'.regs[r]
    <3> SUFFICES ASSUME NEW r \in Reg PROVE GprRead(r) = AtMem.regs[r]
      BY Cycle
    <3>1. AtMem.regs[r] = IF rf_we /\ mem_wb_out.rd = r THEN wb_final_wdata ELSE ref.regs[r]
      BY Cycle, WriteBack DEF Clocked, Sound
    <3>2. regs = ref.regs /\ ref.regs[0] = 0
      BY DEF Clocked, Sound, InWb, Right
    <3> QED BY <3>1, <3>2 DEF GprRead, rf_we
  <2>7. ex_mem_valid' /\ ex_mem_out'.op = "lw" /\ ex_mem_out'.rd # 0 => ex_mem_out'.rd \notin {i.rs1, i.rs2}
    <3>1. ~hazard_stall
      BY <2>1 DEF Enters
    <3>2. CASE ex_mem_ready
      <4>1. ex_mem_valid' => ex_mem_out'.op = id_ex_out.op /\ ex_mem_out'.rd = id_ex_out.rd
        BY <3>2, CycleMoves DEF ex_mem_in
      <4> QED BY <2>3, <3>1, <4>1 DEF hazard_stall, Uses, IsLoad
    <3>3. CASE ~ex_mem_ready
      BY <2>3, <3>1, <3>3, CycleMoves DEF hazard_stall, Uses, IsLoad
    <3> QED BY <3>2, <3>3
  <2> QED BY <2>1, <2>2, <2>3, <2>4, <2>5, <2>6, <2>7 DEF id_ex_in
<1>2. CASE ~id_ex_ready
  <2>1. /\ id_ex_valid /\ ~ex_mem_ready /\ id_ex_out' = id_ex_out /\ AtEx(v)' = AtEx(v)
        /\ ex_mem_valid' /\ ex_mem_valid /\ ex_mem_out' = ex_mem_out
    BY <1>2, CycleMoves, Cycle
  <2>2. ex_data_latched' /\ ex_rs1_latched' = ex_rs1 /\ ex_rs2_latched' = ex_rs2
    BY <2>1, OperandsHeld DEF Clocked
  <2>3. ex_rs1 = AtEx(v).regs[Ins(AtEx(v)).rs1] /\ ex_rs2 = AtEx(v).regs[Ins(AtEx(v)).rs2]
    BY <2>1, Cycle, Operands DEF Clocked, Sound
  <2>4. Holds(v)
    BY <2>1 DEF Clocked, Sound, InEx
  <2> QED BY <2>1, <2>2, <2>3, <2>4
<1> QED BY <1>1, <1>2

-----------------------------------------------------------------------------

(* EX detects a misprediction exactly when decode was left with a wrong    *)
(* prediction: neither the BTB nor the RAS had the target.                 *)
Detected ==
    id_ex_valid => \A v \in Word :
        (ex_mispredict <=> /\ BtbWrong(AtEx(v), id_ex_out.btb_predicted, id_ex_out.btb_target)
                           /\ ~(/\ id_ex_out.ras_predicted /\ Taken(AtEx(v))
                                /\ id_ex_out.ras_pred_target = NextPc(AtEx(v))))

(* It does in a core that is sound so far.                                 *)
LEMMA Detects == CodeLines /\ TypeOK /\ InWb /\ InMem /\ InEx => Detected
<1> SUFFICES ASSUME CodeLines, TypeOK, InWb, InMem, InEx, id_ex_valid, NEW v \in Word
             PROVE  (ex_mispredict <=> /\ BtbWrong(AtEx(v), id_ex_out.btb_predicted, id_ex_out.btb_target)
                           /\ ~(/\ id_ex_out.ras_predicted /\ Taken(AtEx(v))
                                /\ id_ex_out.ras_pred_target = NextPc(AtEx(v))))
  BY DEF Detected
<1>1. (ex_branch_taken <=> Taken(AtEx(v))) /\ ex_branch_target = Target(AtEx(v))
  BY Operands
<1>2. Taken(AtEx(v)) => NextPc(AtEx(v)) = Target(AtEx(v))
  BY DEF NextPc
<1> QED BY <1>1, <1>2 DEF ex_mispredict, ex_ras_correct, BtbWrong

(* What an instruction that stays in EX detects stays; an empty EX detects *)
(* nothing.                                                                *)
LEMMA StillDetects ==
    ASSUME Clocked, ~Enters, ex_mispredict'
    PROVE  ex_mispredict
<1>1. id_ex_valid'
  BY DEF ex_mispredict
<1>2. id_ex_valid /\ ~ex_mem_ready /\ id_ex_valid' /\ id_ex_out' = id_ex_out
  BY <1>1, CycleMoves
<1>3. ex_rs1' = ex_rs1 /\ ex_rs2' = ex_rs2
  BY <1>2, OperandsHeld DEF Clocked
<1> QED BY <1>2, <1>3 DEF ex_mispredict, ex_ras_correct, ex_branch_taken, ex_branch_target

(* Decode: IF/ID empties, keeps its instruction or takes a fetched one.    *)
LEMMA DecodeMoves ==
    ASSUME Clocked
    PROVE  /\ ex_mispredict => ~if_id_valid'
           /\ ~ex_mispredict /\ if_id_valid /\ ~Enters => if_id_valid' /\ if_id_out' = if_id_out
           /\ ~ex_mispredict /\ Enters => ~if_id_valid'
           /\ ~ex_mispredict /\ ~if_id_valid =>
                 IF ifu_state = "DONE" THEN if_id_valid' /\ if_id_out' = if_id_in ELSE ~if_id_valid'
<1>1. IfIdClock /\ (jump_req <=> ex_mispredict)
  BY Cycle, NoTrapFlush DEF Clocked, Next, PipeClock
<1>2. if_id_ready <=> (id_ex_ready /\ ~hazard_stall) \/ ~if_id_valid
  BY DEF if_id_ready
<1>3. if_id_valid => ~ifu_valid
  BY DEF Clocked, Sound, Paired, FetchOnlyWhenDecodeEmpty, ifu_valid
<1>4. if_id_valid \in BOOLEAN
  BY Cycle DEF TypeOK
<1> HIDE DEF if_id_ready, hazard_stall, id_ex_ready, ex_mispredict, jump_req
<1> QED BY <1>1, <1>2, <1>3, <1>4 DEF IfIdClock, Pipcon, Enters, ifu_valid

(* The pc of the IFU moves on a redirection and with a finished fetch.     *)
LEMMA PcMoves ==
    ASSUME Clocked
    PROVE  pc_reg' = CASE ex_mispredict -> ex_npc
                       [] ~ex_mispredict /\ id_ras_hit -> ras_target
                       [] ~ex_mispredict /\ ~if_id_valid /\ ifu_state = "DONE" ->
                             IF btb_hit(pc_reg) THEN btb_target(pc_reg) ELSE Plus(pc_reg, 1)
                       [] OTHER -> pc_reg
<1>1. IfuClock(ifu_flush_req, next_pc, if_id_ready, ifu_arready, ifu_rvalid(bus_valid), ifu_rdata(bus_data))
  BY FetchClocks DEF Clocked
<1>2. ~wbu_trap_fire /\ ~wbu_mret_fire /\ ~global_trap_flush /\ (jump_req <=> ex_mispredict)
  BY Cycle, NoTrapFlush
<1>3. if_id_valid => ifu_state = "IDLE"
  BY DEF Clocked, Sound, Paired, FetchOnlyWhenDecodeEmpty
<1>4. ~if_id_valid => if_id_ready /\ ~id_ras_hit
  BY DEF if_id_ready, id_ras_hit, ras_hit
<1>5. CASE ifu_flush_req
  <2>1. pc_reg' = next_pc
    BY <1>1, <1>5 DEF IfuClock, IfuFlush
  <2>2. ex_mispredict \/ (~ex_mispredict /\ ~jump_req /\ id_ras_hit)
    BY <1>2, <1>5 DEF ifu_flush_req
  <2>3. next_pc = IF ex_mispredict THEN ex_npc ELSE ras_target
    BY <1>2, <1>5, <2>2 DEF next_pc
  <2> QED BY <2>1, <2>2, <2>3, <1>4
<1>6. CASE ~ifu_flush_req
  <2>1. ~ex_mispredict /\ ~id_ras_hit /\ ~jump_req
    BY <1>2, <1>6 DEF ifu_flush_req
  <2>2. next_pc = IF btb_hit(pc_reg) THEN btb_target(pc_reg) ELSE Plus(pc_reg, 1)
    BY <1>2, <1>6, <2>1 DEF next_pc
  <2>3. pc_reg' = IF ifu_state = "DONE" /\ if_id_ready THEN next_pc ELSE pc_reg
    BY <1>1, <1>6 DEF IfuClock, IfuStart, IfuReqAr, IfuWaitR, IfuDone
  <2> QED BY <1>3, <1>4, <2>1, <2>2, <2>3
<1> QED BY <1>5, <1>6

(* Fetch and decode follow the program, or a redirection is on its way.    *)
LEMMA FrontStep ==
    ASSUME Clocked, TypeOK'
    PROVE  Front'
<1> DEFINE right(pc, s, out) == pc = NextPc(s) \/ BtbWrong(s, out.btb_predicted, out.btb_target)
<1> SUFFICES ASSUME NEW v \in Word, NEW w \in Word
             PROVE  IF if_id_valid'
                    THEN /\ if_id_out'.pc = AtId(v, w)'.pc /\ ~ex_mispredict'
                         /\ right(pc_reg', AtId(v, w)', if_id_out')
                    ELSE pc_reg' = AtId(v, w)'.pc \/ ex_mispredict'
  BY DEF Front
<1>1. PICK a \in Word, b \in Word :
         /\ AtId(v, w)' = IF Enters THEN Step(AtId(a, b), w) ELSE AtId(a, b)
         /\ Enters => AtEx(v)' = AtId(a, b)
  BY Cycle
<1> DEFINE s == AtId(a, b)
<1>2. /\ AtId(v, w)' = IF Enters THEN Step(s, w) ELSE s
      /\ Enters => AtEx(v)' = s
      /\ Right(s) /\ (if_id_valid => id = Ins(s) /\ id.op \in PlainOps)
  BY <1>1, Decoded DEF Clocked
<1>3. IF if_id_valid THEN if_id_out.pc = s.pc /\ ~ex_mispredict /\ right(pc_reg, s, if_id_out)
                     ELSE pc_reg = s.pc \/ ex_mispredict
  BY DEF Clocked, Sound, Front
<1>4. id_ras_hit => ras_target = NextPc(s) \/ BtbWrong(s, if_id_out.btb_predicted, if_id_out.btb_target)
  BY DEF Clocked, RasHarmless
<1>5. id_ex_valid /\ ex_mispredict => ex_npc = s.pc
  <2> SUFFICES ASSUME id_ex_valid PROVE ex_npc = s.pc
    OBVIOUS
  <2>1. ex_npc = NextPc(AtEx(a)) /\ Right(AtEx(a)) /\ Ins(AtEx(a)).op \in PlainOps
    BY Cycle, Operands DEF Clocked, Sound, InEx
  <2> QED BY <2>1, StepEffect DEF AtId, Right
<1> HIDE DEF s
<1>6. CASE if_id_valid
  <2>1. if_id_out.pc = s.pc /\ ~ex_mispredict /\ right(pc_reg, s, if_id_out)
    BY <1>3, <1>6
  <2>2. pc_reg' = IF id_ras_hit THEN ras_target ELSE pc_reg
    BY <1>6, <2>1, PcMoves
  <2>3. right(pc_reg', s, if_id_out)
    BY <1>4, <2>1, <2>2
  <2>4. CASE ~Enters
    BY <1>2, <1>6, <2>1, <2>3, <2>4, DecodeMoves, StillDetects
  <2>5. CASE Enters
    <3>1. ~if_id_valid' /\ id_ex_valid' /\ id_ex_out' = id_ex_in
      BY <2>1, <2>5, CycleMoves, DecodeMoves DEF Enters
    <3>2. AtId(v, w)' = Step(s, w) /\ Step(s, w).pc = NextPc(s)
      BY <1>2, <1>6, <2>5, StepEffect DEF Right
    <3>3. ex_mispredict' <=> /\ BtbWrong(s, if_id_out.btb_predicted, if_id_out.btb_target)
                             /\ ~(id_ras_hit /\ Taken(s) /\ ras_target = NextPc(s))
      <4>1. (CodeLines /\ TypeOK /\ InWb /\ InMem /\ InEx)'
        BY WbStep, MemStep, ExStep DEF Clocked, CodeLines
      <4>2. Detected'
        BY <4>1, Detects, PTL
      <4> QED BY <1>2, <2>5, <3>1, <4>2 DEF Detected, id_ex_in
    <3>4. id_ras_hit => Taken(s)
      BY <1>2, <1>6 DEF id_ras_hit, ras_hit, id_is_ret, Taken, IsJump
    <3> QED BY <2>2, <2>3, <3>1, <3>2, <3>3, <3>4
  <2> QED BY <2>4, <2>5
<1>7. CASE ~if_id_valid
  <2>1. AtId(v, w)' = s /\ ~Enters /\ ~id_ras_hit
    BY <1>2, <1>7 DEF Enters, id_ras_hit, ras_hit
  <2>2. pc_reg = s.pc \/ ex_mispredict
    BY <1>3, <1>7
  <2>3. CASE ex_mispredict
    <3>1. id_ex_valid
      BY <2>3 DEF ex_mispredict
    <3> QED BY <1>5, <2>1, <2>3, <3>1, PcMoves, DecodeMoves
  <2>4. CASE ~ex_mispredict /\ ifu_state = "DONE"
    <3>1. /\ if_id_valid' /\ if_id_out' = if_id_in
          /\ pc_reg' = IF btb_hit(pc_reg) THEN btb_target(pc_reg) ELSE Plus(pc_reg, 1)
      BY <1>7, <2>1, <2>4, DecodeMoves, PcMoves
    <3>2. pc_reg = s.pc
      BY <2>2, <2>4
    <3>3. NextPc(s) = IF Taken(s) THEN NextPc(s) ELSE Plus(pc_reg, 1)
      BY <3>2 DEF NextPc
    <3>4. if_id_in.pc = pc_reg /\ if_id_in.btb_predicted = btb_hit(pc_reg) /\ if_id_in.btb_target = btb_target(pc_reg)
      BY DEF if_id_in
    <3>5. right(pc_reg', s, if_id_in)
      BY <3>1, <3>3, <3>4 DEF BtbWrong
    <3> QED BY <2>1, <2>4, <3>1, <3>2, <3>4, <3>5, StillDetects
  <2>5. CASE ~ex_mispredict /\ ifu_state # "DONE"
    BY <1>7, <2>1, <2>2, <2>5, PcMoves, DecodeMoves
  <2> QED BY <2>3, <2>4, <2>5
<1> QED BY <1>6, <1>7

-----------------------------------------------------------------------------
(* The bus accepts a store.                                                *)
WriteReady == lsu_wready(lsu_arvalid, icache_arvalid)

(* The actions that make up an edge of the LSU's store machine, of the     *)
(* write machine of the bus and of that of the SRAM.                       *)
LEMMA StoreClocks ==
    ASSUME Next
    PROVE  /\ BusWriteClock(WriteReady, lsu_awvalid, lsu_awaddr, lsu_wvalid, lsu_wdata,
                            lsu_bready, m_awready(awaddr_reg), m_wready(awaddr_reg), m_bvalid(awaddr_reg))
           /\ \/ LsuStoreStart(ex_mem_valid /\ ex_mem_out.op = "sw", ex_mem_out.alu_result, ex_mem_out.mem_wdata)
              \/ LsuStoreSync(WriteReady, WriteReady)
              \/ LsuStoreFinish(lsu_bvalid_reg, mem_out_valid)
           /\ SramWriteClock(awvalid_reg /\ awaddr_reg \in SramAddr, awaddr_reg,
                             wvalid_reg /\ awaddr_reg \in SramAddr, wdata_reg,
                             m_bready /\ awaddr_reg \in SramAddr)
<1>1. PICK t \in Times : MemClock(t)
  BY DEF Next
<1>2. LsuClock(ex_mem_valid, TRUE, IsLoad(ex_mem_out.op), IsStore(ex_mem_out.op),
               ex_mem_out.alu_result, ex_mem_out.mem_wdata, lsu_arready, lsu_rvalid, lsu_rdata_reg,
               WriteReady, WriteReady, lsu_bvalid_reg)
  BY <1>1 DEF MemClock, WriteReady
<1>3. \/ LsuStoreStart(ex_mem_valid /\ ex_mem_out.op = "sw", ex_mem_out.alu_result, ex_mem_out.mem_wdata)
      \/ LsuStoreSync(WriteReady, WriteReady)
      \/ LsuStoreFinish(lsu_bvalid_reg, mem_out_valid)
  BY <1>2 DEF LsuClock, IsStore, mem_out_valid, LsuStoreStart, LsuStoreFinish
<1> QED BY <1>1, <1>3 DEF MemClock, WriteReady, SocWriteClock

(* The edges of the LSU's store machine, and what the bus takes from it.   *)
LEMMA LsuStoreMoves ==
    ASSUME TypeOK, StoreHandshake, Next
    PROVE  /\ lsu_store = "STORE_IDLE" =>
                 IF ex_mem_valid /\ ex_mem_out.op = "sw"
                 THEN /\ lsu_store' = "STORE_SYNC"
                      /\ lsu_awaddr' = ex_mem_out.alu_result /\ lsu_wdata' = ex_mem_out.mem_wdata
                 ELSE lsu_store' = "STORE_IDLE"
           /\ lsu_store = "STORE_SYNC" =>
                 \/ lsu_store' = "STORE_SYNC" /\ UNCHANGED <<lsu_awaddr, lsu_wdata>>
                 \/ lsu_store' = "STORE_RESP" /\ awaddr_reg' = lsu_awaddr /\ wdata_reg' = lsu_wdata
           /\ lsu_store = "STORE_RESP" =>
                 /\ lsu_store' = IF state_store = "WRITE_DONE" THEN "STORE_DONE" ELSE "STORE_RESP"
                 /\ UNCHANGED <<awaddr_reg, wdata_reg>>
           /\ lsu_store = "STORE_DONE" => lsu_store' = IF mem_out_valid THEN "STORE_IDLE" ELSE "STORE_DONE"
<1> HIDE DEF mem_out_valid
<1>1. BusWriteClock(WriteReady, lsu_awvalid, lsu_awaddr, lsu_wvalid, lsu_wdata,
                    lsu_bready, m_awready(awaddr_reg), m_wready(awaddr_reg), m_bvalid(awaddr_reg))
  BY StoreClocks
<1>2. /\ aw_done = FALSE /\ w_done = FALSE
      /\ lsu_awvalid = (lsu_store = "STORE_SYNC") /\ lsu_wvalid = (lsu_store = "STORE_SYNC")
      /\ lsu_bvalid_reg <=> state_store = "WRITE_DONE"
  BY DEF StoreHandshake, LsuWritePaired
<1>3. CASE lsu_store = "STORE_IDLE"
  BY <1>3, StoreClocks DEF LsuStoreStart, LsuStoreSync, LsuStoreFinish
<1>4. CASE lsu_store = "STORE_SYNC"
  <2>1. LsuStoreSync(WriteReady, WriteReady)
    BY <1>4, StoreClocks DEF LsuStoreStart, LsuStoreFinish
  <2>2. CASE ~WriteReady
    BY <1>2, <1>4, <2>1, <2>2 DEF LsuStoreSync
  <2>3. CASE WriteReady
    <3>1. state_store = "WRITE_IDLE"
      BY <2>3 DEF WriteReady, lsu_wready, bus_write_idle
    <3>2. awaddr_reg' = lsu_awaddr /\ wdata_reg' = lsu_wdata
      BY <1>1, <1>2, <1>4, <2>3, <3>1 DEF BusWriteClock, BusWriteAccept, BusSync, BusWriteB, BusWriteDone
    <3> QED BY <1>4, <2>1, <2>3, <3>2 DEF LsuStoreSync
  <2> QED BY <2>2, <2>3
<1>5. CASE lsu_store = "STORE_RESP"
  <2>1. UNCHANGED <<awaddr_reg, wdata_reg>>
    BY <1>1, <1>2, <1>5 DEF BusWriteClock, BusWriteAccept, BusSync, BusWriteB, BusWriteDone
  <2> QED BY <1>2, <1>5, <2>1, StoreClocks DEF LsuStoreStart, LsuStoreSync, LsuStoreFinish
<1>6. CASE lsu_store = "STORE_DONE"
  BY <1>6, StoreClocks DEF LsuStoreStart, LsuStoreSync, LsuStoreFinish
<1> QED BY <1>3, <1>4, <1>5, <1>6

(* The bus and the SRAM carry one store at a time, in step.                *)
LEMMA StorePathStep ==
    ASSUME TypeOK, StoreHandshake, StorePath, Next
    PROVE  /\ StorePath'
           /\ state_store = "WRITE_B" /\ awaddr_reg \in SramAddr =>
                 state_store' = IF sram_write = "B" THEN "WRITE_DONE" ELSE "WRITE_B"
           /\ state_store = "WRITE_DONE" => state_store' = "WRITE_IDLE"
           /\ state_store \notin {"WRITE_B", "WRITE_DONE"} => state_store' # "WRITE_DONE"
           /\ sram_write = "B" => state_store = "WRITE_B" /\ awaddr_reg \in SramAddr
<1> DEFINE sram == SramWriteClock(awvalid_reg /\ awaddr_reg \in SramAddr, awaddr_reg,
                                  wvalid_reg /\ awaddr_reg \in SramAddr, wdata_reg,
                                  m_bready /\ awaddr_reg \in SramAddr)
<1>1. /\ BusWriteClock(WriteReady, lsu_awvalid, lsu_awaddr, lsu_wvalid, lsu_wdata,
                       lsu_bready, m_awready(awaddr_reg), m_wready(awaddr_reg), m_bvalid(awaddr_reg))
      /\ sram
  BY StoreClocks
<1>2. /\ state_store \in {"WRITE_IDLE", "SYNC", "WRITE_B", "WRITE_DONE"}
      /\ awvalid_reg \in BOOLEAN /\ wvalid_reg \in BOOLEAN /\ slave_aw_done \in BOOLEAN
      /\ slave_w_done \in BOOLEAN /\ aw_received \in BOOLEAN /\ w_received \in BOOLEAN
      /\ sram_write \in {"AW", "W", "B"}
  BY DEF TypeOK, BusTypeOK, SocTypeOK, SramTypeOK
<1>3. /\ state_store # "WRITE_IDLE" => lsu_store = "STORE_RESP"
      /\ lsu_aw_done \in BOOLEAN /\ lsu_w_done = lsu_aw_done
      /\ state_store = "WRITE_DONE" => lsu_bvalid_reg /\ lsu_bready
  BY DEF StoreHandshake, LsuWritePaired, lsu_bready
<1>4. awaddr_reg \in SramAddr =>
         /\ m_awready(awaddr_reg) <=> sram_write = "AW" /\ ~aw_received
         /\ m_wready(awaddr_reg) <=> sram_write = "AW" /\ ~w_received
         /\ m_bvalid(awaddr_reg) <=> sram_write = "B"
  BY MapAssumption DEF m_awready, m_wready, m_bvalid, sram_awready, sram_wready, sram_bvalid
<1>5. CASE state_store = "WRITE_IDLE"
  <2>1. BusWriteAccept(WriteReady, lsu_awvalid, lsu_awaddr, lsu_wvalid, lsu_wdata)
    BY <1>1, <1>5 DEF BusWriteClock, BusSync, BusWriteB, BusWriteDone
  <2>2. /\ sram_write = "AW" /\ ~aw_received /\ ~w_received
        /\ ~awvalid_reg /\ ~wvalid_reg /\ ~slave_aw_done /\ ~slave_w_done
    BY <1>5 DEF StorePath
  <2>3. sram_write' = "AW" /\ ~aw_received' /\ ~w_received'
    BY <1>1, <2>2 DEF SramWriteClock, SramWriteAccept, SramWriteDelay, SramWriteResp
  <2>4. CASE lsu_aw_done = TRUE
    <3>1. /\ awvalid_reg' = TRUE /\ wvalid_reg' = TRUE /\ slave_aw_done' = FALSE /\ slave_w_done' = FALSE
          /\ state_store' = "SYNC"
      BY <1>2, <1>3, <2>1, <2>2, <2>4 DEF BusWriteAccept
    <3>2. aw_received' = FALSE /\ w_received' = FALSE
      BY <1>1, <2>2 DEF SramWriteClock, SramWriteAccept, SramWriteDelay, SramWriteResp
    <3> QED BY <1>5, <2>2, <2>3, <3>1, <3>2 DEF StorePath
  <2>5. CASE lsu_aw_done = FALSE
    <3>1. /\ ~awvalid_reg' /\ ~wvalid_reg' /\ ~slave_aw_done' /\ ~slave_w_done'
          /\ state_store' = "WRITE_IDLE"
      BY <1>3, <2>1, <2>2, <2>5 DEF BusWriteAccept
    <3> QED BY <1>5, <2>2, <2>3, <3>1 DEF StorePath
  <2> QED BY <1>3, <2>4, <2>5
<1>6. CASE state_store \in {"SYNC", "WRITE_B"} /\ awaddr_reg \notin SramAddr
  <2>1. sram_write' = "AW" /\ ~aw_received' /\ ~w_received'
    <3>1. sram_write = "AW" /\ ~aw_received /\ ~w_received
      BY <1>6 DEF StorePath
    <3> QED BY <1>1, <1>6, <3>1 DEF SramWriteClock, SramWriteAccept, SramWriteDelay, SramWriteResp
  <2>2. sram_write # "B" /\ awaddr_reg' = awaddr_reg
    BY <1>1, <1>6 DEF StorePath, BusWriteClock, BusWriteAccept, BusSync, BusWriteB, BusWriteDone, bus_write_idle
  <2>3. CASE state_store = "SYNC"
    <3>1. BusSync(m_awready(awaddr_reg), m_wready(awaddr_reg))
      BY <1>1, <2>3 DEF BusWriteClock, BusWriteAccept, BusWriteB, BusWriteDone, bus_write_idle
    <3>2. slave_aw_done = ~awvalid_reg /\ slave_w_done = ~wvalid_reg
      BY <2>3 DEF StorePath
    <3>3. CASE ~awvalid_reg /\ ~wvalid_reg
      <4>1. /\ ~awvalid_reg' /\ ~wvalid_reg' /\ ~slave_aw_done' /\ ~slave_w_done'
            /\ state_store' = "WRITE_B"
        BY <3>1, <3>2, <3>3 DEF BusSync
      <4> QED BY <1>3, <1>6, <2>1, <2>2, <2>3, <4>1 DEF StorePath
    <3>4. CASE awvalid_reg \/ wvalid_reg
      <4>1. /\ slave_aw_done' = ~awvalid_reg' /\ slave_w_done' = ~wvalid_reg'
            /\ state_store' = "SYNC"
        BY <1>2, <3>1, <3>2, <3>4 DEF BusSync
      <4> QED BY <1>3, <1>6, <2>1, <2>2, <2>3, <4>1 DEF StorePath
    <3> QED BY <3>3, <3>4
  <2>4. CASE state_store = "WRITE_B"
    <3>1. BusWriteB(m_bvalid(awaddr_reg))
      BY <1>1, <2>4 DEF BusWriteClock, BusWriteAccept, BusSync, BusWriteDone, bus_write_idle
    <3>2. ~awvalid_reg /\ ~wvalid_reg /\ ~slave_aw_done /\ ~slave_w_done
      BY <2>4 DEF StorePath
    <3> QED BY <1>6, <2>1, <2>2, <2>4, <3>1, <3>2 DEF BusWriteB, StorePath
  <2> QED BY <1>6, <2>3, <2>4
<1>7. CASE state_store = "SYNC" /\ awaddr_reg \in SramAddr
  <2>1. BusSync(m_awready(awaddr_reg), m_wready(awaddr_reg))
    BY <1>1, <1>7 DEF BusWriteClock, BusWriteAccept, BusWriteB, BusWriteDone, bus_write_idle
  <2>2. /\ sram_write = "AW" /\ wvalid_reg = awvalid_reg
        /\ slave_aw_done = ~awvalid_reg /\ slave_w_done = ~awvalid_reg
        /\ aw_received = ~awvalid_reg /\ w_received = ~awvalid_reg
        /\ ~awvalid_reg => write_addr_reg = awaddr_reg /\ write_data_reg = wdata_reg
    BY <1>7 DEF StorePath
  <2>3. SramWriteAccept(awvalid_reg /\ awaddr_reg \in SramAddr, awaddr_reg,
                        wvalid_reg /\ awaddr_reg \in SramAddr, wdata_reg)
    BY <1>1, <2>2 DEF SramWriteClock, SramWriteDelay, SramWriteResp
  <2>5. CASE awvalid_reg = TRUE
    <3>1. /\ awvalid_reg' = FALSE /\ wvalid_reg' = FALSE /\ slave_aw_done' = TRUE /\ slave_w_done' = TRUE
          /\ state_store' = "SYNC" /\ UNCHANGED <<awaddr_reg, wdata_reg>>
      BY <1>4, <1>7, <2>1, <2>2, <2>5 DEF BusSync
    <3>2. /\ write_addr_reg' = awaddr_reg /\ write_data_reg' = wdata_reg
          /\ aw_received' = TRUE /\ w_received' = TRUE /\ sram_write' = "AW"
      BY <1>7, <2>2, <2>3, <2>5 DEF SramWriteAccept
    <3> QED BY <1>7, <2>2, <3>1, <3>2 DEF StorePath
  <2>6. CASE awvalid_reg = FALSE
    <3>1. /\ awvalid_reg' = FALSE /\ wvalid_reg' = FALSE /\ slave_aw_done' = FALSE /\ slave_w_done' = FALSE
          /\ state_store' = "WRITE_B" /\ UNCHANGED <<awaddr_reg, wdata_reg>>
      BY <1>7, <2>1, <2>2, <2>6 DEF BusSync
    <3>2. /\ write_addr_reg' = awaddr_reg /\ write_data_reg' = wdata_reg
          /\ aw_received' = FALSE /\ w_received' = FALSE /\ sram_write' = "W"
      BY <2>2, <2>3, <2>6 DEF SramWriteAccept
    <3> QED BY <1>7, <2>2, <3>1, <3>2 DEF StorePath
  <2> QED BY <1>2, <2>5, <2>6
<1>8. CASE state_store = "WRITE_B" /\ awaddr_reg \in SramAddr
  <2>1. BusWriteB(m_bvalid(awaddr_reg))
    BY <1>1, <1>8 DEF BusWriteClock, BusWriteAccept, BusSync, BusWriteDone, bus_write_idle
  <2>2. /\ sram_write \in {"W", "B"} /\ ~aw_received /\ ~w_received
        /\ ~awvalid_reg /\ ~wvalid_reg /\ ~slave_aw_done /\ ~slave_w_done
        /\ write_addr_reg = awaddr_reg /\ write_data_reg = wdata_reg
        /\ awaddr_reg \in SramAddr /\ m_bready
    BY <1>3, <1>8 DEF StorePath, m_bready
  <2>3. /\ ~aw_received' /\ ~w_received' /\ UNCHANGED <<write_addr_reg, write_data_reg>>
        /\ sram_write = "W" => sram_write' \in {"W", "B"}
        /\ sram_write = "B" => sram_write' = "AW"
    <3>1. CASE sram_write = "W"
      <4>1. SramWriteDelay
        BY <1>1, <3>1 DEF SramWriteClock, SramWriteAccept, SramWriteResp
      <4> QED BY <2>2, <3>1, <4>1 DEF SramWriteDelay, sramWriteVars
    <3>2. CASE sram_write = "B"
      <4>1. SramWriteResp(m_bready /\ awaddr_reg \in SramAddr)
        BY <1>1, <3>2 DEF SramWriteClock, SramWriteAccept, SramWriteDelay
      <4> QED BY <2>2, <3>2, <4>1 DEF SramWriteResp
    <3> QED BY <2>2, <3>1, <3>2
  <2> QED BY <1>4, <1>8, <2>1, <2>2, <2>3 DEF BusWriteB, StorePath
<1>9. CASE state_store = "WRITE_DONE"
  <2>1. BusWriteDone(lsu_bready)
    BY <1>1, <1>9 DEF BusWriteClock, BusWriteAccept, BusSync, BusWriteB, bus_write_idle
  <2>2. /\ sram_write = "AW" /\ ~aw_received /\ ~w_received
        /\ ~awvalid_reg /\ ~wvalid_reg /\ ~slave_aw_done /\ ~slave_w_done
    BY <1>9 DEF StorePath
  <2>3. sram_write' = "AW" /\ ~aw_received' /\ ~w_received'
    BY <1>1, <2>2 DEF SramWriteClock, SramWriteAccept, SramWriteDelay, SramWriteResp
  <2> QED BY <1>3, <1>9, <2>1, <2>2, <2>3 DEF BusWriteDone, StorePath
<1> QED BY <1>2, <1>5, <1>6, <1>7, <1>8, <1>9

(* The store in MEM is sent with its address and data, and memory holds it *)
(* once the SRAM has answered.                                             *)
LEMMA StoreStep ==
    ASSUME Clocked
    PROVE  StorePath' /\ StoreRight'
<1> DEFINE written == IF ex_mem_out.op = "sw" /\ ex_mem_out.alu_result \in SramAddr
                      THEN [AtMem.mem EXCEPT ![ex_mem_out.alu_result] = ex_mem_out.mem_wdata]
                      ELSE AtMem.mem
<1>1. TypeOK /\ StoreHandshake /\ StorePath /\ StoreRight /\ LoadRight /\ InMem /\ Next
  BY DEF Clocked, Sound, Paired
<1>2. /\ StorePath'
      /\ state_store = "WRITE_B" /\ awaddr_reg \in SramAddr =>
            state_store' = IF sram_write = "B" THEN "WRITE_DONE" ELSE "WRITE_B"
      /\ state_store = "WRITE_DONE" => state_store' = "WRITE_IDLE"
      /\ state_store \notin {"WRITE_B", "WRITE_DONE"} => state_store' # "WRITE_DONE"
      /\ sram_write = "B" => state_store = "WRITE_B" /\ awaddr_reg \in SramAddr
  BY <1>1, StorePathStep
<1>3. /\ lsu_store \in {"STORE_IDLE", "STORE_SYNC", "STORE_RESP", "STORE_DONE"}
      /\ state_store \in {"WRITE_IDLE", "SYNC", "WRITE_B", "WRITE_DONE"}
      /\ state_store # "WRITE_IDLE" => lsu_store = "STORE_RESP"
  BY <1>1 DEF TypeOK, LsuTypeOK, BusTypeOK, StoreHandshake, LsuWritePaired
<1>4. /\ lsu_store # "STORE_IDLE" => ex_mem_valid /\ ex_mem_out.op = "sw"
      /\ lsu_store = "STORE_SYNC" => /\ lsu_awaddr = ex_mem_out.alu_result
                                     /\ lsu_wdata = ex_mem_out.mem_wdata
      /\ lsu_store = "STORE_RESP" => /\ awaddr_reg = ex_mem_out.alu_result
                                     /\ wdata_reg = ex_mem_out.mem_wdata
      /\ mem = IF Stored THEN Step(AtMem, 0).mem ELSE AtMem.mem
  BY <1>1 DEF StoreRight
<1>5. ex_mem_valid => /\ Step(AtMem, 0).mem = written
                       /\ Step(AtMem, read_data).mem = written
  <2>1. 0 \in Word /\ read_data \in Word
    BY <1>1, WordArith DEF TypeOK, LsuTypeOK
  <2>2. ASSUME ex_mem_valid, NEW v \in Word PROVE Step(AtMem, v).mem = written
    <3>1. /\ Done(ex_mem_out, AtMem) /\ ex_mem_out.mem_wdata = AtMem.regs[Ins(AtMem).rs2]
          /\ AtMem \in MachineState /\ AtMem.running
      BY <1>1, <2>2, Cycle DEF InMem, Right
    <3>2. /\ ex_mem_out.op = Ins(AtMem).op /\ Ins(AtMem).op \in PlainOps
          /\ ex_mem_out.alu_result = Result(AtMem)
          /\ ex_mem_out.op = "sw" => ex_mem_out.alu_result \in SramAddr \cup SkipAddr
      BY <3>1 DEF Done
    <3>3. ex_mem_out.op = "sw" => (Device(AtMem) <=> ex_mem_out.alu_result \notin SramAddr)
      BY <3>2, Accesses DEF Clocked, DevicesApart
    <3>4. Step(AtMem, v).mem = IF Ins(AtMem).op = "sw" /\ ~Device(AtMem)
                               THEN [AtMem.mem EXCEPT ![Result(AtMem)] = AtMem.regs[Ins(AtMem).rs2]]
                               ELSE AtMem.mem
      BY <2>2, <3>1, <3>2, StepEffect
    <3> QED BY <3>1, <3>2, <3>3, <3>4
  <2> QED BY <2>1, <2>2
<1>6. \/ lsu_store' = "STORE_IDLE"
      \/ /\ ~ex_mem_ready /\ ex_mem_valid' /\ ex_mem_out' = ex_mem_out /\ ex_mem_out.op = "sw"
  <2>1. ex_mem_valid /\ ex_mem_out.op = "sw" /\ lsu_store # "STORE_DONE" => ~ex_mem_ready
    BY <1>1, MemLeaves DEF ex_mem_ready
  <2>2. lsu_store = "STORE_DONE" => lsu_store' = "STORE_IDLE"
    <3>1. lsu_store = "STORE_DONE" => mem_out_valid
      BY DEF mem_out_valid, mem_valid
    <3> QED BY <1>1, <3>1, LsuStoreMoves
  <2>3. ~ex_mem_ready => ex_mem_valid' /\ ex_mem_out' = ex_mem_out
    BY CycleMoves
  <2>4. lsu_store = "STORE_IDLE" /\ ~(ex_mem_valid /\ ex_mem_out.op = "sw") => lsu_store' = "STORE_IDLE"
    BY <1>1, LsuStoreMoves
  <2> QED BY <1>3, <1>4, <2>1, <2>2, <2>3, <2>4
<1>7. /\ lsu_store' # "STORE_IDLE" => ex_mem_valid' /\ ex_mem_out'.op = "sw"
      /\ lsu_store' = "STORE_SYNC" => /\ lsu_awaddr' = ex_mem_out'.alu_result
                                      /\ lsu_wdata' = ex_mem_out'.mem_wdata
      /\ lsu_store' = "STORE_RESP" => /\ awaddr_reg' = ex_mem_out'.alu_result
                                      /\ wdata_reg' = ex_mem_out'.mem_wdata
  BY <1>1, <1>3, <1>4, <1>6, LsuStoreMoves
<1>8. mem' = IF Stored' THEN Step(AtMem', 0).mem ELSE AtMem'.mem
  <2>1. CASE ex_mem_ready
    <3>1. lsu_store # "STORE_RESP" /\ lsu_store' = "STORE_IDLE"
      BY <1>1, <1>3, <1>6, <2>1, MemLeaves DEF ex_mem_ready
    <3>2. state_store = "WRITE_IDLE" /\ sram_write = "AW"
      BY <1>1, <3>1, NothingStored
    <3>3. mem' = mem /\ sram_write' # "B" /\ state_store' # "WRITE_DONE"
      BY <1>1, <1>2, <3>1, <3>2, Writes
    <3>4. ~Stored' /\ AtMem' = AtEx(read_data)
      BY <2>1, <3>1, <3>3, Cycle DEF Stored
    <3>5. mem = AtEx(read_data).mem
      <4>1. CASE ex_mem_valid
        <5>1. mem_out_valid /\ AtEx(read_data) = Step(AtMem, read_data)
          BY <2>1, <4>1 DEF ex_mem_ready, AtEx
        <5>2. CASE ex_mem_out.op = "sw"
          <6>1. Stored
            BY <1>1, <5>1, <5>2, MemLeaves DEF Stored
          <6> QED BY <1>4, <1>5, <4>1, <5>1, <6>1
        <5>3. CASE ex_mem_out.op # "sw"
          <6>1. ~Stored
            BY <1>1, <1>4, <5>3, NothingStored
          <6> QED BY <1>4, <1>5, <4>1, <5>1, <5>3, <6>1
        <5> QED BY <5>2, <5>3
      <4>2. CASE ~ex_mem_valid
        <5>1. ~Stored
          BY <1>1, <1>4, <4>2, NothingStored
        <5> QED BY <1>4, <4>2, <5>1 DEF AtEx
      <4> QED BY <4>1, <4>2
    <3> QED BY <3>3, <3>4, <3>5
  <2>2. CASE ~ex_mem_ready
    <3>1. AtMem' = AtMem /\ lsu_store # "STORE_DONE" /\ ex_mem_valid
      BY <1>1, <2>2, Cycle, MemLeaves DEF ex_mem_ready
    <3>2. /\ lsu_store = "STORE_RESP" =>
                lsu_store' = IF state_store = "WRITE_DONE" THEN "STORE_DONE" ELSE "STORE_RESP"
          /\ lsu_store # "STORE_RESP" => lsu_store' # "STORE_DONE"
      BY <1>1, <1>3, <3>1, LsuStoreMoves
    <3>3. CASE mem' = mem /\ (sram_write' = "B" => sram_write = "B")
      <4>1. CASE ex_mem_out.op = "sw" /\ ex_mem_out.alu_result \notin SramAddr
        BY <1>4, <1>5, <3>1, <3>3, <4>1
      <4>2. CASE ~(ex_mem_out.op = "sw" /\ ex_mem_out.alu_result \notin SramAddr)
        <5>1. state_store \in {"SYNC", "WRITE_B"} => awaddr_reg \in SramAddr
          BY <1>3, <1>4, <4>2
        <5>2. Stored' <=> Stored
          BY <1>2, <1>3, <3>1, <3>2, <3>3, <5>1 DEF Stored, StorePath
        <5> QED BY <1>4, <3>1, <3>3, <5>2
      <4> QED BY <4>1, <4>2
    <3>4. CASE /\ sram_write = "W" /\ sram_write' = "B"
               /\ state_store = "WRITE_B" /\ lsu_store = "STORE_RESP"
               /\ ex_mem_valid /\ ex_mem_out.op = "sw"
               /\ mem' = [mem EXCEPT ![ex_mem_out.alu_result] = ex_mem_out.mem_wdata]
      <4>1. Stored' /\ ~Stored
        BY <3>4 DEF Stored
      <4>2. ex_mem_out.alu_result \in SramAddr
        BY <1>1, <1>4, <3>4 DEF StorePath
      <4> QED BY <1>4, <1>5, <3>1, <3>4, <4>1, <4>2
    <3> QED BY <1>1, <3>3, <3>4, Writes
  <2> QED BY <2>1, <2>2
<1> QED BY <1>2, <1>7, <1>8 DEF StoreRight

-----------------------------------------------------------------------------
(* The load machine of the LSU and the read machine of the bus, edge by    *)
(* edge; the bus answers a load from the CLINT itself.                     *)
LEMMA LoadMoves ==
    ASSUME TypeOK, LsuReadPaired, Next
    PROVE  /\ lsu_load = "LOAD_IDLE" =>
                 IF ex_mem_valid /\ ex_mem_out.op = "lw"
                 THEN lsu_load' = "LOAD_ADDR" /\ lsu_araddr' = ex_mem_out.alu_result
                 ELSE lsu_load' = "LOAD_IDLE"
           /\ lsu_load = "LOAD_ADDR" =>
                 \/ lsu_load' = "LOAD_ADDR" /\ lsu_araddr' = lsu_araddr
                 \/ /\ lsu_load' = "LOAD_DATA" /\ lsu_araddr \notin Clint
                    /\ state_load' = "LSU_REQ_AR" /\ araddr_reg' = lsu_araddr
                 \/ lsu_load' = "LOAD_DATA" /\ lsu_araddr \in Clint /\ state_load' = "LSU_DONE"
           /\ lsu_load = "LOAD_DATA" =>
                 IF state_load = "LSU_DONE"
                 THEN lsu_load' = "LOAD_DONE" /\ read_data' = lsu_rdata_reg
                 ELSE lsu_load' = "LOAD_DATA"
           /\ lsu_load = "LOAD_DONE" => lsu_load' = "LOAD_IDLE"
           /\ state_load = "LSU_WAIT_R" /\ state_load' = "LSU_DONE" =>
                 m_rvalid(araddr_reg) /\ lsu_rdata_reg' = m_rdata(araddr_reg)
           /\ state_load = "LSU_DONE" => state_load' = "BUS_IDLE"
<1>1. PICK t \in Times : MemClock(t)
  BY DEF Next
<1>2. BusReadClock(lsu_arvalid, lsu_araddr, lsu_rready, icache_arvalid, icache_araddr, icache_arlen,
                   m_arready(araddr_reg), m_rvalid(araddr_reg), m_rlast(araddr_reg), m_rdata(araddr_reg), t)
  BY <1>1 DEF MemClock
<1>3. LsuLoadClock(ex_mem_valid /\ ex_mem_out.op = "lw", ex_mem_out.alu_result,
                   lsu_arready, lsu_rvalid, lsu_rdata_reg, mem_out_valid)
  BY <1>1 DEF MemClock, LsuClock, LsuLoadClock, IsLoad, mem_out_valid
<1>4. lsu_load \in {"LOAD_IDLE", "LOAD_ADDR", "LOAD_DATA", "LOAD_DONE"}
  BY DEF TypeOK, LsuTypeOK
<1>5. lsu_load = "LOAD_DONE" => mem_out_valid
  BY DEF mem_out_valid, mem_valid
<1> HIDE DEF mem_out_valid
<1>6. ASSUME lsu_load = "LOAD_ADDR", lsu_arready
      PROVE  IF lsu_araddr \in Clint THEN state_load' = "LSU_DONE"
             ELSE state_load' = "LSU_REQ_AR" /\ araddr_reg' = lsu_araddr
  <2>1. bus_read_idle /\ bus_write_idle /\ lsu_arvalid /\ state_load = "BUS_IDLE"
    BY <1>6 DEF lsu_arready, lsu_arvalid, bus_read_idle
  <2>2. BusAcceptLsuRead(lsu_arvalid, lsu_araddr, t)
    BY <1>2, <2>1 DEF BusReadClock, BusAcceptIfuRead, BusReadStaysIdle, BusReqAr, BusIfuWaitR,
       BusLsuWaitR, BusLsuDone, m_arvalid
  <2> QED BY <1>6, <2>2 DEF BusAcceptLsuRead
<1>7. state_load = "LSU_WAIT_R" /\ state_load' = "LSU_DONE" =>
         m_rvalid(araddr_reg) /\ lsu_rdata_reg' = m_rdata(araddr_reg)
  BY <1>2 DEF BusReadClock, BusAcceptLsuRead, BusAcceptIfuRead, BusReadStaysIdle, BusReqAr, BusIfuWaitR,
     BusLsuWaitR, BusLsuDone, m_arvalid, bus_read_idle
<1>8. ASSUME state_load = "LSU_DONE" PROVE state_load' = "BUS_IDLE"
  <2>1. lsu_rready
    BY <1>8 DEF LsuReadPaired, lsu_rready
  <2> QED BY <1>2, <1>8, <2>1 DEF BusReadClock, BusAcceptLsuRead, BusAcceptIfuRead, BusReadStaysIdle,
     BusReqAr, BusIfuWaitR, BusLsuWaitR, BusLsuDone, m_arvalid, bus_read_idle
<1> QED BY <1>3, <1>4, <1>5, <1>6, <1>7, <1>8 DEF LsuLoadClock, lsu_rvalid

(* The load in MEM asks for its address and is given the word of memory.   *)
LEMMA LoadStep ==
    ASSUME Clocked, LsuReadPaired'
    PROVE  LoadRight'
<1>1. TypeOK /\ LsuReadPaired /\ StoreHandshake /\ StorePath /\ StoreRight /\ LoadRight /\ InMem /\ BurstInv /\ Next
  BY DEF Clocked, Sound, Paired
<1>2. /\ lsu_load \in {"LOAD_IDLE", "LOAD_ADDR", "LOAD_DATA", "LOAD_DONE"}
      /\ state_load \in {"BUS_IDLE", "IFU_REQ_AR", "IFU_WAIT_R", "LSU_REQ_AR", "LSU_WAIT_R", "LSU_DONE"}
      /\ sram_read \in {"AR", "D", "R"} /\ beat_cnt \in Nat /\ araddr_reg \in Word
  BY <1>1 DEF TypeOK, LsuTypeOK, BusTypeOK, SocTypeOK, SramTypeOK
<1>3. /\ lsu_load # "LOAD_IDLE" => ex_mem_valid /\ ex_mem_out.op = "lw"
      /\ lsu_load = "LOAD_ADDR" => lsu_araddr = ex_mem_out.alu_result
      /\ state_load \in {"LSU_REQ_AR", "LSU_WAIT_R"} =>
            araddr_reg = ex_mem_out.alu_result /\ araddr_reg \notin Clint
      /\ state_load = "LSU_WAIT_R" /\ sram_read = "R" => rdata_reg = mem[araddr_reg]
      /\ ex_mem_out.alu_result \in SramAddr /\ state_load = "LSU_DONE" =>
            lsu_rdata_reg = mem[ex_mem_out.alu_result]
      /\ state_load \in {"LSU_REQ_AR", "LSU_WAIT_R", "LSU_DONE"} <=> lsu_load = "LOAD_DATA"
  BY <1>1 DEF LoadRight, LsuReadPaired
<1>4. SramAddr \cap Clint = {}
  BY DEF Clocked, DevicesApart
<1>5. /\ lsu_load = "LOAD_IDLE" =>
            IF ex_mem_valid /\ ex_mem_out.op = "lw"
            THEN lsu_load' = "LOAD_ADDR" /\ lsu_araddr' = ex_mem_out.alu_result
            ELSE lsu_load' = "LOAD_IDLE"
      /\ lsu_load = "LOAD_ADDR" =>
            \/ lsu_load' = "LOAD_ADDR" /\ lsu_araddr' = lsu_araddr
            \/ /\ lsu_load' = "LOAD_DATA" /\ lsu_araddr \notin Clint
               /\ state_load' = "LSU_REQ_AR" /\ araddr_reg' = lsu_araddr
            \/ lsu_load' = "LOAD_DATA" /\ lsu_araddr \in Clint /\ state_load' = "LSU_DONE"
      /\ lsu_load = "LOAD_DATA" =>
            IF state_load = "LSU_DONE"
            THEN lsu_load' = "LOAD_DONE" /\ read_data' = lsu_rdata_reg
            ELSE lsu_load' = "LOAD_DATA"
      /\ lsu_load = "LOAD_DONE" => lsu_load' = "LOAD_IDLE"
      /\ state_load = "LSU_WAIT_R" /\ state_load' = "LSU_DONE" =>
            m_rvalid(araddr_reg) /\ lsu_rdata_reg' = m_rdata(araddr_reg)
  BY <1>1, LoadMoves
<1>6. ASSUME lsu_load' # "LOAD_IDLE"
      PROVE  /\ ex_mem_valid /\ ex_mem_out.op = "lw"
             /\ ex_mem_valid' /\ ex_mem_out' = ex_mem_out /\ mem' = mem
  <2>1. ex_mem_valid /\ ex_mem_out.op = "lw" /\ lsu_load # "LOAD_DONE"
    BY <1>2, <1>3, <1>5, <1>6
  <2>2. ~ex_mem_ready /\ lsu_store # "STORE_RESP"
    BY <1>1, <2>1, MemLeaves DEF ex_mem_ready, StoreRight
  <2>3. mem' = mem
    BY <1>1, <2>1, Writes
  <2> QED BY <2>1, <2>2, <2>3, CycleMoves
<1>7. lsu_load' = "LOAD_ADDR" => lsu_araddr' = ex_mem_out'.alu_result
  BY <1>2, <1>3, <1>5, <1>6
<1>8. state_load' \in {"LSU_REQ_AR", "LSU_WAIT_R", "LSU_DONE"} <=> lsu_load' = "LOAD_DATA"
  BY DEF LsuReadPaired
<1>9. lsu_load' = "LOAD_DATA" =>
         \/ /\ lsu_load = "LOAD_ADDR" /\ lsu_araddr \notin Clint
            /\ state_load' = "LSU_REQ_AR" /\ araddr_reg' = lsu_araddr
         \/ lsu_load = "LOAD_ADDR" /\ lsu_araddr \in Clint /\ state_load' = "LSU_DONE"
         \/ /\ lsu_load = "LOAD_DATA" /\ state_load \in {"LSU_REQ_AR", "LSU_WAIT_R"}
            /\ araddr_reg' = araddr_reg
  BY <1>1, <1>2, <1>3, <1>5, BusMoves
<1>10. state_load' \in {"LSU_REQ_AR", "LSU_WAIT_R"} =>
          araddr_reg' = ex_mem_out'.alu_result /\ araddr_reg' \notin Clint
  BY <1>3, <1>6, <1>8, <1>9
<1>11. ASSUME state_load' = "LSU_WAIT_R", sram_read' = "R" PROVE rdata_reg' = mem'[araddr_reg']
  <2>1. /\ lsu_load = "LOAD_DATA" /\ state_load \in {"LSU_REQ_AR", "LSU_WAIT_R"}
        /\ araddr_reg' = araddr_reg /\ mem' = mem
    BY <1>3, <1>6, <1>8, <1>9, <1>11
  <2>2. state_load = "LSU_WAIT_R" /\ Reading
    <3>1. sram_read # "AR"
      BY <1>1, <1>11, SramMoves
    <3>2. Reading
      BY <1>1, <3>1 DEF BurstInv
    <3> QED BY <2>1, <3>2 DEF Reading, m_rready
  <2>3. /\ sram_read # "AR" /\ Reading /\ read_base_addr = araddr_reg /\ burst_len = 0 /\ beat_cnt = 0
    BY <1>1, <1>2, <2>2 DEF BurstInv
  <2>4. sram_read = "D"
    BY <1>1, <1>2, <1>11, <2>3, SramMoves
  <2>5. Plus(araddr_reg, 0) = araddr_reg
    <3>1. araddr_reg \in Nat /\ araddr_reg < WORDS /\ WORDS \in Nat
      BY <1>2, WordsAssumption DEF Word
    <3> QED BY <3>1 DEF Plus
  <2>6. rdata_reg' \in {mem[Plus(read_base_addr, beat_cnt)], mem'[Plus(read_base_addr, beat_cnt)]}
    BY <1>1, <1>11, <2>4, SramMoves
  <2> QED BY <2>1, <2>3, <2>5, <2>6
<1>12. ASSUME state_load' = "LSU_DONE", ex_mem_out'.alu_result \in SramAddr
       PROVE  lsu_rdata_reg' = mem'[ex_mem_out'.alu_result]
  <2>1. /\ state_load \in {"LSU_REQ_AR", "LSU_WAIT_R"} /\ lsu_load = "LOAD_DATA"
        /\ mem' = mem /\ ex_mem_out' = ex_mem_out /\ araddr_reg = ex_mem_out.alu_result
        /\ araddr_reg \in SramAddr
    BY <1>3, <1>4, <1>6, <1>8, <1>9, <1>12
  <2>2. state_load = "LSU_WAIT_R"
    BY <1>1, <1>12, <2>1, BusMoves
  <2>3. m_rvalid(araddr_reg) /\ lsu_rdata_reg' = m_rdata(araddr_reg)
    BY <1>5, <1>12, <2>2
  <2>4. sram_read = "R" /\ lsu_rdata_reg' = rdata_reg
    BY <2>1, <2>3, MapAssumption DEF m_rvalid, m_rdata, sram_rvalid
  <2> QED BY <1>3, <2>1, <2>2, <2>4
<1>13. ASSUME lsu_load' = "LOAD_DONE", ex_mem_out'.alu_result \in SramAddr
       PROVE  read_data' = mem'[ex_mem_out'.alu_result]
  <2>1. lsu_load = "LOAD_DATA" /\ state_load = "LSU_DONE" /\ read_data' = lsu_rdata_reg
    BY <1>2, <1>5, <1>13
  <2> QED BY <1>3, <1>6, <1>13, <2>1
<1> QED BY <1>6, <1>7, <1>10, <1>11, <1>12, <1>13 DEF LoadRight

-----------------------------------------------------------------------------
(* While the LSU works nothing commits, and what is shown of a device      *)
(* access was shown before or shows now.                                   *)
LEMMA ShownMoves ==
    ASSUME Clocked
    PROVE  /\ lsu_load' # "LOAD_IDLE" \/ lsu_store' # "STORE_IDLE" => ~mem_wb_valid'
           /\ Shown' => /\ Shown \/ Shows
                        /\ lsu_load # "LOAD_IDLE" \/ lsu_store # "STORE_IDLE"
                        /\ ~ex_mem_ready
<1>1. /\ TypeOK /\ LsuReadPaired /\ StoreHandshake /\ StorePath /\ StoreRight /\ LoadRight /\ Next
  BY DEF Clocked, Sound, Paired
<1>2. /\ lsu_load \in {"LOAD_IDLE", "LOAD_ADDR", "LOAD_DATA", "LOAD_DONE"}
      /\ lsu_store \in {"STORE_IDLE", "STORE_SYNC", "STORE_RESP", "STORE_DONE"}
      /\ state_store \in {"WRITE_IDLE", "SYNC", "WRITE_B", "WRITE_DONE"}
  BY <1>1 DEF TypeOK, LsuTypeOK, BusTypeOK
<1>3. /\ lsu_load # "LOAD_IDLE" => ex_mem_valid /\ ex_mem_out.op = "lw"
      /\ lsu_store # "STORE_IDLE" => ex_mem_valid /\ ex_mem_out.op = "sw"
      /\ state_store # "WRITE_IDLE" => lsu_store = "STORE_RESP"
  BY <1>1 DEF LoadRight, StoreRight, StoreHandshake, LsuWritePaired
<1>4. mem_wb_valid' => /\ ex_mem_valid
                       /\ lsu_store = IF ex_mem_out.op = "sw" THEN "STORE_DONE" ELSE "STORE_IDLE"
                       /\ lsu_load = IF ex_mem_out.op = "lw" THEN "LOAD_DONE" ELSE "LOAD_IDLE"
  BY <1>1, MemLeaves, CycleMoves
<1>5. /\ lsu_load = "LOAD_IDLE" /\ lsu_load' # "LOAD_IDLE" => ex_mem_out.op = "lw"
      /\ lsu_load = "LOAD_DONE" => lsu_load' = "LOAD_IDLE"
      /\ lsu_load = "LOAD_IDLE" => lsu_load' \in {"LOAD_IDLE", "LOAD_ADDR"}
      /\ lsu_load = "LOAD_ADDR" /\ lsu_load' # "LOAD_ADDR" =>
            lsu_araddr \in Clint \/ state_load' = "LSU_REQ_AR"
  BY <1>1, LoadMoves
<1>6. /\ lsu_store = "STORE_IDLE" /\ lsu_store' # "STORE_IDLE" => ex_mem_out.op = "sw"
      /\ lsu_store = "STORE_DONE" => lsu_store' = "STORE_IDLE"
      /\ lsu_store' = "STORE_DONE" => lsu_store = "STORE_RESP" /\ state_store = "WRITE_DONE"
  <2>1. lsu_store = "STORE_DONE" => mem_out_valid
    BY DEF mem_out_valid, mem_valid
  <2> QED BY <1>1, <1>2, <2>1, LsuStoreMoves
<1>7. lsu_load' # "LOAD_IDLE" \/ lsu_store' # "STORE_IDLE" => ~mem_wb_valid'
  BY <1>4, <1>5, <1>6
<1>8. (state_store' = "SYNC" /\ ~awvalid_reg') \/ state_store' \in {"WRITE_B", "WRITE_DONE"} =>
         state_store # "WRITE_IDLE"
  <2> SUFFICES ASSUME state_store = "WRITE_IDLE"
               PROVE  state_store' \in {"WRITE_IDLE", "SYNC"} /\ (state_store' = "SYNC" => awvalid_reg')
    OBVIOUS
  <2>1. BusWriteAccept(WriteReady, lsu_awvalid, lsu_awaddr, lsu_wvalid, lsu_wdata)
    BY <1>1, StoreClocks DEF BusWriteClock, BusSync, BusWriteB, BusWriteDone
  <2> QED BY <2>1 DEF BusWriteAccept
<1>9. ASSUME Shown' PROVE \/ state_store # "WRITE_IDLE"
                          \/ lsu_load = "LOAD_DATA"
                          \/ lsu_load = "LOAD_ADDR" /\ lsu_araddr \in Clint
  BY <1>2, <1>5, <1>6, <1>8, <1>9 DEF Shown
<1>10. ~ex_mem_ready <=> ex_mem_valid /\ ~mem_out_valid
  BY DEF ex_mem_ready
<1>11. ASSUME \/ state_store # "WRITE_IDLE"
              \/ lsu_load = "LOAD_DATA"
              \/ lsu_load = "LOAD_ADDR" /\ lsu_araddr \in Clint
       PROVE  /\ Shown \/ Shows
              /\ lsu_load # "LOAD_IDLE" \/ lsu_store # "STORE_IDLE"
              /\ ~ex_mem_ready
  <2>1. mem_out_valid => /\ lsu_store \in {"STORE_DONE", "STORE_IDLE"}
                         /\ lsu_load \in {"LOAD_DONE", "LOAD_IDLE"}
    BY <1>1, MemLeaves
  <2> QED BY <1>2, <1>3, <1>10, <1>11, <2>1 DEF Shown, Shows
<1> QED BY <1>7, <1>9, <1>11

(* The skip that a device access asks for waits for its commit.            *)
LEMMA SkipStep ==
    ASSUME Clocked
    PROVE  SkipRight'
<1>1. /\ TypeOK /\ LsuReadPaired /\ StoreRight /\ LoadRight /\ SkipRight
  BY DEF Clocked, Sound, Paired
<1>2. /\ mem_wb_valid => (skip_ref <=> Device(ref))
      /\ ~mem_wb_valid => (skip_ref => ex_mem_valid /\ Device(AtMem))
      /\ ex_mem_valid /\ Device(AtMem) /\ (Shown \/ Shows) => skip_ref
  BY Skips DEF Clocked
<1>3. /\ ref' = AtMem /\ (is_skip_ref' <=> skip_ref /\ ~mem_wb_valid)
      /\ ~ex_mem_ready => AtMem' = AtMem /\ ex_mem_valid /\ ex_mem_valid'
      /\ mem_wb_valid' <=> mem_out_valid
      /\ mem_out_valid => ex_mem_valid
  BY Cycle, CycleMoves
<1>4. lsu_load # "LOAD_IDLE" \/ lsu_store # "STORE_IDLE" => ~mem_wb_valid
  BY <1>1 DEF SkipRight
<1>5. mem_wb_valid' => (is_skip_ref' <=> Device(ref'))
  <2> SUFFICES ASSUME mem_out_valid PROVE skip_ref /\ ~mem_wb_valid <=> Device(AtMem)
    BY <1>3
  <2>1. ASSUME Device(AtMem) PROVE skip_ref /\ ~mem_wb_valid
    <3>1. ex_mem_valid /\ ex_mem_out.op \in {"lw", "sw"}
      BY <1>3, <2>1 DEF Device, Clocked, Sound, InMem, Done
    <3>2. lsu_load = "LOAD_DONE" \/ lsu_store = "STORE_DONE"
      BY <1>1, <3>1, MemLeaves
    <3>3. Shown
      BY <1>1, <3>2 DEF Shown, LsuReadPaired
    <3> QED BY <1>2, <1>4, <2>1, <3>1, <3>2, <3>3
  <2> QED BY <1>2, <2>1
<1>6. ~mem_wb_valid' => (is_skip_ref' => ex_mem_valid' /\ Device(AtMem'))
  <2> SUFFICES ASSUME ~mem_out_valid, skip_ref, ~mem_wb_valid
               PROVE  ex_mem_valid' /\ Device(AtMem')
    BY <1>3
  <2>1. ex_mem_valid /\ Device(AtMem)
    BY <1>2
  <2>2. ~ex_mem_ready
    BY <2>1 DEF ex_mem_ready
  <2> QED BY <1>3, <2>1, <2>2
<1>7. ex_mem_valid' /\ Device(AtMem') /\ Shown' => is_skip_ref'
  BY <1>2, <1>3, <1>4, ShownMoves
<1> QED BY <1>5, <1>6, <1>7, ShownMoves DEF SkipRight

-----------------------------------------------------------------------------
(* The stages' part of the invariant.                                      *)
Staged == /\ InWb /\ InMem /\ InEx /\ Front
          /\ StorePath /\ StoreRight /\ LoadRight /\ SkipRight

(* After reset the pipeline is empty and the reference has the memory and  *)
(* the registers of the core.                                              *)
LEMMA StagedInit ==
    ASSUME CodeLines, Init, TypeOK
    PROVE  Staged
<1> USE DEF Init
<1>1. /\ ~mem_wb_valid /\ ~ex_mem_valid /\ ~id_ex_valid /\ ~if_id_valid
      /\ lsu_store = "STORE_IDLE" /\ lsu_load = "LOAD_IDLE"
      /\ state_store = "WRITE_IDLE" /\ state_load = "BUS_IDLE"
      /\ sram_write = "AW" /\ aw_received = FALSE /\ w_received = FALSE
      /\ awvalid_reg = FALSE /\ wvalid_reg = FALSE /\ slave_aw_done = FALSE /\ slave_w_done = FALSE
      /\ pc_reg = PC_INIT
  BY DEF LsuInit, BusInit, SocInit, SramInit, IfuInit
<1>2. /\ ref.running = TRUE /\ ref.regs = RegsInit /\ ref.csr = CsrInit /\ ref.mem = mem
      /\ ref.pc = PC_INIT
  OBVIOUS
<1>3. regs = RegsInit /\ csr = CsrInit /\ is_skip_ref = FALSE
  OBVIOUS
<1>4. ref \in MachineState
  BY DEF TypeOK
<1> HIDE DEF Init
<1>5. AtMem = ref /\ \A v \in Word : AtEx(v) = ref /\ \A w \in Word : AtId(v, w) = ref
  BY <1>1 DEF AtMem, AtEx, AtId
<1>6. InWb /\ InMem /\ InEx
  BY <1>1, <1>2, <1>3, <1>4, RegsInitAssumption DEF InWb, InMem, InEx, Right
<1>7. Front
  BY <1>1, <1>2, <1>5 DEF Front
<1>8. StorePath /\ StoreRight /\ LoadRight /\ SkipRight
  BY <1>1, <1>2, <1>3, <1>5 DEF StorePath, StoreRight, LoadRight, Stored, SkipRight, Shown
<1> QED BY <1>6, <1>7, <1>8 DEF Staged

(* A stuttering step keeps the stages.                                     *)
LEMMA StagedIdle ==
    ASSUME Staged, UNCHANGED vars
    PROVE  Staged'
<1>1. /\ UNCHANGED <<if_id_valid, if_id_out, id_ex_valid, id_ex_out>>
      /\ UNCHANGED <<ex_mem_valid, ex_mem_out, mem_wb_valid, mem_wb_out>>
      /\ UNCHANGED <<ex_data_latched, ex_rs1_latched, ex_rs2_latched>>
      /\ UNCHANGED <<regs, csr, ref, is_skip_ref, pc_reg>>
  BY DEF vars, pipeVars, archVars, ifuVars
<1>2. /\ UNCHANGED <<lsu_load, lsu_store, lsu_araddr, lsu_awaddr, lsu_wdata, read_data>>
      /\ UNCHANGED <<state_load, araddr_reg, lsu_rdata_reg, state_store, awaddr_reg, wdata_reg>>
      /\ UNCHANGED <<awvalid_reg, wvalid_reg, slave_aw_done, slave_w_done>>
  BY DEF vars, lsuVars, busReadVars, busWriteVars
<1>3. /\ UNCHANGED <<mem, sram_read, rdata_reg, sram_write, aw_received, w_received>>
      /\ UNCHANGED <<write_addr_reg, write_data_reg>>
  BY DEF vars, sramVars, sramReadVars, sramWriteVars
<1>4. AtMem' = AtMem /\ \A v, w \in Word : AtEx(v)' = AtEx(v) /\ AtId(v, w)' = AtId(v, w)
  BY <1>1 DEF AtMem, AtEx, AtId
<1>5. ex_mispredict' <=> ex_mispredict
  <2>1. UNCHANGED <<rf_we, wb_final_wdata, mem_forward_data>>
    BY <1>1 DEF rf_we, wb_final_wdata, mem_forward_data
  <2>2. UNCHANGED <<ex_rs1, ex_rs2>>
    BY <1>1, <2>1 DEF ex_rs1, ex_rs2, forward_rs1, forward_rs2, Forward
  <2> QED BY <1>1, <2>2 DEF ex_mispredict, ex_ras_correct, ex_branch_taken, ex_branch_target
<1>6. InWb' /\ InMem' /\ InEx'
  BY <1>1, <1>3, <1>4 DEF Staged, InWb, InMem, InEx, Right
<1>7. Front'
  BY <1>1, <1>4, <1>5 DEF Staged, Front
<1>8. StorePath' /\ StoreRight' /\ LoadRight' /\ SkipRight'
  BY <1>1, <1>2, <1>3, <1>4 DEF Staged, StorePath, StoreRight, Stored, LoadRight, SkipRight, Shown
<1> QED BY <1>6, <1>7, <1>8 DEF Staged

-----------------------------------------------------------------------------
(* What the program and its data have to keep to, cycle by cycle.          *)
Tame == Plain /\ DataApart /\ CsrApart /\ RasHarmless

(* The invariant of the core, in every state of a tame execution.          *)
LEMMA SoundHolds ==
    ASSUME CodeLines, DevicesApart, PowerUpBvalid = {FALSE}
    PROVE  Spec /\ []Tame => []Sound
<1> DEFINE Known == /\ TypeOK /\ FetchOnlyWhenDecodeEmpty /\ CacheAndBusPaired
                    /\ LsuReadPaired /\ StoreHandshake
           Inv   == FetchedRight /\ Staged
<1>1. Init /\ Known => Inv
  BY FetchInit, StagedInit
<1>2. Known /\ Inv => Sound
  BY DEF Sound, Paired, FetchedRight, Staged
<1>3. Known /\ Known' /\ Tame /\ Tame' /\ Inv /\ [Next]_vars => Inv'
  <2> SUFFICES ASSUME Known, Known', Tame, Tame', Inv, [Next]_vars
               PROVE  Inv'
    OBVIOUS
  <2>1. CASE UNCHANGED vars
    BY <2>1, FetchIdle, StagedIdle
  <2>2. CASE Next
    <3>1. Clocked
      BY <2>2, <1>2 DEF Clocked, Tame
    <3>2. Paired /\ CodeKept
      BY <3>1, Cycle DEF Clocked, Sound
    <3>3. FetchedRight'
      BY <2>2, <3>2, TrapFreeStep, RedirectStep, CoupledStep, BurstStep, CountedStep,
         LinesStep, FetchedStep DEF FetchedRight, Paired, Tame
    <3>4. InWb' /\ InMem' /\ InEx' /\ Front' /\ StorePath' /\ StoreRight' /\ LoadRight' /\ SkipRight'
      BY <3>1, WbStep, MemStep, ExStep, FrontStep, StoreStep, LoadStep, SkipStep
    <3> QED BY <3>3, <3>4 DEF Staged
  <2> QED BY <2>1, <2>2
<1> QED BY <1>1, <1>2, <1>3, TypeOKHolds, FetchOnlyWhenDecodeEmptyHolds, CacheAndBusPairedHolds,
           LsuReadPairedHolds, StoreHandshakeHolds, PTL DEF Spec

(* What the reference executes for a commit that is not skipped.           *)
LEMMA Executes ==
    ASSUME CodeLines, DevicesApart, Sound, Plain, mem_wb_valid
    PROVE  IF skip_ref THEN AtMem.mem = ref.mem
           ELSE Exec(ref) = AtMem /\ Exec(ref).pc = NextPc(ref)
<1>1. (skip_ref <=> Device(ref)) /\ AtMem = Step(ref, mem_wb_out.mem_rdata)
  BY Skips DEF AtMem
<1>2. /\ ref \in MachineState /\ ref.running /\ Ins(ref).op \in PlainOps
      /\ mem_wb_out.mem_rdata \in Word
  BY DEF Sound, InWb, Right, Done, Paired, TypeOK, MemWb
<1>3. CASE skip_ref
  BY <1>1, <1>2, <1>3, StepEffect
<1>4. CASE ~skip_ref
  BY <1>1, <1>2, <1>4, StepEffect DEF Step
<1> QED BY <1>3, <1>4

(* The core is right: whatever is stalled, forwarded, predicted, flushed   *)
(* or late, what commits is the program, in its order, with the registers, *)
(* the CSRs and the next pc that executing one instruction after the other *)
(* gives (what difftest_step compares); a device access commits with the   *)
(* word that the device has answered.                                      *)
THEOREM DifftestPassesHolds ==
    ASSUME CodeLines, DevicesApart, PowerUpBvalid = {FALSE}
    PROVE  Spec /\ []Tame => []DifftestPasses
<1>1. Sound /\ Tame => DifftestPasses
  <2> SUFFICES ASSUME Sound, Plain PROVE DifftestPasses
    BY DEF Tame
  <2>1. /\ regs = ref.regs /\ csr = ref.csr
        /\ mem_wb_valid => Done(mem_wb_out, ref)
    BY DEF Sound, InWb
  <2>2. CommitsInProgramOrder /\ RegistersMatch /\ CsrsMatch
    BY <2>1 DEF CommitsInProgramOrder, RegistersMatch, CsrsMatch, Done
  <2>3. ReportedNextPcMatches
    <3>1. ~wbu_trap_fire /\ ~wbu_mret_fire
      BY NoTrapFlush DEF Sound, Paired
    <3>2. mem_wb_valid /\ ~skip_ref => Exec(ref).pc = NextPc(ref)
      BY Executes
    <3> QED BY <2>1, <3>1, <3>2 DEF ReportedNextPcMatches, final_wbu_npc, Done
  <2> QED BY <2>2, <2>3 DEF DifftestPasses
<1> QED BY <1>1, SoundHolds, PTL

(* No store is lost, repeated, reordered or taken from a wrong path:       *)
(* whenever the LSU has none under way, memory is what the committed       *)
(* instructions have stored; a store to a device changes no memory.        *)
THEOREM MemoryMatchesHolds ==
    ASSUME CodeLines, DevicesApart, PowerUpBvalid = {FALSE}
    PROVE  Spec /\ []Tame => []MemoryMatches
<1>1. Sound /\ Tame => MemoryMatches
  <2> SUFFICES ASSUME Sound, Plain, lsu_store = "STORE_IDLE"
               PROVE  mem = (IF mem_wb_valid /\ ~skip_ref THEN Exec(ref) ELSE ref).mem
    BY DEF MemoryMatches, Tame
  <2>1. mem = AtMem.mem
    BY NothingStored DEF Sound, Paired, StoreRight
  <2>2. ~mem_wb_valid => AtMem = ref
    BY DEF AtMem
  <2> QED BY <2>1, <2>2, Executes
<1> QED BY <1>1, SoundHolds, PTL

-----------------------------------------------------------------------------
(***************************************************************************)
(* What a program run comes to (Halt): a stopped clock is a stutter, so    *)
(* the core of a run that ends is the core above.                          *)
(***************************************************************************)

(* The simulation clocks the core or leaves it alone.                      *)
LEMMA HaltRefines == HaltSpec => Spec
<1>1. HaltInit => Init
  BY DEF HaltInit
<1>2. [HaltNext]_haltVars => [Next]_vars
  BY DEF HaltNext, Clock, Ended, haltVars
<1> QED BY <1>1, <1>2, PTL DEF HaltSpec, Spec

(* The skip that difftest_skip_ref asks for when the access appears on the *)
(* bus is applied to the commit of that access, and to no other: each      *)
(* access is skipped, and each commit that the test skips accesses a       *)
(* device or is hidden by fence.i.  What Tame asks of the program leaves   *)
(* fence.i out, so the test skips device accesses only.                    *)
THEOREM SkipsItsOwnAccessHolds ==
    ASSUME CodeLines, DevicesApart, PowerUpBvalid = {FALSE}
    PROVE  HaltSpec /\ []Tame => [](SkipsItsOwnAccess /\ SkipsDevicesOnly)
<1>1. HaltInit => ~fenced
  BY DEF HaltInit
<1>2. Tame /\ ~fenced /\ [HaltNext]_haltVars => ~fenced'
  BY DEF Tame, Plain, HaltNext, Clock, Ended, Fenced, haltVars
<1>3. Sound /\ Tame /\ ~fenced => SkipsItsOwnAccess /\ SkipsDevicesOnly
  <2> SUFFICES ASSUME Sound, Tame, ~fenced
               PROVE  SkipsItsOwnAccess /\ SkipsDevicesOnly
    OBVIOUS
  <2>1. SkipsDevicesOnly
    BY Skips DEF SkipsDevicesOnly, Tame
  <2>2. ~Fenced
    BY DEF Fenced, Tame, Plain
  <2> QED BY <2>1, <2>2 DEF SkipsDevicesOnly, SkipsItsOwnAccess
<1> QED BY <1>1, <1>2, <1>3, SoundHolds, HaltRefines, PTL DEF HaltSpec

-----------------------------------------------------------------------------
(* The UART has as much of a store to it as the bus has given away: it      *)
(* takes the address, then the data, then answers.                         *)
UartPath ==
    IF state_store \in {"SYNC", "WRITE_B"} /\ awaddr_reg \in UartAddr
    THEN /\ awvalid_reg => uart_write \in {"AW_IDLE", "AW_READY"} /\ wvalid_reg /\ ~uart_wready
         /\ ~awvalid_reg /\ wvalid_reg => uart_write = "W_READY"
         /\ ~awvalid_reg /\ ~wvalid_reg => uart_write = "B_VALID" /\ ~uart_wready
    ELSE uart_write = "AW_IDLE" /\ ~uart_wready

(* The UART has printed the store in MEM.                                  *)
UartDone == \/ uart_write = "B_VALID"
            \/ state_store = "WRITE_DONE" /\ awaddr_reg \in UartAddr
            \/ lsu_store = "STORE_DONE" /\ ex_mem_out.alu_result \in UartAddr
(* It has printed what the instructions ahead of that one have sent, and    *)
(* then what this one sends.                                               *)
UartRight == uart_out = IF UartDone THEN Append(Sent, ex_mem_out.mem_wdata) ELSE Sent

(* The UART prints in this cycle.                                          *)
Prints == uart_write = "W_READY" /\ wvalid_reg /\ awaddr_reg \in UartAddr /\ uart_wready

(* A clock edge of the UART with the bus that writes to it.                *)
LEMMA UartMoves ==
    ASSUME TypeOK, StoreHandshake, StorePath, UartPath, Next
    PROVE  /\ UartPath'
           /\ uart_out' = IF Prints THEN Append(uart_out, wdata_reg) ELSE uart_out
           /\ Prints => state_store \in {"SYNC", "WRITE_B"} /\ uart_write' = "B_VALID"
           /\ ~Prints /\ uart_write # "B_VALID" => uart_write' # "B_VALID"
           /\ uart_write = "B_VALID" =>
                 /\ awaddr_reg \in UartAddr /\ state_store \in {"SYNC", "WRITE_B"}
                 /\ \/ uart_write' = "B_VALID" /\ state_store' \in {"SYNC", "WRITE_B"}
                    \/ uart_write' = "AW_IDLE" /\ state_store' = "WRITE_DONE"
           /\ state_store' = "WRITE_DONE" /\ awaddr_reg \in UartAddr => uart_write = "B_VALID"
<1> DEFINE U == awaddr_reg \in UartAddr
<1>1. /\ BusWriteClock(WriteReady, lsu_awvalid, lsu_awaddr, lsu_wvalid, lsu_wdata,
                       lsu_bready, m_awready(awaddr_reg), m_wready(awaddr_reg), m_bvalid(awaddr_reg))
      /\ UartWriteClock(awvalid_reg /\ U, wvalid_reg /\ U, wdata_reg, m_bready /\ U)
  <2>1. PICK t \in Times : MemClock(t)
    BY DEF Next
  <2> QED BY <2>1, StoreClocks DEF MemClock, SocWriteClock
<1>2. /\ state_store \in {"WRITE_IDLE", "SYNC", "WRITE_B", "WRITE_DONE"}
      /\ awvalid_reg \in BOOLEAN /\ wvalid_reg \in BOOLEAN
      /\ slave_aw_done \in BOOLEAN /\ slave_w_done \in BOOLEAN
      /\ uart_write \in {"AW_IDLE", "AW_READY", "W_READY", "B_VALID"} /\ uart_wready \in BOOLEAN
  BY DEF TypeOK, BusTypeOK, SocTypeOK
<1>3. /\ state_store # "SYNC" => ~awvalid_reg /\ ~wvalid_reg
      /\ state_store = "SYNC" => slave_aw_done = ~awvalid_reg /\ slave_w_done = ~wvalid_reg
      /\ state_store = "WRITE_DONE" => lsu_bvalid_reg /\ lsu_bready
  BY DEF StorePath, StoreHandshake, LsuWritePaired, lsu_bready
<1>4. U => /\ m_awready(awaddr_reg) <=> uart_write = "AW_READY"
           /\ m_wready(awaddr_reg) <=> uart_wready
           /\ m_bvalid(awaddr_reg) <=> uart_write = "B_VALID"
  BY MapAssumption DEF m_awready, m_wready, m_bvalid
<1>5. /\ uart_write' = CASE uart_write = "AW_IDLE"  /\ awvalid_reg /\ U -> "AW_READY"
                         [] uart_write = "AW_READY" /\ awvalid_reg /\ U -> "W_READY"
                         [] Prints                                      -> "B_VALID"
                         [] uart_write = "B_VALID" /\ m_bready /\ U     -> "AW_IDLE"
                         [] OTHER                                       -> uart_write
      /\ uart_wready' = IF uart_write = "W_READY" /\ wvalid_reg /\ U THEN ~uart_wready ELSE uart_wready
      /\ uart_out' = IF Prints THEN Append(uart_out, wdata_reg) ELSE uart_out
  BY <1>1 DEF UartWriteClock, Prints
<1> HIDE DEF U
<1>6. UartPath <=> IF state_store \in {"SYNC", "WRITE_B"} /\ U
                   THEN /\ awvalid_reg => uart_write \in {"AW_IDLE", "AW_READY"} /\ wvalid_reg /\ ~uart_wready
                        /\ ~awvalid_reg /\ wvalid_reg => uart_write = "W_READY"
                        /\ ~awvalid_reg /\ ~wvalid_reg => uart_write = "B_VALID" /\ ~uart_wready
                   ELSE uart_write = "AW_IDLE" /\ ~uart_wready
  BY DEF UartPath, U
<1>7. Prints <=> uart_write = "W_READY" /\ wvalid_reg /\ U /\ uart_wready
  BY DEF Prints, U
<1>8. CASE state_store = "WRITE_IDLE"
  <2>1. /\ state_store' \in {"WRITE_IDLE", "SYNC"}
        /\ state_store' = "SYNC" => awvalid_reg' /\ wvalid_reg'
    BY <1>1, <1>8 DEF BusWriteClock, BusWriteAccept, BusSync, BusWriteB, BusWriteDone, bus_write_idle
  <2>2. uart_write = "AW_IDLE" /\ ~uart_wready /\ uart_write' = "AW_IDLE" /\ ~uart_wready'
    BY <1>3, <1>5, <1>6, <1>7, <1>8
  <2> QED BY <1>5, <1>7, <2>1, <2>2 DEF UartPath
<1>9. CASE state_store = "SYNC"
  <2>1. BusSync(m_awready(awaddr_reg), m_wready(awaddr_reg))
    BY <1>1, <1>9 DEF BusWriteClock, BusWriteAccept, BusWriteB, BusWriteDone, bus_write_idle
  <2>2. /\ awaddr_reg' = awaddr_reg
        /\ state_store' = IF ~awvalid_reg /\ ~wvalid_reg THEN "WRITE_B" ELSE "SYNC"
        /\ awvalid_reg' = (awvalid_reg /\ ~m_awready(awaddr_reg))
        /\ wvalid_reg' = (wvalid_reg /\ ~m_wready(awaddr_reg))
    BY <1>2, <1>3, <1>9, <2>1 DEF BusSync
  <2>3. ~m_bready
    BY <1>9 DEF m_bready
  <2>4. CASE U
    <3>1. awaddr_reg' \in UartAddr
      BY <2>2, <2>4 DEF U
    <3>2. /\ awvalid_reg' = (awvalid_reg /\ uart_write # "AW_READY")
          /\ wvalid_reg' = (wvalid_reg /\ ~uart_wready)
      BY <1>4, <2>2, <2>4
    <3>3. CASE awvalid_reg
      <4>1. uart_write \in {"AW_IDLE", "AW_READY"} /\ wvalid_reg /\ ~uart_wready
        BY <1>6, <1>9, <2>4, <3>3
      <4> QED BY <1>5, <1>7, <1>9, <2>2, <2>4, <3>1, <3>2, <3>3, <4>1 DEF UartPath
    <3>4. CASE ~awvalid_reg /\ wvalid_reg
      <4>1. uart_write = "W_READY"
        BY <1>6, <1>9, <2>4, <3>4
      <4> QED BY <1>2, <1>5, <1>7, <1>9, <2>2, <2>4, <3>1, <3>2, <3>4, <4>1 DEF UartPath
    <3>5. CASE ~awvalid_reg /\ ~wvalid_reg
      <4>1. uart_write = "B_VALID" /\ ~uart_wready
        BY <1>6, <1>9, <2>4, <3>5
      <4> QED BY <1>5, <1>7, <1>9, <2>2, <2>3, <2>4, <3>1, <3>2, <3>5, <4>1 DEF UartPath, U
    <3> QED BY <1>2, <3>3, <3>4, <3>5
  <2>5. CASE ~U
    <3>1. uart_write = "AW_IDLE" /\ ~uart_wready
      BY <1>6, <2>5
    <3>2. awaddr_reg' \notin UartAddr /\ state_store' # "WRITE_DONE"
      BY <2>2, <2>5 DEF U
    <3> QED BY <1>5, <1>7, <2>5, <3>1, <3>2 DEF UartPath
  <2> QED BY <2>4, <2>5
<1>10. CASE state_store = "WRITE_B"
  <2>1. /\ UNCHANGED <<awaddr_reg, awvalid_reg, wvalid_reg>>
        /\ state_store' = IF m_bvalid(awaddr_reg) THEN "WRITE_DONE" ELSE "WRITE_B"
        /\ m_bready
    BY <1>1, <1>10 DEF BusWriteClock, BusWriteAccept, BusSync, BusWriteB, BusWriteDone, bus_write_idle, m_bready
  <2>2. ~awvalid_reg /\ ~wvalid_reg
    BY <1>3, <1>10
  <2>3. CASE U
    BY <1>4, <1>5, <1>6, <1>7, <1>10, <2>1, <2>2, <2>3 DEF UartPath, U
  <2>4. CASE ~U
    <3>1. uart_write = "AW_IDLE" /\ ~uart_wready /\ awaddr_reg' \notin UartAddr
      BY <1>6, <2>1, <2>4 DEF U
    <3> QED BY <1>5, <1>7, <2>4, <3>1 DEF UartPath, U
  <2> QED BY <2>3, <2>4
<1>11. CASE state_store = "WRITE_DONE"
  <2>1. state_store' = "WRITE_IDLE"
    BY <1>1, <1>3, <1>11 DEF BusWriteClock, BusWriteAccept, BusSync, BusWriteB, BusWriteDone, bus_write_idle
  <2>2. uart_write = "AW_IDLE" /\ ~uart_wready /\ uart_write' = "AW_IDLE" /\ ~uart_wready'
    BY <1>3, <1>5, <1>6, <1>7, <1>11
  <2> QED BY <1>5, <1>7, <2>1, <2>2 DEF UartPath
<1> QED BY <1>2, <1>8, <1>9, <1>10, <1>11

(* The store in MEM is printed once, while it is there, and is then one of *)
(* the committed ones.                                                     *)
LEMMA UartStep ==
    ASSUME Clocked, UartPath, UartRight, sent' = Sent
    PROVE  UartPath' /\ UartRight'
<1>1. /\ TypeOK /\ StoreHandshake /\ StorePath /\ StoreRight /\ LoadRight /\ SkipRight /\ InMem /\ Next
  BY DEF Clocked, Sound, Paired
<1>2. /\ UartPath'
      /\ uart_out' = IF Prints THEN Append(uart_out, wdata_reg) ELSE uart_out
      /\ Prints => state_store \in {"SYNC", "WRITE_B"} /\ uart_write' = "B_VALID"
      /\ ~Prints /\ uart_write # "B_VALID" => uart_write' # "B_VALID"
      /\ uart_write = "B_VALID" =>
            /\ awaddr_reg \in UartAddr /\ state_store \in {"SYNC", "WRITE_B"}
            /\ \/ uart_write' = "B_VALID" /\ state_store' \in {"SYNC", "WRITE_B"}
               \/ uart_write' = "AW_IDLE" /\ state_store' = "WRITE_DONE"
      /\ state_store' = "WRITE_DONE" /\ awaddr_reg \in UartAddr => uart_write = "B_VALID"
  BY <1>1, UartMoves
<1>3. /\ lsu_store = "STORE_RESP" => awaddr_reg = ex_mem_out.alu_result /\ wdata_reg = ex_mem_out.mem_wdata
      /\ lsu_store # "STORE_RESP" => state_store = "WRITE_IDLE"
  BY <1>1, NothingStored
<1>4. lsu_store = "STORE_DONE" => mem_out_valid
  BY DEF mem_out_valid, mem_valid
<1>5. /\ lsu_store = "STORE_RESP" =>
            /\ lsu_store' = IF state_store = "WRITE_DONE" THEN "STORE_DONE" ELSE "STORE_RESP"
            /\ UNCHANGED <<awaddr_reg, wdata_reg>>
      /\ lsu_store # "STORE_RESP" => lsu_store' # "STORE_DONE"
  BY <1>1, <1>4, LsuStoreMoves DEF TypeOK, LsuTypeOK
<1>6. Sent' = IF /\ mem_out_valid /\ Ins(AtMem).op = "sw" /\ Address(AtMem) \in UartAddr
              THEN Append(Sent, AtMem.regs[Ins(AtMem).rs2]) ELSE Sent
  <2>1. /\ ref' = AtMem /\ (mem_wb_valid' <=> mem_out_valid)
    BY Cycle, CycleMoves
  <2>2. Ins(ref)' = Ins(AtMem) /\ Address(ref)' = Address(AtMem)
    BY <2>1 DEF Ins, Address
  <2> QED BY <2>1, <2>2 DEF Sent
<1> HIDE DEF mem_out_valid
<1>7. CASE lsu_store = "STORE_RESP"
  <2>1. ex_mem_valid /\ ~mem_out_valid /\ ~ex_mem_ready
    BY <1>1, <1>7, MemLeaves DEF StoreRight, ex_mem_ready
  <2>2. ex_mem_out' = ex_mem_out /\ Sent' = Sent
    BY <1>6, <2>1, CycleMoves
  <2>3. UartDone <=> \/ uart_write = "B_VALID"
                     \/ state_store = "WRITE_DONE" /\ awaddr_reg \in UartAddr
    BY <1>7 DEF UartDone
  <2>4. UartDone' <=> \/ uart_write' = "B_VALID"
                      \/ state_store' = "WRITE_DONE" /\ awaddr_reg \in UartAddr
                      \/ state_store = "WRITE_DONE" /\ awaddr_reg \in UartAddr
    BY <1>3, <1>5, <1>7, <2>2 DEF UartDone
  <2>5. CASE Prints
    <3>1. uart_write # "B_VALID" /\ ~UartDone /\ UartDone'
      BY <1>2, <2>3, <2>4, <2>5 DEF Prints
    <3> QED BY <1>2, <1>3, <1>7, <2>2, <2>5, <3>1 DEF UartRight
  <2>6. CASE ~Prints
    <3>1. UartDone' <=> UartDone
      BY <1>2, <2>3, <2>4, <2>6
    <3> QED BY <1>2, <2>2, <2>6, <3>1 DEF UartRight
  <2> QED BY <1>2, <2>5, <2>6
<1>8. CASE lsu_store # "STORE_RESP"
  <2>1. /\ state_store = "WRITE_IDLE" /\ ~Prints /\ uart_write # "B_VALID"
        /\ uart_out' = uart_out /\ uart_write' # "B_VALID"
    BY <1>2, <1>3, <1>8
  <2>2. state_store' # "WRITE_DONE"
    BY <1>1, <2>1, StorePathStep
  <2>3. ~UartDone' /\ (UartDone <=> lsu_store = "STORE_DONE" /\ ex_mem_out.alu_result \in UartAddr)
    BY <1>5, <1>8, <2>1, <2>2 DEF UartDone
  <2>4. Sent' = IF UartDone THEN Append(Sent, ex_mem_out.mem_wdata) ELSE Sent
    <3>1. CASE mem_out_valid
      <4>1. /\ lsu_store = IF ex_mem_out.op = "sw" THEN "STORE_DONE" ELSE "STORE_IDLE"
            /\ ex_mem_out.op = Ins(AtMem).op /\ ex_mem_out.alu_result = Result(AtMem)
            /\ ex_mem_out.mem_wdata = AtMem.regs[Ins(AtMem).rs2]
        BY <1>1, <3>1, MemLeaves DEF InMem, Done
      <4>2. Ins(AtMem).op = "sw" => Result(AtMem) = Address(AtMem)
        BY Accesses
      <4> QED BY <1>6, <2>3, <3>1, <4>1, <4>2
    <3>2. CASE ~mem_out_valid
      BY <1>4, <1>6, <2>3, <3>2
    <3> QED BY <3>1, <3>2
  <2> QED BY <1>2, <2>1, <2>3, <2>4 DEF UartRight
<1> QED BY <1>7, <1>8

(* Between stores the UART has printed the words of the committed stores   *)
(* to it, in their order and each once: what putch of the runtime promises *)
(* a program, across LSU, bus, crossbar and UART.                          *)
THEOREM UartPrintsEachStoreOnceHolds ==
    ASSUME CodeLines, DevicesApart, PowerUpBvalid = {FALSE}
    PROVE  HaltSpec /\ []Tame => []UartPrintsEachStoreOnce
<1> DEFINE Inv == UartPath /\ UartRight
<1>1. HaltInit => Inv
  <2> SUFFICES ASSUME HaltInit PROVE Inv
    OBVIOUS
  <2>1. /\ state_store = "WRITE_IDLE" /\ lsu_store = "STORE_IDLE" /\ mem_wb_valid = FALSE
        /\ uart_write = "AW_IDLE" /\ uart_wready = FALSE /\ uart_out = <<>> /\ sent = <<>>
    BY DEF HaltInit, Init, BusInit, LsuInit, SocInit
  <2> QED BY <2>1 DEF UartPath, UartRight, UartDone, Sent
<1>2. Sound /\ Tame /\ Tame' /\ Inv /\ [HaltNext]_haltVars => Inv'
  <2> SUFFICES ASSUME Sound, Tame, Tame', Inv, [HaltNext]_haltVars PROVE Inv'
    OBVIOUS
  <2>1. CASE Clock
    BY <2>1, UartStep DEF Clock, Clocked, Tame
  <2>2. CASE UNCHANGED haltVars
    <3>1. /\ UNCHANGED <<state_store, awaddr_reg, awvalid_reg, wvalid_reg, lsu_store>>
          /\ UNCHANGED <<uart_write, uart_wready, uart_out, sent>>
          /\ UNCHANGED <<mem_wb_valid, ex_mem_out, ref>>
      BY <2>2 DEF haltVars, vars, busWriteVars, lsuVars, uartVars, pipeVars, archVars
    <3> QED BY <3>1 DEF UartPath, UartRight, UartDone, Sent, Ins, Address
  <2> QED BY <2>1, <2>2 DEF HaltNext, Ended
<1>3. Sound /\ Inv => UartPrintsEachStoreOnce
  <2> SUFFICES ASSUME Sound, Inv, lsu_store = "STORE_IDLE" PROVE uart_out = Sent
    BY DEF UartPrintsEachStoreOnce
  <2>1. state_store = "WRITE_IDLE"
    BY NothingStored DEF Sound, Paired
  <2> QED BY <2>1 DEF UartPath, UartRight, UartDone
<1> QED BY <1>1, <1>2, <1>3, SoundHolds, HaltRefines, PTL DEF HaltSpec

-----------------------------------------------------------------------------
(* The instruction in a stage is there and writes a0.                      *)
WritesA0(valid, m) == valid /\ WritesReg(m.op) /\ m.rd = A0

(* What is asked of the end of the program: while the fetch of an ebreak   *)
(* goes on, no instruction that writes a0 waits for an access, neither its *)
(* own nor one ahead of it.  The decoder would read a0 before it is there. *)
A0Arrives ==
    mem[pc_reg] = EBREAK /\ ~ex_mem_ready =>
        /\ ifu_state \in {"REQ_AR", "WAIT_R"} => ~WritesA0(id_ex_valid, id_ex_out)
        /\ ifu_state = "WAIT_R" => ~WritesA0(ex_mem_valid, ex_mem_out)

(* No ebreak has left decode.                                              *)
Behind == /\ mem_wb_valid => ~AtEbreak(ref)
          /\ ex_mem_valid => ~AtEbreak(AtMem)
          /\ id_ex_valid => \A v \in Word : ~AtEbreak(AtEx(v))

(* The simulation has ended with the ebreak in decode and a0 written, or   *)
(* decode has seen none and what an ebreak under way will read is ahead.   *)
Ending ==
    IF ended
    THEN /\ if_id_valid /\ if_id_out.inst = EBREAK /\ halt_ret = regs[A0]
         /\ ~WritesA0(id_ex_valid, id_ex_out)
         /\ ~WritesA0(ex_mem_valid, ex_mem_out) /\ ~WritesA0(mem_wb_valid, mem_wb_out)
    ELSE /\ if_id_out.inst # EBREAK
         /\ mem[pc_reg] = EBREAK =>
               /\ ifu_state \in {"WAIT_R", "DONE"} => ~WritesA0(id_ex_valid, id_ex_out)
               /\ ifu_state = "DONE" => ~WritesA0(ex_mem_valid, ex_mem_out)

(* An instruction that leaves decode is no ebreak, and so none behind is.  *)
LEMMA BehindStep ==
    ASSUME Clocked, Behind, if_id_valid => if_id_out.inst # EBREAK
    PROVE  Behind'
<1>1. /\ ref' = AtMem /\ read_data \in Word
      /\ ex_mem_ready => AtMem' = AtEx(read_data)
      /\ ~ex_mem_ready => AtMem' = AtMem /\ \A v \in Word : AtEx(v)' = AtEx(v)
  BY Cycle
<1>2. /\ mem_wb_valid' => ex_mem_valid
      /\ ex_mem_ready => (ex_mem_valid' <=> id_ex_valid)
      /\ ~ex_mem_ready => ex_mem_valid
      /\ ~id_ex_ready => id_ex_valid /\ ~ex_mem_ready
      /\ id_ex_ready => (id_ex_valid' <=> Enters)
  BY CycleMoves
<1> HIDE DEF ex_mem_ready, id_ex_ready, Enters
<1>3. mem_wb_valid' => ref'.mem[ref'.pc] # EBREAK
  BY <1>1, <1>2 DEF Behind, AtEbreak
<1>4. ex_mem_valid' => AtMem'.mem[AtMem'.pc] # EBREAK
  BY <1>1, <1>2 DEF Behind, AtEbreak
<1>5. ASSUME id_ex_valid', NEW v \in Word PROVE AtEx(v)'.mem[AtEx(v)'.pc] # EBREAK
  <2>1. CASE id_ex_ready
    <3>1. Enters /\ if_id_valid
      BY <1>2, <1>5, <2>1 DEF Enters
    <3>2. PICK a, b \in Word : /\ AtId(v, v)' = IF Enters THEN Step(AtId(a, b), v) ELSE AtId(a, b)
                               /\ Enters => AtEx(v)' = AtId(a, b)
      BY <1>5, Cycle
    <3>3. Right(AtId(a, b)) /\ if_id_out.pc = AtId(a, b).pc
      BY <3>1, Decoded DEF Clocked, Sound, Front
    <3>4. if_id_out.pc \in Code /\ if_id_out.inst = mem[if_id_out.pc]
      BY <3>1 DEF Clocked, Sound, Fetched
    <3> QED BY <3>1, <3>2, <3>3, <3>4 DEF Right
  <2>2. CASE ~id_ex_ready
    BY <1>1, <1>2, <2>2 DEF Behind, AtEbreak
  <2> QED BY <2>1, <2>2
<1> QED BY <1>3, <1>4, <1>5 DEF Behind, AtEbreak

(* A fetch ends three cycles after it began at the earliest, in which what *)
(* writes a0 ahead of it has left MEM.                                     *)
LEMMA EndingStep ==
    ASSUME Clocked, Ending, A0Arrives, Clock
    PROVE  Ending'
<1>1. /\ TypeOK /\ FetchOnlyWhenDecodeEmpty /\ Paired /\ Fetched /\ Next /\ CodeKept /\ pc_reg \in Code
  BY Cycle DEF Clocked, Sound, Paired, Plain
<1>2. /\ ~ended
      /\ if_id_out.inst # EBREAK
      /\ mem[pc_reg] = EBREAK =>
            /\ ifu_state \in {"WAIT_R", "DONE"} => ~WritesA0(id_ex_valid, id_ex_out)
            /\ ifu_state = "DONE" => ~WritesA0(ex_mem_valid, ex_mem_out)
  BY DEF Clock, Ending
<1>3. /\ mem_wb_valid' <=> mem_out_valid
      /\ mem_out_valid => mem_wb_out' = mem_wb_in /\ ex_mem_valid
      /\ ex_mem_ready => (ex_mem_valid' <=> id_ex_valid)
      /\ ex_mem_ready /\ id_ex_valid => ex_mem_out' = ex_mem_in
      /\ ~ex_mem_ready => ex_mem_valid /\ ex_mem_valid' /\ ex_mem_out' = ex_mem_out
      /\ ~id_ex_ready => id_ex_valid /\ ~ex_mem_ready /\ id_ex_valid' /\ id_ex_out' = id_ex_out
      /\ id_ex_ready => (id_ex_valid' <=> Enters)
  BY CycleMoves
<1>4. ifu_state # "IDLE" => ~if_id_valid /\ ~Enters
  BY <1>1 DEF FetchOnlyWhenDecodeEmpty, Enters
<1>5. mem_wb_in.op = ex_mem_out.op /\ mem_wb_in.rd = ex_mem_out.rd
  BY DEF mem_wb_in
<1>6. ex_mem_in.op = id_ex_out.op /\ ex_mem_in.rd = id_ex_out.rd
  BY DEF ex_mem_in
<1> HIDE DEF ex_mem_ready, id_ex_ready, Enters, mem_out_valid, mem_wb_in, ex_mem_in
<1>7. ASSUME ifu_state # "IDLE", ~WritesA0(id_ex_valid, id_ex_out) \/ ex_mem_ready
      PROVE  ~WritesA0(id_ex_valid, id_ex_out)'
  BY <1>3, <1>4, <1>7 DEF WritesA0
<1>8. ASSUME ~WritesA0(id_ex_valid, id_ex_out), ~WritesA0(ex_mem_valid, ex_mem_out) \/ ex_mem_ready
      PROVE  ~WritesA0(ex_mem_valid, ex_mem_out)'
  BY <1>3, <1>6, <1>8 DEF WritesA0
<1>9. ASSUME ~WritesA0(ex_mem_valid, ex_mem_out)
      PROVE  ~WritesA0(mem_wb_valid, mem_wb_out)'
  BY <1>3, <1>5, <1>9 DEF WritesA0
<1>10. CASE id_ebreak
  <2>1. ended' /\ halt_ret' = regs'[A0] /\ if_id_out'.inst = EBREAK
    BY <1>10 DEF Clock, id_ebreak, npc_exu_ebreak
  <2>2. if_id_valid' /\ ifu_state = "DONE" /\ inst_reg = EBREAK
    <3>1. IfIdClock
      BY <1>1 DEF Next, PipeClock
    <3>2. if_id_out' # if_id_out /\ if_id_out' # ZeroIfId
      BY <1>2, <2>1, HaltAssumption DEF ZeroIfId
    <3>3. ~jump_req /\ if_id_ready /\ ifu_valid /\ if_id_out' = if_id_in /\ if_id_valid' = ifu_valid
      BY <3>1, <3>2 DEF IfIdClock, Pipcon
    <3> QED BY <2>1, <3>3 DEF ifu_valid, if_id_in
  <2>3. mem[pc_reg] = EBREAK
    BY <1>1, <2>2 DEF Fetched
  <2>4. ~WritesA0(id_ex_valid, id_ex_out) /\ ~WritesA0(ex_mem_valid, ex_mem_out)
    BY <1>2, <2>2, <2>3
  <2>5. ~WritesA0(id_ex_valid, id_ex_out)' /\ ~WritesA0(ex_mem_valid, ex_mem_out)'
        /\ ~WritesA0(mem_wb_valid, mem_wb_out)'
    BY <1>7, <1>8, <1>9, <2>2, <2>4
  <2> QED BY <2>1, <2>2, <2>5 DEF Ending
<1>11. CASE ~id_ebreak
  <2>1. ~ended' /\ if_id_out'.inst # EBREAK
    BY <1>2, <1>11 DEF Clock, id_ebreak
  <2>2. SUFFICES ASSUME mem'[pc_reg'] = EBREAK, ifu_state' \in {"WAIT_R", "DONE"}
                 PROVE  /\ ~WritesA0(id_ex_valid, id_ex_out)'
                        /\ ifu_state' = "DONE" => ~WritesA0(ex_mem_valid, ex_mem_out)'
    BY <2>1 DEF Ending
  <2>3. /\ pc_reg' = pc_reg /\ ifu_state \in {"REQ_AR", "WAIT_R", "DONE"}
        /\ ifu_state' = "DONE" => ifu_state \in {"WAIT_R", "DONE"}
    BY <1>1, <2>2, IfuMoves DEF TypeOK, IfuTypeOK, IfuState
  <2>4. mem[pc_reg] = EBREAK
    BY <1>1, <2>2, <2>3 DEF CodeKept
  <2>5. /\ ~WritesA0(id_ex_valid, id_ex_out) \/ ex_mem_ready
        /\ ifu_state' = "DONE" => /\ ~WritesA0(id_ex_valid, id_ex_out)
                                  /\ ~WritesA0(ex_mem_valid, ex_mem_out) \/ ex_mem_ready
    BY <1>2, <2>3, <2>4 DEF A0Arrives
  <2> QED BY <1>7, <1>8, <2>3, <2>5
<1> QED BY <1>10, <1>11

(* The reference comes to the machines of decode by executing what is in   *)
(* WB, MEM and EX, and meets no ebreak before.                             *)
LEMMA Reaches ==
    ASSUME Behind
    PROVE  \E k \in 0 .. 3 : /\ \A j \in 0 .. k - 1 : \A s \in Ahead(j) : ~AtEbreak(s)
                             /\ \A s \in Ahead(k) : \E v, w \in Word : s = AtId(v, w)
<1> DEFINE Past(k)    == \A j \in 0 .. k - 1 : \A s \in Ahead(j) : ~AtEbreak(s)
           Decodes(k) == \A s \in Ahead(k) : \E v, w \in Word : s = AtId(v, w)
<1>1. /\ \A s \in Ahead(0) : s = ref
      /\ \A s \in Ahead(1) : IF mem_wb_valid THEN s = Step(ref, mem_wb_out.mem_rdata)
                             ELSE \E v \in Word : s = Step(ref, v)
      /\ \A s \in Ahead(2) : \E t \in Ahead(1), v \in Word : s = Step(t, v)
      /\ \A s \in Ahead(3) : \E t \in Ahead(2), v \in Word : s = Step(t, v)
  BY DEF Ahead, Then
<1>2. /\ AtMem = IF mem_wb_valid THEN Step(ref, mem_wb_out.mem_rdata) ELSE ref
      /\ \A v : AtEx(v) = IF ex_mem_valid THEN Step(AtMem, v) ELSE AtMem
      /\ \A v, w : AtId(v, w) = IF id_ex_valid THEN Step(AtEx(v), w) ELSE AtEx(v)
  BY DEF AtMem, AtEx, AtId
<1>3. 0 \in Word
  BY WordsAssumption DEF Word
<1>4. Past(0)
  OBVIOUS
<1>5. \A k \in 0 .. 2 : Past(k) /\ (\A s \in Ahead(k) : ~AtEbreak(s)) => Past(k + 1)
  <2> SUFFICES ASSUME NEW k \in 0 .. 2, Past(k), \A s \in Ahead(k) : ~AtEbreak(s), NEW j \in 0 .. k
               PROVE  \A s \in Ahead(j) : ~AtEbreak(s)
    OBVIOUS
  <2>1. j = k \/ j \in 0 .. k - 1
    OBVIOUS
  <2> QED BY <2>1
<1> SUFFICES \E k \in 0 .. 3 : Past(k) /\ Decodes(k)
  OBVIOUS
<1> HIDE DEF Past
<1>6. CASE mem_wb_valid
  <2>1. (\A s \in Ahead(1) : s = AtMem) /\ Past(1)
    BY <1>1, <1>2, <1>4, <1>5, <1>6 DEF Behind
  <2>2. CASE ex_mem_valid
    <3>1. (\A s \in Ahead(2) : \E v \in Word : s = AtEx(v)) /\ Past(2)
      BY <1>1, <1>2, <1>5, <2>1, <2>2 DEF Behind
    <3>2. CASE id_ex_valid
      <4>1. Past(3)
        BY <1>5, <3>1, <3>2 DEF Behind
      <4>2. Decodes(3)
        BY <1>1, <1>2, <3>1, <3>2
      <4> QED BY <4>1, <4>2
    <3>3. CASE ~id_ex_valid
      <4>1. Decodes(2)
        BY <1>2, <1>3, <3>1, <3>3
      <4> QED BY <3>1, <4>1
    <3> QED BY <3>2, <3>3
  <2>3. CASE ~ex_mem_valid
    <3>1. \A v : AtEx(v) = AtMem
      BY <1>2, <2>3
    <3>2. CASE id_ex_valid
      <4>1. Past(2)
        BY <1>3, <1>5, <2>1, <3>1, <3>2 DEF Behind
      <4>2. Decodes(2)
        BY <1>1, <1>2, <1>3, <2>1, <3>1, <3>2
      <4> QED BY <4>1, <4>2
    <3>3. CASE ~id_ex_valid
      <4>1. Decodes(1)
        BY <1>2, <1>3, <2>1, <3>1, <3>3
      <4> QED BY <2>1, <4>1
    <3> QED BY <3>2, <3>3
  <2> QED BY <2>2, <2>3
<1>7. CASE ~mem_wb_valid
  <2>1. (\A s \in Ahead(0) : s = AtMem) /\ \A s \in Ahead(1) : \E v \in Word : s = Step(AtMem, v)
    BY <1>1, <1>2, <1>7
  <2>2. CASE ex_mem_valid
    <3>1. (\A s \in Ahead(1) : \E v \in Word : s = AtEx(v)) /\ Past(1)
      BY <1>2, <1>4, <1>5, <2>1, <2>2 DEF Behind
    <3>2. CASE id_ex_valid
      <4>1. Past(2)
        BY <1>5, <3>1, <3>2 DEF Behind
      <4>2. Decodes(2)
        BY <1>1, <1>2, <3>1, <3>2
      <4> QED BY <4>1, <4>2
    <3>3. CASE ~id_ex_valid
      <4>1. Decodes(1)
        BY <1>2, <1>3, <3>1, <3>3
      <4> QED BY <3>1, <4>1
    <3> QED BY <3>2, <3>3
  <2>3. CASE ~ex_mem_valid
    <3>1. \A v : AtEx(v) = AtMem
      BY <1>2, <2>3
    <3>2. CASE id_ex_valid
      <4>1. Past(1)
        BY <1>3, <1>4, <1>5, <2>1, <3>1, <3>2 DEF Behind
      <4>2. Decodes(1)
        BY <1>2, <1>3, <2>1, <3>1, <3>2
      <4> QED BY <4>1, <4>2
    <3>3. CASE ~id_ex_valid
      <4>1. Decodes(0)
        BY <1>2, <1>3, <2>1, <3>1, <3>3
      <4> QED BY <1>4, <4>1
    <3> QED BY <3>2, <3>3
  <2> QED BY <2>2, <2>3
<1> QED BY <1>6, <1>7

(* a0 is in the registers when nothing behind decode writes it.            *)
LEMMA A0Kept ==
    ASSUME TypeOK, TrapFree, InWb, InMem, InEx, NEW v \in Word, NEW w \in Word,
           Right(AtMem), Right(AtEx(v)),
           ~WritesA0(mem_wb_valid, mem_wb_out), ~WritesA0(ex_mem_valid, ex_mem_out),
           ~WritesA0(id_ex_valid, id_ex_out)
    PROVE  AtId(v, w).regs[A0] = regs[A0]
<1> DEFINE Leaves(s) == ~(WritesReg(Ins(s).op) /\ Ins(s).rd = A0)
<1>1. ASSUME NEW s, Right(s), Leaves(s), Ins(s).op \in PlainOps, NEW x \in Word
      PROVE  Step(s, x).regs[A0] = s.regs[A0]
  <2>1. s \in MachineState /\ s.running /\ s.regs \in [Reg -> Word]
    BY <1>1 DEF Right, MachineState
  <2>2. Ins(s).rd \in Reg
    BY <2>1, <1>1, InsType
  <2>3. Step(s, x).regs = IF WritesReg(Ins(s).op) /\ Ins(s).rd # 0
                          THEN [s.regs EXCEPT ![Ins(s).rd] = Value(s, x)] ELSE s.regs
    BY <1>1, <2>1, StepEffect
  <2> QED BY <1>1, <2>1, <2>2, <2>3, HaltAssumption
<1>2. mem_wb_valid => Leaves(ref) /\ Ins(ref).op \in PlainOps /\ mem_wb_out.mem_rdata \in Word
  BY DEF InWb, Done, WritesA0, TypeOK, MemWb
<1>3. ex_mem_valid => Leaves(AtMem) /\ Ins(AtMem).op \in PlainOps
  BY DEF InMem, Done, WritesA0
<1>4. id_ex_valid => Leaves(AtEx(v)) /\ Ins(AtEx(v)).op \in PlainOps
  BY DEF InEx, WritesA0
<1> HIDE DEF Leaves
<1>5. AtMem.regs[A0] = ref.regs[A0]
  BY <1>1, <1>2 DEF AtMem, InWb
<1>6. AtEx(v).regs[A0] = AtMem.regs[A0]
  BY <1>1, <1>3 DEF AtEx
<1>7. AtId(v, w).regs[A0] = AtEx(v).regs[A0]
  BY <1>1, <1>4 DEF AtId
<1> QED BY <1>5, <1>6, <1>7 DEF InWb

(* The simulation ends where and as the reference does: at the first       *)
(* ebreak that the program executes, with the exit status that it has left *)
(* in a0, whatever is still on its way through MEM and WB.                 *)
THEOREM EndsAsReferenceHolds ==
    ASSUME CodeLines, DevicesApart, PowerUpBvalid = {FALSE}
    PROVE  HaltSpec /\ []Tame /\ []A0Arrives => []EndsAsReference
<1> DEFINE Inv == Behind /\ Ending
<1>1. HaltInit => Inv
  <2> SUFFICES ASSUME HaltInit PROVE Inv
    OBVIOUS
  <2>1. /\ mem_wb_valid = FALSE /\ ex_mem_valid = FALSE /\ id_ex_valid = FALSE
        /\ if_id_out.inst = 0 /\ ended = FALSE /\ ifu_state = "IDLE"
    BY DEF HaltInit, Init, IfuInit, ZeroIfId
  <2> QED BY <2>1, HaltAssumption DEF Behind, Ending
<1>2. Sound /\ Tame /\ Tame' /\ A0Arrives /\ Inv /\ [HaltNext]_haltVars => Inv'
  <2> SUFFICES ASSUME Sound, Tame, Tame', A0Arrives, Inv, [HaltNext]_haltVars PROVE Inv'
    OBVIOUS
  <2>1. CASE Clock
    <3>1. Clocked /\ if_id_out.inst # EBREAK
      BY <2>1 DEF Clock, Clocked, Tame, Ending
    <3> QED BY <2>1, <3>1, BehindStep, EndingStep
  <2>2. CASE UNCHANGED haltVars
    <3>1. /\ UNCHANGED <<if_id_valid, if_id_out, id_ex_valid, id_ex_out, ex_mem_valid, ex_mem_out>>
          /\ UNCHANGED <<mem_wb_valid, mem_wb_out, ref, regs, mem, pc_reg, ifu_state, ended, halt_ret>>
      BY <2>2 DEF haltVars, vars, pipeVars, archVars, ifuVars, sramVars, sramWriteVars
    <3>2. AtMem' = AtMem /\ \A v \in Word : AtEx(v)' = AtEx(v)
      BY <3>1 DEF AtMem, AtEx
    <3> QED BY <3>1, <3>2 DEF Behind, Ending, AtEbreak, WritesA0
  <2> QED BY <2>1, <2>2 DEF HaltNext, Ended
<1>3. Sound /\ Tame /\ Inv => EndsAsReference
  <2> SUFFICES ASSUME Sound, Tame, Inv, ended PROVE EndsAsReference
    BY DEF EndsAsReference
  <2>1. /\ if_id_valid /\ if_id_out.inst = EBREAK /\ halt_ret = regs[A0]
        /\ ~WritesA0(id_ex_valid, id_ex_out)
        /\ ~WritesA0(ex_mem_valid, ex_mem_out) /\ ~WritesA0(mem_wb_valid, mem_wb_out)
    BY DEF Ending
  <2>2. ASSUME NEW v \in Word, NEW w \in Word
        PROVE  LET s == AtId(v, w)
               IN  AtEbreak(s) /\ s.pc = if_id_out.pc /\ s.regs[A0] = halt_ret
    <3>1. Right(AtMem) /\ Right(AtEx(v)) /\ Right(AtId(v, w))
      BY Stages, Decoded DEF Sound, Paired, Tame
    <3>2. if_id_out.pc = AtId(v, w).pc /\ if_id_out.pc \in Code /\ if_id_out.inst = mem[if_id_out.pc]
      BY <2>1 DEF Sound, Front, Fetched
    <3>3. AtId(v, w).regs[A0] = regs[A0]
      BY <2>1, <3>1, A0Kept DEF Sound, Paired
    <3> QED BY <2>1, <3>1, <3>2, <3>3 DEF Right, AtEbreak
  <2> QED BY <2>2, Reaches DEF EndsAsReference
<1> QED BY <1>1, <1>2, <1>3, SoundHolds, HaltRefines, PTL DEF HaltSpec
=============================================================================
