-------------------------------- MODULE Npc --------------------------------
(***************************************************************************)
(* The npc core, npc/vsrc/ysyx_25040131.sv: the five-stage pipeline with   *)
(* its IFU, instruction cache, branch predictors, LSU and bus, connected   *)
(* to the NPC build's crossbar, SRAM and UART.  A step is one clock edge   *)
(* with reset low; every register of the design takes its next value from  *)
(* the wires of the cycle before.                                          *)
(*                                                                         *)
(* Beside the core runs the reference machine of the differential test:    *)
(* ref executes one instruction whenever the core commits one.             *)
(*                                                                         *)
(* A pipeline register holds the decoded instruction (op, rd, ...) where   *)
(* the design holds its control signals; op = "none" is the all-zero       *)
(* bundle.  The wires pcImm_NEXTPC_rs1Imm, read_mem, write_mem, write_reg, *)
(* is_csr, csr_we, is_mret, is_ecall and exc_valid are predicates of op.   *)
(***************************************************************************)
EXTENDS Ifu, Icache, Bus, Lsu, Soc, Btb, Ras

CONSTANTS
    Images,     \* initial contents of the memory, [Word -> Word]
    RegsInit,   \* the register file has no reset: its contents when reset ends
    SkipAddr,   \* device addresses whose accesses the differential test skips
    Times       \* values the CLINT's mtime may show

ASSUME ImagesAssumption == Images \subseteq [Word -> Word]
ASSUME DeviceAssumption == SkipAddr \subseteq Word /\ Times \subseteq Word /\ Times # {}
ASSUME RegsInitAssumption == RegsInit \in [Reg -> Word] /\ RegsInit[0] = 0

VARIABLES
    if_id_valid,  if_id_out,
    id_ex_valid,  id_ex_out,
    ex_mem_valid, ex_mem_out,
    mem_wb_valid, mem_wb_out,
    ex_data_latched, ex_rs1_latched, ex_rs2_latched,
    regs, csr,
    ref,            \* the reference machine
    is_skip_ref     \* the next commit is copied to it, not executed by it

pipeVars == <<if_id_valid, if_id_out, id_ex_valid, id_ex_out, ex_mem_valid,
              ex_mem_out, mem_wb_valid, mem_wb_out,
              ex_data_latched, ex_rs1_latched, ex_rs2_latched>>
archVars == <<regs, csr, ref, is_skip_ref>>
vars     == <<ifuVars, icacheVars, busReadVars, busWriteVars, lsuVars, sramVars,
              uartVars, btb, rasVars, pipeVars, archVars>>

-----------------------------------------------------------------------------
(* Control signals as predicates of the decoded operation. *)
IsLoad(op)    == op = "lw"
IsStore(op)   == op = "sw"
WritesReg(op) == op \in {"add", "addi", "lw", "jal", "jalr", "csrrw"}
IsJump(op)    == op \in {"jal", "jalr"}
IsExc(op)     == op \in {"ecall", "illegal"}
LinkReg       == {1, 5}

PipeOp == Op \cup {"none"}
IfId  == [pc : Word, inst : Word, btb_predicted : BOOLEAN, btb_target : Word]
IdEx  == [op : PipeOp, rd : Reg, rs1 : Reg, rs2 : Reg, imm : Word, csr : Csr,
          pc : Word, rs1_data : Word, rs2_data : Word,
          btb_predicted : BOOLEAN, btb_target : Word,
          ras_predicted : BOOLEAN, ras_pred_target : Word]
ExMem == [op : PipeOp, rd : Reg, csr : Csr, pc : Word, alu_result : Word,
          mem_wdata : Word, csr_rdata : Word, csr_wdata : Word, npc : Word]
MemWb == [op : PipeOp, rd : Reg, csr : Csr, pc : Word, alu_result : Word,
          mem_rdata : Word, csr_rdata : Word, csr_wdata : Word, npc : Word]

ZeroIfId  == [pc |-> 0, inst |-> 0, btb_predicted |-> FALSE, btb_target |-> 0]
ZeroIdEx  == [op |-> "none", rd |-> 0, rs1 |-> 0, rs2 |-> 0, imm |-> 0,
              csr |-> "mtvec", pc |-> 0, rs1_data |-> 0, rs2_data |-> 0,
              btb_predicted |-> FALSE, btb_target |-> 0,
              ras_predicted |-> FALSE, ras_pred_target |-> 0]
ZeroExMem == [op |-> "none", rd |-> 0, csr |-> "mtvec", pc |-> 0, alu_result |-> 0,
              mem_wdata |-> 0, csr_rdata |-> 0, csr_wdata |-> 0, npc |-> 0]
ZeroMemWb == [op |-> "none", rd |-> 0, csr |-> "mtvec", pc |-> 0, alu_result |-> 0,
              mem_rdata |-> 0, csr_rdata |-> 0, csr_wdata |-> 0, npc |-> 0]

-----------------------------------------------------------------------------
(* Write-back stage. *)
wbu_trap_fire     == mem_wb_valid /\ IsExc(mem_wb_out.op)
wbu_mret_fire     == mem_wb_valid /\ mem_wb_out.op = "mret"
global_trap_flush == wbu_trap_fire \/ wbu_mret_fire

wb_final_wdata == CASE mem_wb_out.op = "csrrw" -> mem_wb_out.csr_rdata
                    [] IsLoad(mem_wb_out.op)   -> mem_wb_out.mem_rdata
                    [] OTHER                   -> mem_wb_out.alu_result
rf_we == mem_wb_valid /\ WritesReg(mem_wb_out.op) /\ mem_wb_out.rd # 0

(* The register file reads through the write of the same cycle. *)
GprRead(r) == CASE r = 0                         -> 0
                [] r # 0 /\ rf_we /\ r = mem_wb_out.rd -> wb_final_wdata
                [] OTHER                         -> regs[r]

(* Memory stage and the ready chain; REG_MEM_WB is always ready. *)
mem_out_valid == mem_valid(ex_mem_valid, TRUE, IsLoad(ex_mem_out.op),
                           IsStore(ex_mem_out.op))
ex_mem_ready  == mem_out_valid \/ ~ex_mem_valid
id_ex_ready   == ex_mem_ready \/ ~id_ex_valid

(* Decode stage: the controller decodes the IF/ID register whether or not   *)
(* it holds a valid instruction.                                            *)
id         == Decode[if_id_out.inst]
is_fence_i == id.op = "fence_i"
id_is_call == IsJump(id.op) /\ id.rd \in LinkReg
id_is_ret  == id.op = "jalr" /\ id.rd = 0 /\ id.rs1 \in LinkReg

(* Mutants: no stall for a load waiting in MEM; a stall for one that is done. *)
hazard_stall_ExOnly  == id_ex_out.rd # 0 /\ id_ex_out.rd \in {id.rs1, id.rs2}
                        /\ IsLoad(id_ex_out.op)
hazard_stall_NoReady == \/ hazard_stall_ExOnly
                        \/ /\ ex_mem_out.rd # 0 /\ ex_mem_out.rd \in {id.rs1, id.rs2}
                           /\ IsLoad(ex_mem_out.op)

(* Load-use hazard against EX, and against MEM while the load is waiting. *)
Uses(rd)     == rd # 0 /\ (rd = id.rs1 \/ rd = id.rs2)
hazard_stall == \/ Uses(id_ex_out.rd) /\ IsLoad(id_ex_out.op)
                \/ ~ex_mem_ready /\ Uses(ex_mem_out.rd) /\ IsLoad(ex_mem_out.op)
if_id_ready  == (id_ex_ready /\ ~hazard_stall) \/ ~if_id_valid

(* Execute stage: operands come from MEM, from WB, or from the latch that   *)
(* kept them when the stage was stalled.                                    *)
mem_forward_data == IF ex_mem_out.op = "csrrw" THEN ex_mem_out.csr_rdata
                                               ELSE ex_mem_out.alu_result
Forward(r, dflt) ==
    CASE ex_mem_valid /\ WritesReg(ex_mem_out.op) /\ r # 0 /\ ex_mem_out.rd = r
           -> mem_forward_data
      [] ~(ex_mem_valid /\ WritesReg(ex_mem_out.op) /\ r # 0 /\ ex_mem_out.rd = r)
         /\ rf_we /\ mem_wb_out.rd = r
           -> wb_final_wdata
      [] OTHER -> dflt
forward_rs1 == Forward(id_ex_out.rs1, id_ex_out.rs1_data)
forward_rs2 == Forward(id_ex_out.rs2, id_ex_out.rs2_data)
ex_rs1 == IF ex_data_latched THEN ex_rs1_latched ELSE forward_rs1
ex_rs2 == IF ex_data_latched THEN ex_rs2_latched ELSE forward_rs2

out_alu == CASE IsJump(id_ex_out.op)                     -> Plus(id_ex_out.pc, 1)
             [] id_ex_out.op \in {"addi", "lw", "sw"}    -> Plus(ex_rs1, id_ex_out.imm)
             [] OTHER                                    -> Plus(ex_rs1, ex_rs2)

ex_branch_taken  == id_ex_valid /\ \/ IsJump(id_ex_out.op)
                                   \/ id_ex_out.op = "beq" /\ ex_rs1 = ex_rs2
ex_branch_target == IF id_ex_out.op = "jalr" THEN Plus(ex_rs1, id_ex_out.imm)
                                             ELSE Plus(id_ex_out.pc, id_ex_out.imm)

ex_npc == IF ex_branch_taken THEN ex_branch_target ELSE Plus(id_ex_out.pc, 1)

ex_ras_correct == /\ id_ex_out.ras_predicted /\ ex_branch_taken
                  /\ id_ex_out.ras_pred_target = ex_branch_target

(* Mutant: a jump to another target than the predicted one goes unnoticed. *)
ex_mispredict_NoTarget ==
    id_ex_valid /\ ~ex_ras_correct /\ ex_branch_taken # id_ex_out.btb_predicted
ex_mispredict ==
    /\ id_ex_valid /\ ~ex_ras_correct
    /\ \/ ex_branch_taken /\ (\/ ~id_ex_out.btb_predicted
                              \/ id_ex_out.btb_target # ex_branch_target)
       \/ ~ex_branch_taken /\ id_ex_out.btb_predicted

ex_is_branch == id_ex_valid /\ id_ex_out.op \in {"beq", "jal", "jalr"}

(* Redirection of the fetch. *)
jump_req      == global_trap_flush \/ ex_mispredict
id_ras_hit    == ras_hit(if_id_valid, id_is_ret)
ifu_flush_req == jump_req \/ id_ras_hit
next_pc == CASE wbu_trap_fire                                     -> csr["mtvec"]
             [] ~wbu_trap_fire /\ wbu_mret_fire                   -> csr["mepc"]
             [] ~global_trap_flush /\ ex_mispredict               -> ex_npc
             [] ~jump_req /\ id_ras_hit                           -> ras_target
             [] ~ifu_flush_req /\ btb_hit(pc_reg)                 -> btb_target(pc_reg)
             [] OTHER                                             -> Plus(pc_reg, 1)

-----------------------------------------------------------------------------
(* Pipeline registers (ysyx_25040131_pipcon): valid and data. *)
Pipcon(flush, ready, valid_in, data_in, zero, valid, data, valid_n, data_n) ==
    /\ valid_n = IF flush THEN FALSE ELSE IF ready THEN valid_in ELSE valid
    /\ data_n  = IF flush THEN zero ELSE IF ready /\ valid_in THEN data_in ELSE data

if_id_in  == [pc |-> pc_reg, inst |-> inst_reg,
              btb_predicted |-> btb_hit(pc_reg), btb_target |-> btb_target(pc_reg)]
id_ex_in  == [op |-> id.op, rd |-> id.rd, rs1 |-> id.rs1, rs2 |-> id.rs2,
              imm |-> id.imm, csr |-> id.csr, pc |-> if_id_out.pc,
              rs1_data |-> GprRead(id.rs1), rs2_data |-> GprRead(id.rs2),
              btb_predicted |-> if_id_out.btb_predicted,
              btb_target |-> if_id_out.btb_target,
              ras_predicted |-> id_ras_hit, ras_pred_target |-> ras_target]

(* Mutant: the data of a store is not forwarded. *)
ex_mem_in_NoForward ==
             [op |-> id_ex_out.op, rd |-> id_ex_out.rd, csr |-> id_ex_out.csr,
              pc |-> id_ex_out.pc, alu_result |-> out_alu,
              mem_wdata |-> id_ex_out.rs2_data,
              csr_rdata |-> csr[id_ex_out.csr], csr_wdata |-> ex_rs1,
              npc |-> ex_npc]
ex_mem_in == [op |-> id_ex_out.op, rd |-> id_ex_out.rd, csr |-> id_ex_out.csr,
              pc |-> id_ex_out.pc, alu_result |-> out_alu, mem_wdata |-> ex_rs2,
              csr_rdata |-> csr[id_ex_out.csr], csr_wdata |-> ex_rs1,
              npc |-> ex_npc]
mem_wb_in == [op |-> ex_mem_out.op, rd |-> ex_mem_out.rd, csr |-> ex_mem_out.csr,
              pc |-> ex_mem_out.pc, alu_result |-> ex_mem_out.alu_result,
              mem_rdata |-> read_data, csr_rdata |-> ex_mem_out.csr_rdata,
              csr_wdata |-> ex_mem_out.csr_wdata, npc |-> ex_mem_out.npc]

(* A misprediction flushes IF/ID only; a trap or mret flushes all four; a   *)
(* load-use stall puts a bubble into ID/EX.                                 *)
IfIdClock  == Pipcon(jump_req, if_id_ready, ifu_valid, if_id_in, ZeroIfId,
                     if_id_valid, if_id_out, if_id_valid', if_id_out')
IdExClock  == Pipcon((hazard_stall /\ id_ex_ready) \/ global_trap_flush,
                     id_ex_ready, if_id_valid, id_ex_in, ZeroIdEx,
                     id_ex_valid, id_ex_out, id_ex_valid', id_ex_out')
ExMemClock == Pipcon(global_trap_flush, ex_mem_ready, id_ex_valid, ex_mem_in, ZeroExMem,
                     ex_mem_valid, ex_mem_out, ex_mem_valid', ex_mem_out')
MemWbClock == Pipcon(global_trap_flush, TRUE, mem_out_valid, mem_wb_in, ZeroMemWb,
                     mem_wb_valid, mem_wb_out, mem_wb_valid', mem_wb_out')

(* Mutant: the operands of a stalled instruction are latched in every cycle. *)
ExLatchClock_Again ==
    LET hold == id_ex_valid /\ ~ex_mem_ready
    IN  /\ ex_data_latched' = hold
        /\ ex_rs1_latched' = IF hold THEN forward_rs1 ELSE ex_rs1_latched
        /\ ex_rs2_latched' = IF hold THEN forward_rs2 ELSE ex_rs2_latched

(* The operands of a stalled instruction are latched once. *)
ExLatchClock ==
    LET hold == id_ex_valid /\ ~ex_mem_ready
    IN  /\ ex_data_latched' = hold
        /\ ex_rs1_latched' = CASE ~id_ex_valid                  -> 0
                               [] hold /\ ~ex_data_latched      -> forward_rs1
                               [] OTHER                         -> ex_rs1_latched
        /\ ex_rs2_latched' = CASE ~id_ex_valid                  -> 0
                               [] hold /\ ~ex_data_latched      -> forward_rs2
                               [] OTHER                         -> ex_rs2_latched

(* Register file and CSRs, written at the end of the WB cycle.  exc_cause   *)
(* and exc_tval are not carried through EX/MEM: nothing drives them there   *)
(* (0 in the build), and only ecall has a cause, from is_ecall.             *)
GprClock == regs' = IF rf_we THEN [regs EXCEPT ![mem_wb_out.rd] = wb_final_wdata]
                             ELSE regs

(* Mutant: mepc takes the pc behind the trapping instruction. *)
CsrClock_NextPc ==
    csr' = CASE wbu_trap_fire ->
                  [csr EXCEPT !["mepc"] = mem_wb_out.npc, !["mcause"] = ENV_CAL_MMO,
                              !["mtval"] = 0, !["mstatus"] = TrapStatus(@)]
             [] wbu_mret_fire -> [csr EXCEPT !["mstatus"] = MretStatus(@)]
             [] mem_wb_valid /\ mem_wb_out.op = "csrrw" ->
                  [csr EXCEPT ![mem_wb_out.csr] = mem_wb_out.csr_wdata]
             [] OTHER -> csr

EXC_UNDRIVEN == 0
CsrClock ==
    csr' = CASE wbu_trap_fire ->
                  [csr EXCEPT !["mepc"] = mem_wb_out.pc,
                              !["mcause"] = IF mem_wb_out.op = "ecall" THEN ENV_CAL_MMO
                                            ELSE EXC_UNDRIVEN,
                              !["mtval"] = EXC_UNDRIVEN,
                              !["mstatus"] = TrapStatus(@)]
             [] wbu_mret_fire -> [csr EXCEPT !["mstatus"] = MretStatus(@)]
             [] mem_wb_valid /\ mem_wb_out.op = "csrrw" ->
                  [csr EXCEPT ![mem_wb_out.csr] = mem_wb_out.csr_wdata]
             [] OTHER -> csr

(* The differential test.  A device access seen on the bus, or fence.i in   *)
(* the IF/ID register (valid or not, until the next word replaces it),      *)
(* makes the test skip the next commit, whichever that is: the reference    *)
(* takes over the core's registers (not mscratch, and not its memory).  Any *)
(* other commit it executes itself.                                         *)
clint_arvalid == lsu_arvalid /\ lsu_araddr \in Clint
skip_ref == \/ is_skip_ref
            \/ awvalid_reg /\ awaddr_reg \in SkipAddr
            \/ m_arvalid /\ araddr_reg \in SkipAddr
            \/ clint_arvalid
            \/ icache_skip_ref(is_fence_i)

final_wbu_npc == CASE wbu_trap_fire -> csr["mtvec"]
                   [] wbu_mret_fire -> csr["mepc"]
                   [] OTHER         -> mem_wb_out.npc

(* Mutant: the skip is not cleared by the commit it applied to. *)
RefClock_KeepSkip ==
    /\ is_skip_ref' = skip_ref
    /\ ref' = CASE ~mem_wb_valid -> ref
                [] mem_wb_valid /\ skip_ref ->
                     [ref EXCEPT !.pc = final_wbu_npc, !.regs = regs',
                                 !.csr = [csr' EXCEPT !["mscratch"] = ref.csr["mscratch"]]]
                [] OTHER -> Exec(ref)
RefClock ==
    /\ is_skip_ref' = (skip_ref /\ ~mem_wb_valid)
    /\ ref' = CASE ~mem_wb_valid -> ref
                [] mem_wb_valid /\ skip_ref ->
                     [ref EXCEPT !.pc = final_wbu_npc, !.regs = regs',
                                 !.csr = [csr' EXCEPT !["mscratch"] = ref.csr["mscratch"]]]
                [] OTHER -> Exec(ref)

-----------------------------------------------------------------------------
CsrInit == [c \in Csr |-> IF c = "mstatus" THEN MSTATUS_RESET ELSE 0]

Init ==
    /\ IfuInit /\ IcacheInit /\ BusInit /\ LsuInit /\ BtbInit /\ RasInit
    /\ \E image \in Images : SocInit(image)
    /\ if_id_valid = FALSE /\ if_id_out = ZeroIfId
    /\ id_ex_valid = FALSE /\ id_ex_out = ZeroIdEx
    /\ ex_mem_valid = FALSE /\ ex_mem_out = ZeroExMem
    /\ mem_wb_valid = FALSE /\ mem_wb_out = ZeroMemWb
    /\ ex_data_latched = FALSE /\ ex_rs1_latched = 0 /\ ex_rs2_latched = 0
    /\ regs = RegsInit /\ csr = CsrInit
    /\ ref = [pc |-> PC_INIT, regs |-> RegsInit, csr |-> CsrInit, mem |-> mem,
              running |-> TRUE]
    /\ is_skip_ref = FALSE

(* The wires between the blocks. *)
FrontClock ==
    /\ IfuClock(ifu_flush_req, next_pc, if_id_ready, ifu_arready,
                ifu_rvalid(icache_rvalid(m_rvalid(araddr_reg))),
                ifu_rdata(m_rdata(araddr_reg)))
    /\ IcacheClock(pc_reg, ifu_arvalid, ifu_rready, jump_req, is_fence_i,
                   icache_arready(lsu_arvalid), icache_rvalid(m_rvalid(araddr_reg)),
                   m_rlast(araddr_reg), m_rdata(araddr_reg))
    /\ BtbClock(ex_is_branch /\ ex_mem_ready, id_ex_out.pc, ex_branch_target,
                ex_branch_taken)
    /\ RasClock(jump_req, if_id_valid, id_is_call, id_is_ret, if_id_out.pc)

PipeClock == /\ IfIdClock /\ IdExClock /\ ExMemClock /\ MemWbClock
             /\ ExLatchClock /\ GprClock /\ CsrClock /\ RefClock

MemClock(clint_rdata) ==
    LET wready == lsu_wready(lsu_arvalid, icache_arvalid)
    IN  /\ SocWriteClock(awvalid_reg, awaddr_reg, wvalid_reg, wdata_reg, m_bready)
        /\ SocReadClock(m_arvalid, araddr_reg, arlen_reg, m_rready)
        /\ BusReadClock(lsu_arvalid, lsu_araddr, lsu_rready,
                        icache_arvalid, icache_araddr, icache_arlen,
                        m_arready(araddr_reg), m_rvalid(araddr_reg),
                        m_rlast(araddr_reg), m_rdata(araddr_reg), clint_rdata)
        /\ BusWriteClock(wready, lsu_awvalid, lsu_awaddr, lsu_wvalid, lsu_wdata,
                         lsu_bready, m_awready(awaddr_reg), m_wready(awaddr_reg),
                         m_bvalid(awaddr_reg))
        /\ LsuClock(ex_mem_valid, TRUE, IsLoad(ex_mem_out.op), IsStore(ex_mem_out.op),
                    ex_mem_out.alu_result, ex_mem_out.mem_wdata,
                    lsu_arready, lsu_rvalid, lsu_rdata_reg, wready, wready,
                    lsu_bvalid_reg)

Next == FrontClock /\ PipeClock /\ \E t \in Times : MemClock(t)

Spec == Init /\ [][Next]_vars

(* The clock keeps ticking and the memory answers every access in the end. *)
ReadDelayEnds  == Next /\ sram_read = "D" /\ sram_read' = "R"
WriteDelayEnds == Next /\ sram_write = "W" /\ sram_write' = "B"
Fairness == WF_vars(Next) /\ WF_vars(ReadDelayEnds) /\ WF_vars(WriteDelayEnds)
LiveSpec == Spec /\ Fairness

-----------------------------------------------------------------------------
TypeOK ==
    /\ IfuTypeOK /\ IcacheTypeOK /\ BusTypeOK /\ LsuTypeOK /\ SocTypeOK
    /\ BtbTypeOK /\ RasTypeOK
    /\ if_id_valid \in BOOLEAN /\ if_id_out \in IfId
    /\ id_ex_valid \in BOOLEAN /\ id_ex_out \in IdEx
    /\ ex_mem_valid \in BOOLEAN /\ ex_mem_out \in ExMem
    /\ mem_wb_valid \in BOOLEAN /\ mem_wb_out \in MemWb
    /\ ex_data_latched \in BOOLEAN
    /\ ex_rs1_latched \in Word /\ ex_rs2_latched \in Word
    /\ regs \in [Reg -> Word] /\ csr \in [Csr -> Word]
    /\ ref \in MachineState /\ is_skip_ref \in BOOLEAN

(* The instruction that the machine s executes next, whether it accesses a *)
(* device that the differential test skips, and the machine it leaves: v is *)
(* what the device answers, which no machine knows beforehand.              *)
Ins(s)     == Decode[s.mem[s.pc]]
Address(s) == Plus(s.regs[Ins(s).rs1], Ins(s).imm)
Device(s)  == Ins(s).op \in {"lw", "sw"} /\ Address(s) \in SkipAddr \cup Clint
Step(s, v) == IF Device(s)
              THEN [s EXCEPT !.pc = Plus(s.pc, 1),
                             !.regs = IF Ins(s).op = "lw" THEN SetReg(@, Ins(s).rd, v) ELSE @]
              ELSE Exec(s)

(* The core commits the instructions of the program, in program order: the *)
(* instruction in WB is the one the reference executes next, whatever was   *)
(* predicted, flushed, replayed or stalled before.                          *)
CommitsInProgramOrder == mem_wb_valid => mem_wb_out.pc = ref.pc

(* difftest_step / isa_difftest_checkregs, register half: after each commit *)
(* the register file is the reference's.                                    *)
RegistersMatch == regs = ref.regs

(* isa_difftest_checkregs, CSR half: so are the CSRs that traps and csrrw   *)
(* write.                                                                   *)
CsrsMatch == csr = ref.csr

(* checkregs(&ref_r, g_wb_npc): the next pc that the core reports with a    *)
(* commit is the pc the reference reaches by executing that instruction.    *)
ReportedNextPcMatches ==
    mem_wb_valid /\ ~skip_ref => final_wbu_npc = Exec(ref).pc

(* The differential test would pass, in every state and not just along one  *)
(* run: what commits is the program, with the reference's registers, CSRs   *)
(* and next pc, whatever was stalled, forwarded, predicted or flushed.      *)
DifftestPasses == /\ CommitsInProgramOrder
                  /\ RegistersMatch
                  /\ CsrsMatch
                  /\ ReportedNextPcMatches

(* Whenever no store is in the LSU, the memory holds the stores of the      *)
(* committed instructions (the one in WB included), and no other: no store  *)
(* is lost, repeated or taken from a wrong path.                            *)
MemoryMatches ==
    lsu_store = "STORE_IDLE"
        => mem = (IF mem_wb_valid /\ ~skip_ref THEN Exec(ref) ELSE ref).mem

(* A fetch is in flight only while the decode stage is empty, so a          *)
(* misprediction, which flushes IF/ID but not ID/EX, never lets a younger   *)
(* instruction into EX, and a RAS redirection, which resets the IFU but not *)
(* the instruction cache, never strands a request in the cache.             *)
FetchOnlyWhenDecodeEmpty == ifu_state # "IDLE" => ~if_id_valid

(* What the icache formal bench asserts ("data_match"): the word the cache  *)
(* delivered for a pc is the word in memory at that pc.                     *)
DecodesMemoryWord == if_id_valid => if_id_out.inst = mem[if_id_out.pc]

(* Between refills every valid line holds the memory's words and no address *)
(* hits in both ways: a flush never stops a refill half-way in a line that  *)
(* stays valid, and a burst that outlives a flushed request never fills a   *)
(* line of the next request.                                                *)
LineAddr(w, s, b) == (tag_array[w][s] * SETS + s) * LINE + b
CachedLinesMatchMemory ==
    ic_state # "MISS_R" =>
        \A s \in Set :
            /\ \A w \in Way : valid_array[w][s] =>
                   \A b \in Beat : data_array[w][s][b] = mem[LineAddr(w, s, b)]
            /\ ~(/\ valid_array[0][s] /\ valid_array[1][s]
                 /\ tag_array[0][s] = tag_array[1][s])

(* What the fetch sees of memory is memory, in the cache and behind it.     *)
CacheShowsMemory == DecodesMemoryWord /\ CachedLinesMatchMemory

(* The LSU waits for an answer exactly while the bus owes it one: no        *)
(* response is lost, repeated or given to a machine that did not ask, and   *)
(* neither side waits for the other for ever.                               *)
LsuReadPaired ==
    state_load \in {"LSU_REQ_AR", "LSU_WAIT_R", "LSU_DONE"} <=> lsu_load = "LOAD_DATA"
LsuWritePaired ==
    /\ lsu_store = "STORE_RESP" <=> \/ lsu_aw_done /\ lsu_w_done
                                    \/ state_store # "WRITE_IDLE"
    /\ lsu_bvalid_reg <=> state_store = "WRITE_DONE"
LsuAndBusPaired == LsuReadPaired /\ LsuWritePaired

(* The cache takes beats only of the burst it asked for: while it refills,  *)
(* the bus is reading exactly its line, although a flush abandons requests  *)
(* whose bursts the bus still completes.                                    *)
CacheAndBusPaired ==
    ic_state = "MISS_R" => /\ state_load \in {"IFU_REQ_AR", "IFU_WAIT_R"}
                           /\ araddr_reg = icache_araddr
                           /\ arlen_reg = icache_arlen

(* In a program without fence.i the differential test skips the device      *)
(* accesses and nothing else (with fence.i: SkipsItsOwnAccess, in Halt).    *)
SkipsDevicesOnly == mem_wb_valid => (skip_ref <=> Device(ref))

(* A trap leaves its cause in mcause (mepc is 0 until the first trap). *)
TrapCauseRecorded ==
    csr["mepc"] # 0 => csr["mcause"] \in {ILLEGAL_INS, ENV_CAL_MMO}

(* The core never stops committing: stalls, flushes, cache misses and bus   *)
(* arbitration never end in everyone waiting for everyone.                  *)
KeepsCommitting == []<>mem_wb_valid
=============================================================================
