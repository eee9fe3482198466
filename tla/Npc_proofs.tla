---------------------------- MODULE Npc_proofs ----------------------------
(***************************************************************************)
(* Theorems about Npc: invariants of the whole core for every program,     *)
(* every memory latency and every size of caches and predictors.           *)
(***************************************************************************)
EXTENDS Npc, Integers, TLAPS

CONSTANT Code     \* a region of memory that holds the program (see CodeLines)

(***************************************************************************)
(* The type invariant, for every value of the constants: one lemma per     *)
(* unit says that a clock edge keeps the unit's registers in their types   *)
(* when its input wires have theirs, and the theorem composes them.        *)
(***************************************************************************)


(* Word arithmetic stays in Word. *)
LEMMA WordArith ==
    /\ 0 \in Word /\ ILLEGAL_INS \in Word /\ ENV_CAL_MMO \in Word
    /\ EXC_UNDRIVEN \in Word
    /\ \A a, b \in Nat : Plus(a, b) \in Word
    /\ \A a \in Word : a \in Nat
BY WordsAssumption DEF Word, Plus, ILLEGAL_INS, ENV_CAL_MMO, EXC_UNDRIVEN

(* The values that reset, a trap and mret give mstatus are words. *)
LEMMA StatusType ==
    /\ MSTATUS_RESET \in Word
    /\ \A m \in Word : TrapStatus(m) \in Word /\ MretStatus(m) \in Word
BY WordsAssumption DEF Word, MSTATUS_RESET, TrapStatus, MretStatus

(* Quotient and remainder of naturals. *)
LEMMA DivMod ==
    ASSUME NEW a \in Nat, NEW n \in Nat \ {0}
    PROVE  /\ a \div n \in Nat
           /\ a % n \in 0 .. n - 1
           /\ a % n <= a
OBVIOUS

(* The products of positive naturals are positive. *)
LEMMA PosProduct ==
    ASSUME NEW m \in Nat \ {0}, NEW n \in Nat \ {0}
    PROVE  m * n \in Nat \ {0}
OBVIOUS

-----------------------------------------------------------------------------
(* IfuClock keeps the registers of the IFU in their types. *)
LEMMA IfuTypes ==
    ASSUME IfuTypeOK, NEW flush_req, NEW npc \in Word, NEW next_ready,
           NEW arready, NEW rvalid, NEW rdata \in Word,
           IfuClock(flush_req, npc, next_ready, arready, rvalid, rdata)
    PROVE  IfuTypeOK'
BY DEF IfuTypeOK, IfuState, IfuClock, IfuFlush, IfuStart, IfuReqAr, IfuWaitR, IfuDone

(* The fields of an address index the arrays of the cache. *)
LEMMA AddressFields ==
    ASSUME NEW a \in Word
    PROVE  /\ Tag(a) \in Nat
           /\ Index(a) \in Set
           /\ WordIdx(a) \in Beat
           /\ LineBase(a) \in Word
<1>1. a \in Nat
  BY WordArith
<1>2. LINE \in Nat \ {0} /\ SETS \in Nat \ {0}
  BY GeometryAssumption
<1>3. Tag(a) \in Nat
  BY <1>1, <1>2, PosProduct, DivMod DEF Tag
<1>4. Index(a) \in Set
  <2> DEFINE line == a \div LINE
  <2>1. line \in Nat
    BY <1>1, <1>2, DivMod
  <2>2. Index(a) = line % SETS
    BY DEF Index
  <2> HIDE DEF line
  <2> QED BY <1>2, <2>1, <2>2, DivMod DEF Set
<1>5. WordIdx(a) \in Beat /\ WordIdx(a) <= a
  BY <1>1, <1>2, DivMod DEF WordIdx, Beat
<1>6. LineBase(a) \in Word
  BY <1>1, <1>2, <1>5, WordsAssumption DEF LineBase, Word, Beat
<1> QED BY <1>3, <1>4, <1>5, <1>6

(* What the cache delivers is a word. *)
LEMMA CacheDataType ==
    ASSUME IcacheTypeOK
    PROVE  /\ cache_data \in Word /\ hit_way \in Way
           /\ icache_araddr \in Word /\ icache_arlen \in Nat
<1>1. hit_way \in Way
  BY DEF hit_way, Way
<1>2. Index(req_addr_reg) \in Set /\ WordIdx(req_addr_reg) \in Beat
  BY AddressFields DEF IcacheTypeOK
<1>3. cache_data \in Word
  BY <1>1, <1>2 DEF cache_data, IcacheTypeOK
<1>4. icache_araddr \in Word
  BY AddressFields DEF icache_araddr, IcacheTypeOK
<1>5. icache_arlen \in Nat
  BY GeometryAssumption DEF icache_arlen
<1> QED BY <1>1, <1>3, <1>4, <1>5

(* IcacheClock keeps the registers and arrays of the cache in their types. *)
LEMMA IcacheTypes ==
    ASSUME IcacheTypeOK, NEW araddr \in Word, NEW arvalid, NEW rready, NEW flush,
           NEW fence, NEW bus_arready, NEW bus_rvalid, NEW bus_rlast,
           NEW bus_rdata \in Word,
           IcacheClock(araddr, arvalid, rready, flush, fence,
                       bus_arready, bus_rvalid, bus_rlast, bus_rdata)
    PROVE  IcacheTypeOK'
<1> DEFINE beat == icache_rready /\ bus_rvalid
<1>1. /\ IcacheState(flush, arvalid, rready, bus_arready, beat /\ bus_rlast)
      /\ IcacheRegs(araddr, arvalid, beat, bus_rlast)
      /\ IcacheInvalidate \/ IcacheFill(rready, beat, bus_rlast, bus_rdata)
  BY DEF IcacheClock
<1> HIDE DEF beat
<1>2. ic_state' \in {"IDLE", "LOOKUP", "MISS_AR", "MISS_R"}
  BY <1>1 DEF IcacheState, IcacheTypeOK
<1>3. /\ req_addr_reg' \in Word /\ miss_addr_reg' \in Word
      /\ miss_way_reg' \in Way /\ refill_complete' \in BOOLEAN
  BY <1>1, AddressFields DEF IcacheRegs, IcacheTypeOK
<1>4. refill_cnt' \in Beat
  <2>1. 0 \in Beat
    BY GeometryAssumption DEF Beat
  <2>2. (refill_cnt + 1) % LINE \in Beat
    <3>1. refill_cnt + 1 \in Nat
      BY GeometryAssumption DEF IcacheTypeOK, Beat
    <3> QED BY <3>1, DivMod, GeometryAssumption DEF Beat
  <2> QED BY <1>1, <2>1, <2>2 DEF IcacheRegs, IcacheTypeOK
<1>5. /\ tag_array' \in [Way -> [Set -> Nat]]
      /\ data_array' \in [Way -> [Set -> [Beat -> Word]]]
      /\ valid_array' \in [Way -> [Set -> BOOLEAN]]
      /\ lru_bit' \in [Set -> Way]
  <2>1. CASE IcacheInvalidate
    BY <2>1 DEF IcacheInvalidate, IcacheTypeOK, Way
  <2>2. CASE IcacheFill(rready, beat, bus_rlast, bus_rdata)
    <3>1. Tag(miss_addr_reg) \in Nat /\ Index(miss_addr_reg) \in Set /\ Index(req_addr_reg) \in Set
      BY AddressFields DEF IcacheTypeOK
    <3>2. \A w \in Way : 1 - w \in Way
      BY DEF Way
    <3>3. hit_way \in Way
      BY CacheDataType
    <3>4. data_array' \in [Way -> [Set -> [Beat -> Word]]]
      BY <2>2, <3>1 DEF IcacheFill, IcacheTypeOK
    <3>5. tag_array' \in [Way -> [Set -> Nat]]
      BY <2>2, <3>1 DEF IcacheFill, IcacheTypeOK
    <3>6. valid_array' \in [Way -> [Set -> BOOLEAN]]
      BY <2>2, <3>1 DEF IcacheFill, IcacheTypeOK
    <3>7. lru_bit' \in [Set -> Way]
      BY <2>2, <3>1, <3>2, <3>3 DEF IcacheFill, IcacheTypeOK
    <3> QED BY <3>4, <3>5, <3>6, <3>7
  <2> QED BY <1>1, <2>1, <2>2
<1> QED BY <1>2, <1>3, <1>4, <1>5 DEF IcacheTypeOK

-----------------------------------------------------------------------------
(* The two machines of the bus keep their registers in their types. *)
LEMMA BusTypes ==
    ASSUME BusTypeOK, NEW lsuAr, NEW lsuAddr \in Word, NEW lsuRready, NEW ifuAr,
           NEW ifuAddr \in Word, NEW ifuLen \in Nat, NEW arready, NEW rvalid,
           NEW rlast, NEW rdata \in Word, NEW clint_rdata \in Word, NEW ready,
           NEW lsuAw, NEW lsuAwaddr \in Word, NEW lsuW, NEW lsuWdata \in Word,
           NEW lsuBready, NEW awready, NEW wready, NEW bvalid,
           BusReadClock(lsuAr, lsuAddr, lsuRready, ifuAr, ifuAddr, ifuLen,
                        arready, rvalid, rlast, rdata, clint_rdata),
           BusWriteClock(ready, lsuAw, lsuAwaddr, lsuW, lsuWdata, lsuBready,
                         awready, wready, bvalid)
    PROVE  BusTypeOK'
<1>1. /\ state_load' \in {"BUS_IDLE", "IFU_REQ_AR", "IFU_WAIT_R",
                          "LSU_REQ_AR", "LSU_WAIT_R", "LSU_DONE"}
      /\ araddr_reg' \in Word /\ arlen_reg' \in Nat /\ lsu_rdata_reg' \in Word
  BY DEF BusTypeOK, BusReadClock, BusAcceptLsuRead, BusAcceptIfuRead, BusReadStaysIdle,
     BusReqAr, BusIfuWaitR, BusLsuWaitR, BusLsuDone, busReadVars
<1>2. /\ state_store' \in {"WRITE_IDLE", "SYNC", "WRITE_B", "WRITE_DONE"}
      /\ awaddr_reg' \in Word /\ wdata_reg' \in Word
      /\ awvalid_reg' \in BOOLEAN /\ wvalid_reg' \in BOOLEAN
      /\ lsu_aw_done' \in BOOLEAN /\ lsu_w_done' \in BOOLEAN
      /\ slave_aw_done' \in BOOLEAN /\ slave_w_done' \in BOOLEAN
      /\ lsu_bvalid_reg' \in BOOLEAN
  <2>1. CASE BusWriteAccept(ready, lsuAw, lsuAwaddr, lsuW, lsuWdata)
    BY <2>1 DEF BusTypeOK, BusWriteAccept
  <2>2. CASE BusSync(awready, wready)
    BY <2>2 DEF BusTypeOK, BusSync
  <2>3. CASE BusWriteB(bvalid) \/ BusWriteDone(lsuBready)
    BY <2>3 DEF BusTypeOK, BusWriteB, BusWriteDone
  <2> QED BY <2>1, <2>2, <2>3 DEF BusWriteClock
<1> QED BY <1>1, <1>2 DEF BusTypeOK

(* LsuClock keeps the registers of the LSU in their types. *)
LEMMA LsuTypes ==
    ASSUME LsuTypeOK, NEW prev_valid, NEW next_ready, NEW isLoad, NEW isStore,
           NEW addr \in Word, NEW data \in Word, NEW arready, NEW rvalid,
           NEW rdata \in Word, NEW awready, NEW wready, NEW bvalid,
           LsuClock(prev_valid, next_ready, isLoad, isStore, addr, data,
                    arready, rvalid, rdata, awready, wready, bvalid)
    PROVE  LsuTypeOK'
<1>1. PICK start, leave : LsuLoadClock(start, addr, arready, rvalid, rdata, leave)
  BY DEF LsuClock
<1>2. PICK begin, end : \/ LsuStoreStart(begin, addr, data)
                        \/ LsuStoreSync(awready, wready)
                        \/ LsuStoreFinish(bvalid, end)
  BY DEF LsuClock
<1>3. /\ lsu_load' \in {"LOAD_IDLE", "LOAD_ADDR", "LOAD_DATA", "LOAD_DONE"}
      /\ lsu_araddr' \in Word /\ read_data' \in Word
  BY <1>1, WordArith DEF LsuLoadClock, LsuTypeOK
<1>4. /\ lsu_store' \in {"STORE_IDLE", "STORE_SYNC", "STORE_RESP", "STORE_DONE"}
      /\ lsu_awaddr' \in Word /\ lsu_wdata' \in Word
      /\ lsu_awvalid' \in BOOLEAN /\ lsu_wvalid' \in BOOLEAN
      /\ aw_done' \in BOOLEAN /\ w_done' \in BOOLEAN
  BY <1>2 DEF LsuStoreStart, LsuStoreSync, LsuStoreFinish, LsuTypeOK
<1> QED BY <1>3, <1>4 DEF LsuTypeOK

(* The memory and the UART keep their registers in their types. *)
LEMMA SocTypes ==
    ASSUME SocTypeOK, NEW arvalid, NEW araddr \in Word, NEW arlen \in Nat, NEW rready,
           NEW awvalid, NEW awaddr \in Word, NEW wvalid, NEW wdata \in Word, NEW bready,
           SocReadClock(arvalid, araddr, arlen, rready),
           SocWriteClock(awvalid, awaddr, wvalid, wdata, bready)
    PROVE  SocTypeOK'
<1>1. PICK aw, w, b : SramWriteClock(aw, awaddr, w, wdata, b)
  BY DEF SocWriteClock
<1>2. /\ mem' \in [Word -> Word]
      /\ sram_write' \in {"AW", "W", "B"}
      /\ aw_received' \in BOOLEAN /\ w_received' \in BOOLEAN
      /\ write_addr_reg' \in Word /\ write_data_reg' \in Word
  BY <1>1 DEF SramWriteClock, SramWriteAccept, SramWriteDelay, SramWriteResp,
     sramWriteVars, SocTypeOK, SramTypeOK
<1>3. PICK ar, r : SramReadClock(ar, araddr, arlen, r)
  BY DEF SocReadClock
<1>4. /\ sram_read' \in {"AR", "D", "R"}
      /\ read_base_addr' \in Word /\ burst_len' \in Nat /\ beat_cnt' \in Nat
      /\ rdata_reg' \in Word
  <2>1. CASE SramReadAddr(ar, araddr, arlen)
    BY <2>1 DEF SramReadAddr, SocTypeOK, SramTypeOK
  <2>2. CASE SramReadDelay
    <3>1. Plus(read_base_addr, beat_cnt) \in Word
      BY WordArith DEF SocTypeOK, SramTypeOK
    <3> QED BY <1>2, <2>2, <3>1 DEF SramReadDelay, sramReadVars, SocTypeOK, SramTypeOK
  <2>3. CASE SramReadBeat(r)
    BY <2>3 DEF SramReadBeat, SocTypeOK, SramTypeOK
  <2> QED BY <1>3, <2>1, <2>2, <2>3 DEF SramReadClock
<1>5. PICK uar, ur : UartReadClock(uar, ur)
  BY DEF SocReadClock
<1>6. uart_read' \in {"AR_IDLE", "AR_READY", "R_VALID"}
  BY <1>5 DEF UartReadClock, SocTypeOK
<1>7. PICK uaw, uw, ub : UartWriteClock(uaw, uw, wdata, ub)
  BY DEF SocWriteClock
<1>8. /\ uart_write' \in {"AW_IDLE", "AW_READY", "W_READY", "B_VALID"}
      /\ uart_wready' \in BOOLEAN /\ uart_out' \in Seq(Word)
  <2>1. uart_write' \in {"AW_IDLE", "AW_READY", "W_READY", "B_VALID"}
    BY <1>7 DEF UartWriteClock, SocTypeOK
  <2>2. uart_wready' \in BOOLEAN
    BY <1>7 DEF UartWriteClock, SocTypeOK
  <2>3. uart_out' = uart_out \/ uart_out' = Append(uart_out, wdata)
    BY <1>7 DEF UartWriteClock
  <2> QED BY <2>1, <2>2, <2>3 DEF SocTypeOK
<1> QED BY <1>2, <1>4, <1>6, <1>8 DEF SocTypeOK, SramTypeOK

(* Whatever address the master shows, the crossbar answers with a word. *)
LEMMA ReadDataType ==
    ASSUME SocTypeOK, NEW a
    PROVE  m_rdata(a) \in Word
BY WordArith DEF m_rdata, SocTypeOK, SramTypeOK

-----------------------------------------------------------------------------
(* BtbClock keeps the table in its type; the counters stay in 0 .. 3. *)
LEMMA BtbTypes ==
    ASSUME BtbTypeOK, NEW en, NEW pc \in Word, NEW target \in Word, NEW taken,
           BtbClock(en, pc, target, taken)
    PROVE  BtbTypeOK'
<1>1. BtbTag(pc) \in Nat /\ Idx(pc) \in BtbIdx
  BY WordArith, DivMod, BtbAssumption DEF BtbTag, Idx, BtbIdx
<1>2. \A cnt \in 0 .. 3 : Saturate(cnt, taken) \in 0 .. 3
  BY DEF Saturate
<1>3. btb[Idx(pc)] \in BtbEntry
  BY <1>1 DEF BtbTypeOK
<1>4. CASE UNCHANGED btb
  BY <1>4 DEF BtbTypeOK
<1>5. CASE btb' = [btb EXCEPT ![Idx(pc)].cnt = Saturate(@, taken),
                              ![Idx(pc)].tgt = IF taken THEN target ELSE @]
  <2> DEFINE e == [btb[Idx(pc)] EXCEPT !.cnt = Saturate(@, taken),
                                       !.tgt = IF taken THEN target ELSE @]
  <2>1. e \in BtbEntry
    BY <1>2, <1>3 DEF BtbEntry
  <2>2. btb' = [btb EXCEPT ![Idx(pc)] = e]
    BY <1>1, <1>3, <1>5 DEF BtbTypeOK, BtbEntry
  <2> HIDE DEF e
  <2> QED BY <1>1, <2>1, <2>2 DEF BtbTypeOK
<1>6. CASE btb' = [btb EXCEPT ![Idx(pc)] = [valid |-> TRUE, tag |-> BtbTag(pc),
                                            tgt |-> target, cnt |-> 2]]
  <2>1. [valid |-> TRUE, tag |-> BtbTag(pc), tgt |-> target, cnt |-> 2] \in BtbEntry
    BY <1>1 DEF BtbEntry
  <2> QED BY <1>1, <1>6, <2>1 DEF BtbTypeOK
<1> QED BY <1>4, <1>5, <1>6 DEF BtbClock, BtbUpdate

(* RasClock keeps the stack in its type; sp wraps inside the stack. *)
LEMMA RasTypes ==
    ASSUME RasTypeOK, NEW flush, NEW valid, NEW is_call, NEW is_ret, NEW pc \in Word,
           RasClock(flush, valid, is_call, is_ret, pc)
    PROVE  RasTypeOK'
<1>1. Plus(pc, 1) \in Word
  BY WordArith
<1>2. ras_sp \in Nat /\ 0 \in RasSlot
  BY RasAssumption DEF RasTypeOK, RasSlot
<1>3. (ras_sp + 1) % RAS_DEPTH \in RasSlot
  BY <1>2, DivMod, RasAssumption DEF RasSlot
<1>4. ras_sp # 0 => ras_sp - 1 \in RasSlot
  BY RasAssumption DEF RasTypeOK, RasSlot
<1> QED BY <1>1, <1>2, <1>3, <1>4 DEF RasClock, RasTypeOK

-----------------------------------------------------------------------------
(* The wires of the pipeline have their types. *)
LEMMA WireTypes ==
    ASSUME TypeOK
    PROVE  /\ id \in Instruction
           /\ wb_final_wdata \in Word /\ mem_forward_data \in Word
           /\ \A r \in Reg : GprRead(r) \in Word
           /\ forward_rs1 \in Word /\ forward_rs2 \in Word
           /\ ex_rs1 \in Word /\ ex_rs2 \in Word
           /\ out_alu \in Word /\ ex_branch_target \in Word /\ ex_npc \in Word
           /\ ras_target \in Word /\ btb_target(pc_reg) \in Word
           /\ final_wbu_npc \in Word /\ next_pc \in Word
<1>1. id \in Instruction
  BY DecodeAssumption DEF id, TypeOK, IfId
<1>2. wb_final_wdata \in Word /\ mem_forward_data \in Word
  BY DEF wb_final_wdata, mem_forward_data, TypeOK, MemWb, ExMem
<1>3. \A r \in Reg : GprRead(r) \in Word
  BY <1>2, WordArith DEF GprRead, TypeOK
<1>4. forward_rs1 \in Word /\ forward_rs2 \in Word
  BY <1>2 DEF forward_rs1, forward_rs2, Forward, TypeOK, IdEx
<1>5. ex_rs1 \in Word /\ ex_rs2 \in Word
  BY <1>4 DEF ex_rs1, ex_rs2, TypeOK
<1>6. id_ex_out.pc \in Word /\ id_ex_out.imm \in Word /\ id_ex_out.rs1 \in Reg
  BY DEF TypeOK, IdEx
<1>7. out_alu \in Word
  BY <1>5, <1>6, WordArith DEF out_alu
<1>8. ex_branch_target \in Word
  BY <1>5, <1>6, WordArith DEF ex_branch_target
<1>9. ex_npc \in Word
  BY <1>6, <1>8, WordArith DEF ex_npc
<1>10. ras_target \in Word
  <2>1. (ras_sp + RAS_DEPTH - 1) \in Nat
    BY RasAssumption DEF TypeOK, RasTypeOK, RasSlot
  <2>2. (ras_sp + RAS_DEPTH - 1) % RAS_DEPTH \in RasSlot
    BY <2>1, DivMod, RasAssumption DEF RasSlot
  <2> QED BY <2>2 DEF ras_target, TypeOK, RasTypeOK
<1>11. btb_target(pc_reg) \in Word
  <2>1. Idx(pc_reg) \in BtbIdx
    BY WordArith, DivMod, BtbAssumption DEF Idx, BtbIdx, TypeOK, IfuTypeOK
  <2> QED BY <2>1 DEF btb_target, TypeOK, BtbTypeOK, BtbEntry
<1>12. csr["mtvec"] \in Word /\ csr["mepc"] \in Word
  BY DEF TypeOK, Csr
<1>13. final_wbu_npc \in Word
  BY <1>12 DEF final_wbu_npc, TypeOK, MemWb
<1>14. next_pc \in Word
  <2>1. Plus(pc_reg, 1) \in Word
    BY WordArith DEF TypeOK, IfuTypeOK
  <2> QED BY <1>9, <1>10, <1>11, <1>12, <2>1 DEF next_pc
<1> QED BY <1>1, <1>2, <1>3, <1>4, <1>5, <1>7, <1>8, <1>9, <1>10, <1>11, <1>13, <1>14

(* The four pipeline registers keep their types. *)
LEMMA PipeTypes ==
    ASSUME TypeOK, PipeClock
    PROVE  /\ if_id_valid' \in BOOLEAN /\ if_id_out' \in IfId
           /\ id_ex_valid' \in BOOLEAN /\ id_ex_out' \in IdEx
           /\ ex_mem_valid' \in BOOLEAN /\ ex_mem_out' \in ExMem
           /\ mem_wb_valid' \in BOOLEAN /\ mem_wb_out' \in MemWb
           /\ ex_data_latched' \in BOOLEAN
           /\ ex_rs1_latched' \in Word /\ ex_rs2_latched' \in Word
<1> USE WireTypes, WordArith
<1>0. 0 \in Reg /\ "mtvec" \in Csr
  BY NregsAssumption DEF Reg, Csr
<1>1. if_id_valid' \in BOOLEAN /\ if_id_out' \in IfId
  <2>1. if_id_in \in IfId /\ ZeroIfId \in IfId
    BY DEF if_id_in, ZeroIfId, IfId, TypeOK, IfuTypeOK, btb_hit
  <2> QED BY <2>1 DEF PipeClock, IfIdClock, Pipcon, TypeOK, ifu_valid
<1>2. id_ex_valid' \in BOOLEAN /\ id_ex_out' \in IdEx
  <2>1. ZeroIdEx \in IdEx
    BY <1>0 DEF ZeroIdEx, IdEx, PipeOp
  <2>2. if_id_out.pc \in Word /\ if_id_out.btb_predicted \in BOOLEAN
        /\ if_id_out.btb_target \in Word
    BY DEF TypeOK, IfId
  <2>3. /\ id.op \in PipeOp /\ id.rd \in Reg /\ id.rs1 \in Reg /\ id.rs2 \in Reg
        /\ id.imm \in Word /\ id.csr \in Csr
    BY DEF Instruction, PipeOp
  <2>4. id_ras_hit \in BOOLEAN
    BY DEF id_ras_hit, ras_hit
  <2>5. id_ex_in \in IdEx
    BY <2>2, <2>3, <2>4 DEF id_ex_in, IdEx
  <2> QED BY <2>1, <2>5 DEF PipeClock, IdExClock, Pipcon, TypeOK
<1>3. ex_mem_valid' \in BOOLEAN /\ ex_mem_out' \in ExMem
  <2>1. ZeroExMem \in ExMem
    BY <1>0 DEF ZeroExMem, ExMem, PipeOp
  <2>2. /\ id_ex_out.op \in PipeOp /\ id_ex_out.rd \in Reg /\ id_ex_out.csr \in Csr
        /\ id_ex_out.pc \in Word /\ csr[id_ex_out.csr] \in Word
    BY DEF TypeOK, IdEx
  <2>3. ex_mem_in \in ExMem
    BY <2>2 DEF ex_mem_in, ExMem
  <2> QED BY <2>1, <2>3 DEF PipeClock, ExMemClock, Pipcon, TypeOK
<1>4. mem_wb_valid' \in BOOLEAN /\ mem_wb_out' \in MemWb
  <2>1. ZeroMemWb \in MemWb
    BY <1>0 DEF ZeroMemWb, MemWb, PipeOp
  <2>2. mem_wb_in \in MemWb
    BY DEF mem_wb_in, ExMem, MemWb, TypeOK, LsuTypeOK
  <2>3. mem_out_valid \in BOOLEAN
    BY DEF mem_out_valid, mem_valid
  <2> QED BY <2>1, <2>2, <2>3 DEF PipeClock, MemWbClock, Pipcon, TypeOK
<1>5. /\ ex_data_latched' \in BOOLEAN
      /\ ex_rs1_latched' \in Word /\ ex_rs2_latched' \in Word
  BY DEF PipeClock, ExLatchClock, TypeOK
<1> QED BY <1>1, <1>2, <1>3, <1>4, <1>5

(* One instruction leaves the reference machine in its type (decode_exec). *)
LEMMA ExecType ==
    ASSUME NEW s \in MachineState
    PROVE  Exec(s) \in MachineState
<1> DEFINE i == Decode[s.mem[s.pc]]
<1>1. /\ s.pc \in Word /\ s.regs \in [Reg -> Word] /\ s.csr \in [Csr -> Word]
      /\ s.mem \in [Word -> Word]
  BY DEF MachineState
<1>2. /\ i.op \in Op /\ i.rd \in Reg /\ i.rs1 \in Reg /\ i.rs2 \in Reg
      /\ i.imm \in Word /\ i.csr \in Csr
  BY <1>1, DecodeAssumption DEF Instruction
<1> HIDE DEF i
<1> DEFINE src1 == s.regs[i.rs1]
           src2 == s.regs[i.rs2]
           snpc == Plus(s.pc, 1)
<1>3. src1 \in Word /\ src2 \in Word /\ snpc \in Word
  BY <1>1, <1>2, WordArith
<1>4. /\ Plus(src1, src2) \in Word /\ Plus(src1, i.imm) \in Word
      /\ Plus(s.pc, i.imm) \in Word
  BY <1>1, <1>2, <1>3, WordArith
<1> HIDE DEF src1, src2, snpc
<1> DEFINE Write(v, dnpc) == [s EXCEPT !.regs = SetReg(@, i.rd, v), !.pc = dnpc]
<1>5. \A v, dnpc \in Word : Write(v, dnpc) \in MachineState
  BY <1>1, <1>2 DEF SetReg, MachineState
<1>6. s.mem[Plus(src1, i.imm)] \in Word /\ s.csr[i.csr] \in Word
  BY <1>1, <1>2, <1>4
<1>7. [s EXCEPT !.mem[Plus(src1, i.imm)] = src2, !.pc = snpc] \in MachineState
  BY <1>1, <1>3, <1>4 DEF MachineState
<1>8. \A pc \in Word : [s EXCEPT !.pc = pc] \in MachineState
  BY <1>1 DEF MachineState
<1>9. [Write(s.csr[i.csr], snpc) EXCEPT !.csr[i.csr] = src1] \in MachineState
  <2>1. PICK m \in MachineState : m = Write(s.csr[i.csr], snpc)
    BY <1>3, <1>5, <1>6
  <2> HIDE DEF Write
  <2>2. [m EXCEPT !.csr[i.csr] = src1] \in MachineState
    BY <1>2, <1>3 DEF MachineState
  <2> QED BY <2>1, <2>2
<1>10. RaiseIntr(s, ENV_CAL_MMO) \in MachineState
  <2>1. /\ s.csr["mtvec"] \in Word /\ 0 \in Word /\ ENV_CAL_MMO \in Word
        /\ TrapStatus(s.csr["mstatus"]) \in Word
    BY <1>1, WordArith, StatusType DEF Csr
  <2> QED BY <1>1, <2>1 DEF RaiseIntr, MachineState
<1>11. [s EXCEPT !.csr["mstatus"] = MretStatus(s.csr["mstatus"]),
                 !.pc = s.csr["mepc"]] \in MachineState
  <2>1. s.csr["mepc"] \in Word /\ MretStatus(s.csr["mstatus"]) \in Word
    BY <1>1, StatusType DEF Csr
  <2> QED BY <1>1, <2>1 DEF MachineState
<1> HIDE DEF Write
<1>12. [s EXCEPT !.pc = snpc, !.running = FALSE] \in MachineState
  BY <1>1, <1>3 DEF MachineState
<1>13. Exec(s) =
         IF ~s.running THEN s ELSE
         CASE i.op = "add"     -> Write(Plus(src1, src2), snpc)
           [] i.op = "addi"    -> Write(Plus(src1, i.imm), snpc)
           [] i.op = "lw"      -> Write(s.mem[Plus(src1, i.imm)], snpc)
           [] i.op = "sw"      -> [s EXCEPT !.mem[Plus(src1, i.imm)] = src2,
                                            !.pc = snpc]
           [] i.op = "beq"     -> [s EXCEPT !.pc = IF src1 = src2
                                                   THEN Plus(s.pc, i.imm)
                                                   ELSE snpc]
           [] i.op = "jal"     -> Write(snpc, Plus(s.pc, i.imm))
           [] i.op = "jalr"    -> Write(snpc, Plus(src1, i.imm))
           [] i.op = "csrrw"   -> [Write(s.csr[i.csr], snpc)
                                     EXCEPT !.csr[i.csr] = src1]
           [] i.op = "mret"    -> [s EXCEPT !.csr["mstatus"] = MretStatus(s.csr["mstatus"]),
                                            !.pc = s.csr["mepc"]]
           [] i.op = "ecall"   -> RaiseIntr(s, ENV_CAL_MMO)
           [] OTHER            -> [s EXCEPT !.pc = snpc, !.running = FALSE]
  BY DEF Exec, i, src1, src2, snpc, Write
<1> QED BY <1>3, <1>4, <1>5, <1>6, <1>7, <1>8, <1>9, <1>10, <1>11, <1>12, <1>13

(* Registers, CSRs and the reference machine keep their types. *)
LEMMA ArchTypes ==
    ASSUME TypeOK, PipeClock
    PROVE  /\ regs' \in [Reg -> Word] /\ csr' \in [Csr -> Word]
           /\ ref' \in MachineState /\ is_skip_ref' \in BOOLEAN
<1>1. regs' \in [Reg -> Word]
  BY WireTypes DEF PipeClock, GprClock, TypeOK
<1>2. csr' \in [Csr -> Word]
  <2>1. mem_wb_out.pc \in Word /\ mem_wb_out.csr \in Csr /\ mem_wb_out.csr_wdata \in Word
    BY DEF TypeOK, MemWb
  <2>2. csr \in [Csr -> Word] /\ csr["mstatus"] \in Word
    BY DEF TypeOK, Csr
  <2>3. /\ TrapStatus(csr["mstatus"]) \in Word /\ MretStatus(csr["mstatus"]) \in Word
        /\ ENV_CAL_MMO \in Word /\ EXC_UNDRIVEN \in Word
    BY <2>2, StatusType, WordArith
  <2> QED BY <2>1, <2>2, <2>3 DEF PipeClock, CsrClock
<1>3. is_skip_ref' \in BOOLEAN
  BY DEF PipeClock, RefClock
<1>4. ref' \in MachineState
  <2> DEFINE c == [csr' EXCEPT !["mscratch"] = ref.csr["mscratch"]]
             copy == [ref EXCEPT !.pc = final_wbu_npc, !.regs = regs', !.csr = c]
  <2>1. Exec(ref) \in MachineState
    BY ExecType DEF TypeOK
  <2>2. c \in [Csr -> Word]
    BY <1>2 DEF TypeOK, MachineState, Csr
  <2>3. copy \in MachineState
    <3> HIDE DEF c
    <3> QED BY <1>1, <2>2, WireTypes DEF TypeOK, MachineState
  <2>4. ref' = ref \/ ref' = copy \/ ref' = Exec(ref)
    BY DEF PipeClock, RefClock
  <2> HIDE DEF copy
  <2> QED BY <2>1, <2>3, <2>4 DEF TypeOK
<1> QED BY <1>1, <1>2, <1>3, <1>4

-----------------------------------------------------------------------------
(* Every register of the core, of the bus and of the devices, and the       *)
(* reference machine beside them, keep to their types: no index leaves its  *)
(* array, no counter its range, whatever the program does.                  *)
THEOREM TypeOKHolds == Spec => []TypeOK
<1>1. Init => TypeOK
  <2> SUFFICES ASSUME Init PROVE TypeOK
    OBVIOUS
  <2> USE WordArith
  <2>0. 0 \in Reg /\ "mtvec" \in Csr
    BY NregsAssumption DEF Reg, Csr
  <2>1. IfuTypeOK
    BY PcInitAssumption DEF Init, IfuInit, IfuTypeOK, IfuState
  <2>2. IcacheTypeOK
    <3>1. 0 \in Beat /\ 0 \in Way
      BY GeometryAssumption DEF Beat, Way
    <3>2. /\ tag_array \in [Way -> [Set -> Nat]]
          /\ data_array \in [Way -> [Set -> [Beat -> Word]]]
          /\ valid_array \in [Way -> [Set -> BOOLEAN]]
          /\ lru_bit \in [Set -> Way]
      BY <3>1 DEF Init, IcacheInit
    <3> QED BY <3>1, <3>2 DEF Init, IcacheInit, IcacheTypeOK
  <2>3. BusTypeOK
    BY PowerUpAssumption DEF Init, BusInit, BusTypeOK
  <2>4. LsuTypeOK
    BY DEF Init, LsuInit, LsuTypeOK
  <2>5. SocTypeOK
    <3>1. PICK image \in Images : SocInit(image)
      BY DEF Init
    <3>2. SramTypeOK
      BY <3>1, ImagesAssumption DEF SocInit, SramInit, SramTypeOK
    <3>3. uart_out \in Seq(Word)
      BY <3>1 DEF SocInit
    <3> QED BY <3>1, <3>2, <3>3 DEF SocInit, SocTypeOK
  <2>6. BtbTypeOK /\ RasTypeOK
    BY RasAssumption DEF Init, BtbInit, BtbTypeOK, BtbEntry, RasInit, RasTypeOK, RasSlot
  <2>7. /\ if_id_valid \in BOOLEAN /\ if_id_out \in IfId
        /\ id_ex_valid \in BOOLEAN /\ id_ex_out \in IdEx
        /\ ex_mem_valid \in BOOLEAN /\ ex_mem_out \in ExMem
        /\ mem_wb_valid \in BOOLEAN /\ mem_wb_out \in MemWb
    BY <2>0 DEF Init, ZeroIfId, ZeroIdEx, ZeroExMem, ZeroMemWb, IfId, IdEx, ExMem,
       MemWb, PipeOp
  <2>8. /\ ex_data_latched \in BOOLEAN
        /\ ex_rs1_latched \in Word /\ ex_rs2_latched \in Word
        /\ regs \in [Reg -> Word] /\ csr \in [Csr -> Word]
        /\ ref \in MachineState /\ is_skip_ref \in BOOLEAN
    <3>1. mem \in [Word -> Word]
      BY <2>5 DEF SocTypeOK, SramTypeOK
    <3>2. csr \in [Csr -> Word] /\ CsrInit \in [Csr -> Word]
      BY StatusType, WordArith DEF Init, CsrInit
    <3>3. ref \in MachineState
      BY <3>1, <3>2, PcInitAssumption, RegsInitAssumption DEF Init, MachineState
    <3> QED BY <3>2, <3>3, RegsInitAssumption DEF Init
  <2> QED BY <2>1, <2>2, <2>3, <2>4, <2>5, <2>6, <2>7, <2>8 DEF TypeOK
<1>2. TypeOK /\ [Next]_vars => TypeOK'
  <2> SUFFICES ASSUME TypeOK, [Next]_vars PROVE TypeOK'
    OBVIOUS
  <2>1. CASE UNCHANGED vars
    BY <2>1 DEF vars, ifuVars, icacheVars, busReadVars, busWriteVars, lsuVars, sramVars,
       sramReadVars, sramWriteVars, uartVars, rasVars, pipeVars, archVars, TypeOK,
       IfuTypeOK, IcacheTypeOK, BusTypeOK, LsuTypeOK, SocTypeOK, SramTypeOK, BtbTypeOK,
       RasTypeOK
  <2>2. CASE Next
    <3>1. FrontClock /\ PipeClock
      BY <2>2 DEF Next
    <3>2. PICK t \in Times : MemClock(t)
      BY <2>2 DEF Next
    <3>3. t \in Word
      BY DeviceAssumption
    <3>4. m_rdata(araddr_reg) \in Word
      BY ReadDataType DEF TypeOK
    <3>5. pc_reg \in Word /\ id_ex_out.pc \in Word /\ if_id_out.pc \in Word
      BY DEF TypeOK, IfuTypeOK, IfId, IdEx
    <3>6. /\ lsu_araddr \in Word /\ lsu_awaddr \in Word /\ lsu_wdata \in Word
          /\ lsu_rdata_reg \in Word /\ araddr_reg \in Word /\ arlen_reg \in Nat
          /\ awaddr_reg \in Word /\ wdata_reg \in Word
          /\ ex_mem_out.alu_result \in Word /\ ex_mem_out.mem_wdata \in Word
      BY DEF TypeOK, BusTypeOK, LsuTypeOK, ExMem
    <3>7. cache_data \in Word /\ icache_araddr \in Word /\ icache_arlen \in Nat
      BY CacheDataType DEF TypeOK
    <3>8. IfuTypeOK'
      <4>1. ifu_rdata(m_rdata(araddr_reg)) \in Word
        BY <3>4, <3>7 DEF ifu_rdata
      <4> QED BY <3>1, <4>1, WireTypes, IfuTypes DEF FrontClock, TypeOK
    <3>9. IcacheTypeOK'
      BY <3>1, <3>4, <3>5, IcacheTypes DEF FrontClock, TypeOK
    <3>10. BtbTypeOK'
      BY <3>1, <3>5, WireTypes, BtbTypes DEF FrontClock, TypeOK
    <3>11. RasTypeOK'
      BY <3>1, <3>5, RasTypes DEF FrontClock, TypeOK
    <3>12. BusTypeOK'
      BY <3>2, <3>3, <3>4, <3>6, <3>7, BusTypes DEF MemClock, TypeOK
    <3>13. LsuTypeOK'
      BY <3>2, <3>6, LsuTypes DEF MemClock, TypeOK
    <3>14. SocTypeOK'
      BY <3>2, <3>6, SocTypes DEF MemClock, TypeOK
    <3> QED BY <3>1, <3>8, <3>9, <3>10, <3>11, <3>12, <3>13, <3>14, PipeTypes, ArchTypes
            DEF TypeOK
  <2> QED BY <2>1, <2>2
<1> QED BY <1>1, <1>2, PTL DEF Spec

(***************************************************************************)
(* Fetch and decode.  The invariant is inductive as it stands: a fetch     *)
(* starts when IF/ID can take a word, and IF/ID then receives nothing      *)
(* until the fetch is done.                                                *)
(***************************************************************************)

(* With no fetch finished, IF/ID is empty after any cycle in which it could *)
(* take a word.                                                             *)
LEMMA IfIdDrains ==
    ASSUME IfIdClock, if_id_ready, ~ifu_valid
    PROVE  ~if_id_valid'
BY DEF IfIdClock, Pipcon

(* The pipeline register empties or keeps what it has: a fetch in flight    *)
(* never meets an instruction in decode (IfuClock and REG_IF_ID).           *)
THEOREM FetchOnlyWhenDecodeEmptyHolds == Spec => []FetchOnlyWhenDecodeEmpty
<1>1. Init => FetchOnlyWhenDecodeEmpty
  BY DEF Init, IfuInit, FetchOnlyWhenDecodeEmpty
<1>2. FetchOnlyWhenDecodeEmpty /\ [Next]_vars => FetchOnlyWhenDecodeEmpty'
  <2> SUFFICES ASSUME FetchOnlyWhenDecodeEmpty, [Next]_vars, ifu_state' # "IDLE"
               PROVE  ~if_id_valid'
    BY DEF FetchOnlyWhenDecodeEmpty
  <2>1. CASE UNCHANGED vars
    BY <2>1 DEF vars, ifuVars, pipeVars, FetchOnlyWhenDecodeEmpty
  <2>2. CASE Next
    <3> DEFINE arready == ifu_arready
               rvalid  == ifu_rvalid(icache_rvalid(m_rvalid(araddr_reg)))
               rdata   == ifu_rdata(m_rdata(araddr_reg))
    <3>1. IfIdClock /\ IfuClock(ifu_flush_req, next_pc, if_id_ready, arready, rvalid, rdata)
      BY <2>2 DEF Next, FrontClock, PipeClock
    <3>2. CASE IfuFlush(next_pc)
      BY <3>2 DEF IfuFlush
    <3>3. CASE IfuStart(if_id_ready)
      <4>1. if_id_ready /\ ~ifu_valid
        BY <3>3 DEF IfuStart, ifu_valid
      <4> QED BY <3>1, <4>1, IfIdDrains
    <3>4. CASE IfuReqAr(arready) \/ IfuWaitR(rvalid, rdata)
      <4>1. if_id_ready /\ ~ifu_valid
        BY <3>4 DEF IfuReqAr, IfuWaitR, ifu_valid, if_id_ready, FetchOnlyWhenDecodeEmpty
      <4> QED BY <3>1, <4>1, IfIdDrains
    <3>5. CASE IfuDone(if_id_ready, next_pc)
      BY <3>5 DEF IfuDone, if_id_ready, FetchOnlyWhenDecodeEmpty
    <3> QED BY <3>1, <3>2, <3>3, <3>4, <3>5 DEF IfuClock
  <2> QED BY <2>1, <2>2
<1> QED BY <1>1, <1>2, PTL DEF Spec

(***************************************************************************)
(* The instruction cache and the bus.  Inductive as it stands: a burst is  *)
(* accepted at the edge at which the cache starts to wait for it, and the  *)
(* bus leaves it with the last beat, which the cache takes.                *)
(***************************************************************************)

(* A flush may abandon a refill, and the bus completes its burst; the next  *)
(* refill never takes beats of that burst (IcacheState and BusReadClock).   *)
THEOREM CacheAndBusPairedHolds == Spec => []CacheAndBusPaired
<1>1. Init => CacheAndBusPaired
  BY DEF Init, IcacheInit, CacheAndBusPaired
<1>2. CacheAndBusPaired /\ [Next]_vars => CacheAndBusPaired'
  <2> SUFFICES ASSUME CacheAndBusPaired, [Next]_vars, ic_state' = "MISS_R"
               PROVE  CacheAndBusPaired'
    BY DEF CacheAndBusPaired
  <2>1. CASE UNCHANGED vars
    BY <2>1 DEF vars, icacheVars, busReadVars, CacheAndBusPaired, icache_araddr,
                icache_arlen, is_cacheable
  <2>2. CASE Next
    <3> DEFINE rvalid == m_rvalid(araddr_reg)
               rlast  == m_rlast(araddr_reg)
               beat   == icache_rready /\ icache_rvalid(rvalid)
    <3>1. PICK t \in Times :
             BusReadClock(lsu_arvalid, lsu_araddr, lsu_rready,
                          icache_arvalid, icache_araddr, icache_arlen,
                          m_arready(araddr_reg), rvalid, rlast,
                          m_rdata(araddr_reg), t)
      BY <2>2 DEF Next, MemClock
    <3>2. /\ IcacheState(jump_req, ifu_arvalid, ifu_rready,
                         icache_arready(lsu_arvalid), beat /\ rlast)
          /\ IcacheRegs(pc_reg, ifu_arvalid, beat, rlast)
      BY <2>2 DEF Next, FrontClock, IcacheClock
    <3>3. \/ ic_state = "MISS_AR" /\ icache_arready(lsu_arvalid)
          \/ ic_state = "MISS_R" /\ ~(beat /\ rlast)
      BY <3>2 DEF IcacheState
    <3>4. /\ miss_addr_reg' = miss_addr_reg
          /\ icache_araddr' = icache_araddr
          /\ icache_arlen' = icache_arlen
      BY <3>2, <3>3 DEF IcacheRegs, icache_araddr, icache_arlen, is_cacheable
    <3>5. CASE ic_state = "MISS_AR" /\ icache_arready(lsu_arvalid)
      <4>1. BusAcceptIfuRead(lsu_arvalid, icache_arvalid, icache_araddr, icache_arlen)
        BY <3>1, <3>5 DEF BusReadClock, icache_arready, icache_arvalid, bus_read_idle,
           m_arvalid, BusAcceptLsuRead, BusReadStaysIdle, BusReqAr, BusIfuWaitR,
           BusLsuWaitR, BusLsuDone
      <4> QED BY <3>4, <4>1 DEF BusAcceptIfuRead, CacheAndBusPaired
    <3>6. CASE ic_state = "MISS_R" /\ ~(beat /\ rlast)
      <4>1. ~(icache_rvalid(rvalid) /\ rlast)
        BY <3>6 DEF icache_rready
      <4>2. \/ BusReqAr(m_arready(araddr_reg)) /\ state_load = "IFU_REQ_AR"
            \/ BusIfuWaitR(rvalid, rlast)
        BY <3>1, <3>6 DEF CacheAndBusPaired, BusReadClock, bus_read_idle,
           BusAcceptLsuRead, BusAcceptIfuRead, BusReadStaysIdle, BusLsuWaitR,
           BusLsuDone, BusReqAr, BusIfuWaitR, m_arvalid
      <4>3. state_load' \in {"IFU_REQ_AR", "IFU_WAIT_R"} /\ UNCHANGED <<araddr_reg, arlen_reg>>
        BY <4>1, <4>2 DEF BusReqAr, BusIfuWaitR, icache_rvalid
      <4> QED BY <3>4, <3>6, <4>3 DEF CacheAndBusPaired
    <3> QED BY <3>3, <3>5, <3>6
  <2> QED BY <2>1, <2>2
<1> QED BY <1>1, <1>2, PTL DEF Spec

(***************************************************************************)
(* The LSU and the bus.  The read half is inductive as it stands.  The     *)
(* write half is not: StoreHandshake adds that address and data always     *)
(* travel together, so that neither side can be half-way through a         *)
(* handshake the other has finished.                                       *)
(***************************************************************************)

(* The LSU waits for read data exactly while the bus owes it a word         *)
(* (LsuLoadClock and BusReadClock).                                         *)
THEOREM LsuReadPairedHolds == Spec => []LsuReadPaired
<1>1. Init => LsuReadPaired
  BY DEF Init, LsuInit, BusInit, LsuReadPaired
<1>2. LsuReadPaired /\ [Next]_vars => LsuReadPaired'
  <2> SUFFICES ASSUME LsuReadPaired, [Next]_vars PROVE LsuReadPaired'
    OBVIOUS
  <2>1. CASE UNCHANGED vars
    BY <2>1 DEF vars, busReadVars, lsuVars, LsuReadPaired
  <2>2. CASE Next
    <3>1. PICK t \in Times :
             BusReadClock(lsu_arvalid, lsu_araddr, lsu_rready,
                          icache_arvalid, icache_araddr, icache_arlen,
                          m_arready(araddr_reg), m_rvalid(araddr_reg),
                          m_rlast(araddr_reg), m_rdata(araddr_reg), t)
      BY <2>2 DEF Next, MemClock
    <3>2. PICK start, leave :
             LsuLoadClock(start, ex_mem_out.alu_result, lsu_arready, lsu_rvalid,
                          lsu_rdata_reg, leave)
      BY <2>2 DEF Next, MemClock, LsuClock
    <3>3. CASE BusAcceptLsuRead(lsu_arvalid, lsu_araddr, t)
      BY <3>2, <3>3 DEF BusAcceptLsuRead, LsuLoadClock, lsu_arvalid, lsu_arready,
         bus_read_idle, bus_write_idle, LsuReadPaired
    <3>4. CASE BusAcceptIfuRead(lsu_arvalid, icache_arvalid, icache_araddr, icache_arlen)
      BY <3>2, <3>4 DEF BusAcceptIfuRead, LsuLoadClock, lsu_arvalid, bus_read_idle,
         LsuReadPaired
    <3>5. CASE BusReadStaysIdle(lsu_arvalid, icache_arvalid)
      BY <3>2, <3>5 DEF BusReadStaysIdle, busReadVars, LsuLoadClock, lsu_arvalid,
         lsu_arready, bus_read_idle, bus_write_idle, LsuReadPaired
    <3>6. CASE BusReqAr(m_arready(araddr_reg))
      BY <3>2, <3>6 DEF BusReqAr, m_arvalid, LsuLoadClock, lsu_arready, lsu_rvalid,
         bus_read_idle, LsuReadPaired
    <3>7. CASE \/ BusIfuWaitR(m_rvalid(araddr_reg), m_rlast(araddr_reg))
               \/ BusLsuWaitR(m_rvalid(araddr_reg), m_rdata(araddr_reg))
      BY <3>2, <3>7 DEF BusIfuWaitR, BusLsuWaitR, LsuLoadClock, lsu_arready, lsu_rvalid,
         bus_read_idle, LsuReadPaired
    <3>8. CASE BusLsuDone(lsu_rready)
      BY <3>2, <3>8 DEF BusLsuDone, LsuLoadClock, lsu_rready, lsu_rvalid, LsuReadPaired
    <3> QED BY <3>1, <3>3, <3>4, <3>5, <3>6, <3>7, <3>8 DEF BusReadClock
  <2> QED BY <2>1, <2>2
<1> QED BY <1>1, <1>2, PTL DEF Spec

(* What the LSU and the write machine of the bus agree on in every state.   *)
StoreHandshake ==
    /\ aw_done = FALSE /\ w_done = FALSE
    /\ lsu_awvalid = (lsu_store = "STORE_SYNC")
    /\ lsu_wvalid = (lsu_store = "STORE_SYNC")
    /\ lsu_aw_done \in BOOLEAN /\ lsu_w_done = lsu_aw_done
    /\ lsu_bvalid_reg \in BOOLEAN
    /\ lsu_aw_done => state_store = "WRITE_IDLE"
    /\ LsuWritePaired

(* With lsu_bvalid_reg FALSE when reset ends, they agree on it in every     *)
(* state (LsuStoreSync and BusWriteClock).                                  *)
LEMMA StoreHandshakeHolds ==
    ASSUME PowerUpBvalid = {FALSE}
    PROVE  Spec => []StoreHandshake
<1>1. Init => StoreHandshake
  BY DEF Init, LsuInit, BusInit, StoreHandshake, LsuWritePaired
<1>2. StoreHandshake /\ [Next]_vars => StoreHandshake'
  <2> SUFFICES ASSUME StoreHandshake, [Next]_vars PROVE StoreHandshake'
    OBVIOUS
  <2>1. CASE UNCHANGED vars
    BY <2>1 DEF vars, busWriteVars, lsuVars, StoreHandshake, LsuWritePaired
  <2>2. CASE Next
    <3> DEFINE ready == lsu_wready(lsu_arvalid, icache_arvalid)
    <3>1. BusWriteClock(ready, lsu_awvalid, lsu_awaddr, lsu_wvalid, lsu_wdata,
                        lsu_bready, m_awready(awaddr_reg), m_wready(awaddr_reg),
                        m_bvalid(awaddr_reg))
      BY <2>2 DEF Next, MemClock
    <3>2. PICK start, leave :
             \/ LsuStoreStart(start, ex_mem_out.alu_result, ex_mem_out.mem_wdata)
             \/ LsuStoreSync(ready, ready)
             \/ LsuStoreFinish(lsu_bvalid_reg, leave)
      BY <2>2 DEF Next, MemClock, LsuClock
    <3>3. ready => state_store = "WRITE_IDLE"
      BY DEF lsu_wready, bus_write_idle
    <3> HIDE DEF ready
    <3>4. CASE BusWriteAccept(ready, lsu_awvalid, lsu_awaddr, lsu_wvalid, lsu_wdata)
      BY <3>2, <3>3, <3>4 DEF BusWriteAccept, bus_write_idle, LsuStoreStart,
         LsuStoreSync, LsuStoreFinish, StoreHandshake, LsuWritePaired
    <3>5. CASE BusSync(m_awready(awaddr_reg), m_wready(awaddr_reg))
      BY <3>2, <3>3, <3>5 DEF BusSync, LsuStoreStart, LsuStoreSync, LsuStoreFinish,
         StoreHandshake, LsuWritePaired
    <3>6. CASE BusWriteB(m_bvalid(awaddr_reg))
      BY <3>2, <3>3, <3>6 DEF BusWriteB, LsuStoreStart, LsuStoreSync, LsuStoreFinish,
         StoreHandshake, LsuWritePaired
    <3>7. CASE BusWriteDone(lsu_bready)
      BY <3>2, <3>3, <3>7 DEF BusWriteDone, lsu_bready, LsuStoreStart, LsuStoreSync,
         LsuStoreFinish, StoreHandshake, LsuWritePaired
    <3> QED BY <3>1, <3>4, <3>5, <3>6, <3>7 DEF BusWriteClock
  <2> QED BY <2>1, <2>2
<1> QED BY <1>1, <1>2, PTL DEF Spec

(* With lsu_bvalid_reg FALSE when reset ends, the LSU waits for a write     *)
(* response exactly while the bus works on its store.  (No reset branch of  *)
(* the bus writes that register; the build's --x-initial fast makes it 0.)  *)
THEOREM LsuAndBusPairedHolds ==
    ASSUME PowerUpBvalid = {FALSE}
    PROVE  Spec => []LsuAndBusPaired
<1>1. Spec => []StoreHandshake
  BY StoreHandshakeHolds
<1>2. StoreHandshake => LsuWritePaired
  BY DEF StoreHandshake
<1>3. LsuReadPaired /\ LsuWritePaired => LsuAndBusPaired
  BY DEF LsuAndBusPaired
<1> QED BY <1>1, <1>2, <1>3, LsuReadPairedHolds, PTL

(***************************************************************************)
(* What the fetch sees of memory is memory.  The fetch path is proved      *)
(* right for a program in a region Code of the SRAM that no store writes,  *)
(* as long as no trap, no mret and no fence.i reaches decode: a flush by   *)
(* one of those can meet a refill in the middle of its burst, and then a   *)
(* wrong word is decoded, as the runs trap_refill and fence_i show.        *)
(*                                                                         *)
(* The argument follows a word from the SRAM to decode.  A redirection     *)
(* reaches the IFU only before its request is in the cache (Redirect), so  *)
(* the IFU waits for exactly the request the cache works on (Coupled); the *)
(* burst of the SRAM is the one the cache asked for and delivers memory's  *)
(* words (BurstInv); the cache counts the beats as the SRAM does           *)
(* (Counted), so each beat goes to the word of the line it came from       *)
(* (Lines), and decode receives what was fetched (Fetched).                *)
(***************************************************************************)

(* A region of SRAM, in whole lines where the cache caches it.             *)
CodeLines == /\ Code \subseteq SramAddr
             /\ \A a \in Code \cap Cacheable, b \in Beat : LineBase(a) + b \in Code

(* The instructions that flush the whole pipeline when they commit.        *)
TrapOps == {"ecall", "illegal", "mret"}
(* No instruction of TrapOps and no fence.i in IF/ID, and the next fetch   *)
(* is in Code.                                                             *)
Plain == /\ if_id_valid => id.op \notin TrapOps
         /\ ~is_fence_i
         /\ pc_reg \in Code

(* No instruction of TrapOps behind decode.                                *)
TrapFree == /\ id_ex_out.op \notin TrapOps
            /\ ex_mem_out.op \notin TrapOps
            /\ mem_wb_out.op \notin TrapOps

(* A branch is in EX in the first cycle after it was decoded, and the IFU  *)
(* has at most its next request then.                                      *)
Redirect == ex_mispredict => ifu_state \in {"IDLE", "REQ_AR"}

(* Without TrapOps in WB the IFU and the cache are flushed by a            *)
(* misprediction only.                                                     *)
LEMMA NoTrapFlush ==
    ASSUME TrapFree
    PROVE  ~wbu_trap_fire /\ ~wbu_mret_fire /\ ~global_trap_flush /\ (jump_req <=> ex_mispredict)
<1>1. ~wbu_trap_fire /\ ~wbu_mret_fire
  BY DEF TrapFree, TrapOps, wbu_trap_fire, wbu_mret_fire, IsExc
<1> QED BY <1>1 DEF global_trap_flush, jump_req

(* Plain keeps TrapOps out of the pipeline (REG_ID_EX and those behind     *)
(* it).                                                                    *)
LEMMA TrapFreeStep ==
    ASSUME Plain, TrapFree, Next
    PROVE  TrapFree'
<1>1. IdExClock /\ ExMemClock /\ MemWbClock
  BY DEF Next, PipeClock
<1>2. id_ex_out' \in {ZeroIdEx, id_ex_out} \/ (if_id_valid /\ id_ex_out' = id_ex_in)
  BY <1>1 DEF IdExClock, Pipcon
<1>3. ex_mem_out' \in {ZeroExMem, ex_mem_in, ex_mem_out}
  BY <1>1 DEF ExMemClock, Pipcon
<1>4. mem_wb_out' \in {ZeroMemWb, mem_wb_in, mem_wb_out}
  BY <1>1 DEF MemWbClock, Pipcon
<1>5. ZeroIdEx.op \notin TrapOps /\ ZeroExMem.op \notin TrapOps /\ ZeroMemWb.op \notin TrapOps
  BY DEF ZeroIdEx, ZeroExMem, ZeroMemWb, TrapOps
<1>6. id_ex_in.op = id.op /\ ex_mem_in.op = id_ex_out.op /\ mem_wb_in.op = ex_mem_out.op
  BY DEF id_ex_in, ex_mem_in, mem_wb_in
<1> QED BY <1>2, <1>3, <1>4, <1>5, <1>6 DEF TrapFree, Plain

(* An instruction that waits in EX keeps its operands.                     *)
LEMMA OperandsHeld ==
    ASSUME Next, id_ex_valid, ~ex_mem_ready
    PROVE  /\ ex_data_latched' /\ ex_rs1' = ex_rs1 /\ ex_rs2' = ex_rs2
           /\ ex_rs1_latched' = ex_rs1 /\ ex_rs2_latched' = ex_rs2
<1>1. ExLatchClock
  BY DEF Next, PipeClock
<1>2. /\ ex_data_latched' = TRUE
      /\ ex_rs1_latched' = IF ~ex_data_latched THEN forward_rs1 ELSE ex_rs1_latched
      /\ ex_rs2_latched' = IF ~ex_data_latched THEN forward_rs2 ELSE ex_rs2_latched
  BY <1>1 DEF ExLatchClock
<1> QED BY <1>2 DEF ex_rs1, ex_rs2

(* ID/EX empties, is written or keeps its instruction.                     *)
LEMMA IdExMoves ==
    ASSUME TrapFree, Next
    PROVE  /\ ~id_ex_ready => id_ex_valid' = id_ex_valid /\ id_ex_out' = id_ex_out
           /\ id_ex_ready => (id_ex_valid' <=> if_id_valid /\ ~hazard_stall)
           /\ id_ex_ready /\ id_ex_valid' => id_ex_out' = id_ex_in
<1>1. IdExClock
  BY DEF Next, PipeClock
<1>2. ~global_trap_flush
  BY NoTrapFlush
<1> QED BY <1>1, <1>2 DEF IdExClock, Pipcon

(* The input wires of IFU and cache.                                       *)
bus_ready == icache_arready(lsu_arvalid)
bus_valid == icache_rvalid(m_rvalid(araddr_reg))
bus_last  == m_rlast(araddr_reg)
bus_data  == m_rdata(araddr_reg)
Beats     == ic_state = "MISS_R" /\ bus_valid

(* A cycle of the core is a clock edge of IFU and cache with these inputs. *)
LEMMA FetchClocks ==
    ASSUME Next
    PROVE  /\ IfuClock(ifu_flush_req, next_pc, if_id_ready, ifu_arready,
                       ifu_rvalid(bus_valid), ifu_rdata(bus_data))
           /\ IcacheClock(pc_reg, ifu_arvalid, ifu_rready, jump_req, is_fence_i,
                          bus_ready, bus_valid, bus_last, bus_data)
BY DEF Next, FrontClock, bus_ready, bus_valid, bus_last, bus_data

(* A branch is in decode while the IFU is in IDLE, so in its first cycle   *)
(* in EX the IFU has at most shown the next request.                       *)
LEMMA RedirectStep ==
    ASSUME TypeOK, TrapFree, FetchOnlyWhenDecodeEmpty, Redirect, Next
    PROVE  Redirect'
<1> SUFFICES ASSUME ex_mispredict' PROVE ifu_state' \in {"IDLE", "REQ_AR"}
  BY DEF Redirect
<1>1. id_ex_valid'
  BY DEF ex_mispredict
<1>2. IfuClock(ifu_flush_req, next_pc, if_id_ready, ifu_arready, ifu_rvalid(bus_valid), ifu_rdata(bus_data))
  BY FetchClocks
<1>3. CASE id_ex_ready
  <2>1. if_id_valid
    BY <1>1, <1>3, IdExMoves
  <2>2. ifu_state = "IDLE"
    BY <2>1 DEF FetchOnlyWhenDecodeEmpty
  <2> QED BY <1>2, <2>2 DEF IfuClock, IfuFlush, IfuStart, IfuReqAr, IfuWaitR, IfuDone
<1>4. CASE ~id_ex_ready
  <2>1. id_ex_valid /\ ~ex_mem_ready /\ id_ex_valid' = id_ex_valid /\ id_ex_out' = id_ex_out
    BY <1>4, IdExMoves DEF id_ex_ready, TypeOK
  <2>2. ex_rs1' = ex_rs1 /\ ex_rs2' = ex_rs2
    BY <2>1, OperandsHeld
  <2>3. ex_mispredict
    BY <2>1, <2>2 DEF ex_mispredict, ex_ras_correct, ex_branch_taken, ex_branch_target
  <2>4. ifu_flush_req
    BY <2>3 DEF ifu_flush_req, jump_req
  <2> QED BY <1>2, <2>4 DEF IfuClock, IfuFlush
<1> QED BY <1>3, <1>4

-----------------------------------------------------------------------------
(* The cache works on a request that missed.                               *)
Refilling == ic_state \in {"MISS_AR", "MISS_R"}

(* The IFU and the cache agree on the request under way and on its         *)
(* address.                                                                *)
Coupled ==
    /\ ifu_state = "WAIT_R" => /\ ic_state # "IDLE" \/ refill_complete
                               /\ req_addr_reg = pc_reg
    /\ ifu_state # "WAIT_R" => ic_state = "IDLE" /\ ~refill_complete
    /\ Refilling \/ refill_complete => miss_addr_reg = req_addr_reg
    /\ refill_complete => ic_state = "IDLE" /\ is_cacheable /\ cache_hit
    /\ state_load \in {"IFU_REQ_AR", "IFU_WAIT_R"} => ic_state = "MISS_R"

(* The SRAM serves the burst the bus has registered.                       *)
Reading == m_rready /\ araddr_reg \in SramAddr
(* The burst the SRAM works on is the one the bus asked for, and what it   *)
(* shows is the word of memory.                                            *)
BurstInv ==
    /\ sram_read # "AR" <=> Reading
    /\ sram_read # "AR" => /\ read_base_addr = araddr_reg /\ burst_len = arlen_reg
                           /\ beat_cnt <= burst_len
    /\ state_load \in {"LSU_REQ_AR", "LSU_WAIT_R"} => arlen_reg = 0
    /\ sram_read = "R" /\ state_load = "IFU_WAIT_R" => rdata_reg = mem[Plus(araddr_reg, beat_cnt)]

(* The cache stores as many words of the line as the SRAM has sent.        *)
Counted ==
    /\ ic_state = "MISS_AR" => refill_cnt = 0
    /\ ic_state = "MISS_R" => refill_cnt = IF state_load = "IFU_WAIT_R" THEN beat_cnt ELSE 0

(* The slot that is being overwritten.                                     *)
InRefill(w, s) == ic_state = "MISS_R" /\ is_cacheable /\ w = miss_way_reg /\ s = Index(miss_addr_reg)

(* A slot that is not being overwritten shows memory; one that is shows it *)
(* up to refill_cnt.                                                       *)
Lines ==
    /\ \A w \in Way, s \in Set, b \in Beat : valid_array[w][s] =>
          /\ LineAddr(w, s, b) \in Code
          /\ ~InRefill(w, s) => data_array[w][s][b] = mem[LineAddr(w, s, b)]
    /\ ic_state = "MISS_R" /\ is_cacheable =>
          \A b \in Beat : b < refill_cnt =>
              data_array[miss_way_reg][Index(miss_addr_reg)][b] = mem[LineBase(miss_addr_reg) + b]
    /\ Refilling => ~cache_hit
    /\ \A s \in Set : ~(valid_array[0][s] /\ valid_array[1][s] /\ tag_array[0][s] = tag_array[1][s])

(* IFU and IF/ID hold the word of memory at the address they name.         *)
Fetched ==
    /\ ifu_state = "DONE" => inst_reg = mem[pc_reg]
    /\ if_id_valid => if_id_out.pc \in Code /\ if_id_out.inst = mem[if_id_out.pc]

(* No flush reaches a request once the cache has it.                       *)
LEMMA FlushesAreEarly ==
    ASSUME TrapFree, Redirect, FetchOnlyWhenDecodeEmpty, ifu_flush_req
    PROVE  ifu_state \in {"IDLE", "REQ_AR"}
BY NoTrapFlush DEF ifu_flush_req, id_ras_hit, ras_hit, Redirect, FetchOnlyWhenDecodeEmpty

(* While the cache refills, the beats of the bus are the words of its line. *)
LEMMA RefillBeats ==
    ASSUME TypeOK, CodeLines, Plain, CacheAndBusPaired, Coupled, ic_state = "MISS_R"
    PROVE  /\ miss_addr_reg \in Code /\ miss_addr_reg = pc_reg
           /\ araddr_reg \in SramAddr
           /\ bus_valid <=> state_load = "IFU_WAIT_R" /\ sram_read = "R"
           /\ bus_last <=> sram_read = "R" /\ beat_cnt = burst_len
           /\ bus_data = rdata_reg
<1>1. miss_addr_reg = pc_reg /\ miss_addr_reg \in Code
  BY DEF Coupled, Plain, Refilling
<1>2. 0 \in Beat
  BY GeometryAssumption DEF Beat
<1>3. is_cacheable => LineBase(miss_addr_reg) \in Code
  <2>1. LineBase(miss_addr_reg) \in Nat
    BY AddressFields, WordArith DEF TypeOK, IcacheTypeOK
  <2> QED BY <1>1, <1>2, <2>1 DEF CodeLines, is_cacheable
<1>4. araddr_reg \in SramAddr
  BY <1>1, <1>3 DEF CacheAndBusPaired, icache_araddr, CodeLines
<1> QED
  BY <1>1, <1>4, MapAssumption
     DEF bus_valid, bus_last, bus_data, icache_rvalid, m_rvalid, m_rlast, m_rdata, sram_rvalid, sram_rlast

-----------------------------------------------------------------------------
(* The edges of IFU and cache.                                             *)
Paired == /\ TypeOK /\ FetchOnlyWhenDecodeEmpty /\ CacheAndBusPaired
          /\ TrapFree /\ Redirect /\ Coupled

(* The moves of the IFU when nothing but a redirection flushes it.         *)
LEMMA IfuMoves ==
    ASSUME Paired, Next
    PROVE  /\ ifu_state = "IDLE" => ifu_state' \in {"IDLE", "REQ_AR"}
           /\ ifu_state = "REQ_AR" => IF ifu_flush_req THEN ifu_state' = "IDLE"
                                      ELSE ifu_state' = "WAIT_R" /\ pc_reg' = pc_reg
           /\ ifu_state = "WAIT_R" =>
                 /\ ~ifu_flush_req /\ pc_reg' = pc_reg
                 /\ IF ifu_rvalid(bus_valid)
                    THEN ifu_state' = "DONE" /\ inst_reg' = ifu_rdata(bus_data)
                    ELSE ifu_state' = "WAIT_R"
           /\ ifu_state = "DONE" =>
                 \/ ifu_state' = "IDLE"
                 \/ ifu_state' = "DONE" /\ UNCHANGED <<pc_reg, inst_reg>>
<1>1. IfuClock(ifu_flush_req, next_pc, if_id_ready, ifu_arready, ifu_rvalid(bus_valid), ifu_rdata(bus_data))
  BY FetchClocks
<1>2. ifu_flush_req => ifu_state \in {"IDLE", "REQ_AR"}
  BY FlushesAreEarly DEF Paired
<1>3. ifu_state = "REQ_AR" => ifu_arready
  BY DEF Paired, Coupled, ifu_arready
<1> HIDE DEF ifu_arready
<1> QED BY <1>1, <1>2, <1>3 DEF IfuClock, IfuFlush, IfuStart, IfuReqAr, IfuWaitR, IfuDone

(* The cache takes a request only from an IFU that will wait for it.       *)
Asks == ifu_state = "REQ_AR" /\ ~jump_req

(* While the IFU shows a request nothing is in decode, so only EX          *)
(* redirects it.                                                           *)
LEMMA AsksOrFlushed ==
    ASSUME Paired, ifu_state = "REQ_AR"
    PROVE  ifu_flush_req <=> jump_req
BY DEF Paired, FetchOnlyWhenDecodeEmpty, ifu_flush_req, id_ras_hit, ras_hit

(* The moves of the cache when no flush meets a request.                   *)
LEMMA CacheMoves ==
    ASSUME Paired, Plain, Next
    PROVE  /\ ic_state' = CASE ic_state = "IDLE" /\ Asks -> "LOOKUP"
                            [] ic_state = "LOOKUP" /\ cache_hit -> "IDLE"
                            [] ic_state = "LOOKUP" /\ ~cache_hit -> "MISS_AR"
                            [] ic_state = "MISS_AR" /\ bus_ready -> "MISS_R"
                            [] ic_state = "MISS_R" /\ bus_valid /\ bus_last -> "IDLE"
                            [] OTHER -> ic_state
           /\ Asks => req_addr_reg' = pc_reg
           /\ ifu_state = "WAIT_R" => req_addr_reg' = req_addr_reg
           /\ IF ic_state = "LOOKUP" /\ ~cache_hit
              THEN miss_addr_reg' = req_addr_reg /\ refill_cnt' = 0
              ELSE /\ UNCHANGED <<miss_addr_reg, miss_way_reg>>
                   /\ refill_cnt' = IF Beats /\ is_cacheable
                                    THEN IF bus_last THEN 0 ELSE (refill_cnt + 1) % LINE
                                    ELSE refill_cnt
           /\ refill_complete' <=> Beats /\ bus_last /\ is_cacheable
           /\ IcacheFill(ifu_rready, Beats, bus_last, bus_data)
<1>1. /\ IcacheState(jump_req, ifu_arvalid, ifu_rready, bus_ready, Beats /\ bus_last)
      /\ IcacheRegs(pc_reg, ifu_arvalid, Beats, bus_last)
      /\ IcacheFill(ifu_rready, Beats, bus_last, bus_data)
  BY FetchClocks DEF IcacheClock, Plain, Beats, icache_rready
<1>2. ic_state # "IDLE" => ifu_state = "WAIT_R" /\ ~jump_req
  <2>1. ic_state # "IDLE" => ifu_state = "WAIT_R"
    BY DEF Paired, Coupled
  <2> QED BY <2>1, FlushesAreEarly DEF Paired, ifu_flush_req
<1>3. ic_state' = CASE ic_state = "IDLE" /\ Asks -> "LOOKUP"
                    [] ic_state = "LOOKUP" /\ cache_hit -> "IDLE"
                    [] ic_state = "LOOKUP" /\ ~cache_hit -> "MISS_AR"
                    [] ic_state = "MISS_AR" /\ bus_ready -> "MISS_R"
                    [] ic_state = "MISS_R" /\ bus_valid /\ bus_last -> "IDLE"
                    [] OTHER -> ic_state
  <2>1. ic_state = "IDLE" => ic_state' = IF Asks THEN "LOOKUP" ELSE "IDLE"
    BY <1>1 DEF IcacheState, Asks, ifu_arvalid, Beats
  <2>2. ic_state # "IDLE" => ifu_rready
    BY <1>2 DEF ifu_rready
  <2> QED BY <1>1, <1>2, <2>1, <2>2 DEF IcacheState, Beats, Paired, TypeOK, IcacheTypeOK
<1>4. /\ Asks => req_addr_reg' = pc_reg
      /\ ifu_state = "WAIT_R" => req_addr_reg' = req_addr_reg
  BY <1>1 DEF IcacheRegs, Asks, ifu_arvalid, Paired, Coupled
<1>5. /\ IF ic_state = "LOOKUP" /\ ~cache_hit
         THEN miss_addr_reg' = req_addr_reg /\ refill_cnt' = 0
         ELSE /\ UNCHANGED <<miss_addr_reg, miss_way_reg>>
              /\ refill_cnt' = IF Beats /\ is_cacheable
                               THEN IF bus_last THEN 0 ELSE (refill_cnt + 1) % LINE
                               ELSE refill_cnt
      /\ refill_complete' <=> Beats /\ bus_last /\ is_cacheable
  BY <1>1 DEF IcacheRegs
<1> QED BY <1>1, <1>3, <1>4, <1>5

-----------------------------------------------------------------------------
(* The edges of the bus and the SRAM.                                      *)

(* The step writes no word of Code.                                        *)
CodeKept == \A a \in Code : mem'[a] = mem[a]

(* The read machine of the bus keeps, takes or finishes a burst.           *)
LEMMA BusMoves ==
    ASSUME Next
    PROVE  /\ state_load = "BUS_IDLE" =>
                 \/ /\ bus_ready /\ icache_arvalid /\ state_load' = "IFU_REQ_AR"
                    /\ araddr_reg' = icache_araddr /\ arlen_reg' = icache_arlen
                 \/ /\ ~(bus_ready /\ icache_arvalid)
                    /\ state_load' \in {"BUS_IDLE", "LSU_DONE", "LSU_REQ_AR"}
                    /\ state_load' = "LSU_REQ_AR" => arlen_reg' = 0
           /\ state_load # "BUS_IDLE" => UNCHANGED <<araddr_reg, arlen_reg>> /\ ~bus_ready
           /\ state_load = "IFU_REQ_AR" =>
                 state_load' = IF m_arready(araddr_reg) THEN "IFU_WAIT_R" ELSE "IFU_REQ_AR"
           /\ state_load = "LSU_REQ_AR" =>
                 state_load' = IF m_arready(araddr_reg) THEN "LSU_WAIT_R" ELSE "LSU_REQ_AR"
           /\ state_load = "IFU_WAIT_R" =>
                 state_load' = IF m_rvalid(araddr_reg) /\ bus_last THEN "BUS_IDLE" ELSE "IFU_WAIT_R"
           /\ state_load = "LSU_WAIT_R" =>
                 state_load' = IF m_rvalid(araddr_reg) THEN "LSU_DONE" ELSE "LSU_WAIT_R"
           /\ state_load = "LSU_DONE" => state_load' \in {"BUS_IDLE", "LSU_DONE"}
<1>1. PICK t \in Times : MemClock(t)
  BY DEF Next
<1>2. BusReadClock(lsu_arvalid, lsu_araddr, lsu_rready, icache_arvalid, icache_araddr, icache_arlen,
                   m_arready(araddr_reg), m_rvalid(araddr_reg), bus_last, bus_data, t)
  BY <1>1 DEF MemClock, bus_last, bus_data
<1>3. CASE BusAcceptLsuRead(lsu_arvalid, lsu_araddr, t)
  BY <1>3 DEF BusAcceptLsuRead, bus_read_idle, bus_write_idle, bus_ready, icache_arready
<1>4. CASE BusAcceptIfuRead(lsu_arvalid, icache_arvalid, icache_araddr, icache_arlen)
  BY <1>4 DEF BusAcceptIfuRead, bus_read_idle, bus_write_idle, bus_ready, icache_arready
<1>5. CASE BusReadStaysIdle(lsu_arvalid, icache_arvalid)
  BY <1>5 DEF BusReadStaysIdle, bus_read_idle, bus_write_idle, bus_ready, icache_arready, busReadVars
<1>6. CASE \/ BusReqAr(m_arready(araddr_reg)) \/ BusIfuWaitR(m_rvalid(araddr_reg), bus_last)
           \/ BusLsuWaitR(m_rvalid(araddr_reg), bus_data) \/ BusLsuDone(lsu_rready)
  <2>1. state_load # "BUS_IDLE" /\ UNCHANGED <<araddr_reg, arlen_reg>>
    BY <1>6 DEF BusReqAr, BusIfuWaitR, BusLsuWaitR, BusLsuDone, m_arvalid
  <2>2. ~bus_ready
    BY <2>1 DEF bus_ready, icache_arready, bus_read_idle
  <2>3. CASE BusReqAr(m_arready(araddr_reg))
    BY <2>1, <2>2, <2>3 DEF BusReqAr, m_arvalid
  <2>4. CASE BusIfuWaitR(m_rvalid(araddr_reg), bus_last)
    BY <2>1, <2>2, <2>4 DEF BusIfuWaitR
  <2>5. CASE BusLsuWaitR(m_rvalid(araddr_reg), bus_data)
    BY <2>1, <2>2, <2>5 DEF BusLsuWaitR
  <2>6. CASE BusLsuDone(lsu_rready)
    BY <2>1, <2>2, <2>6 DEF BusLsuDone
  <2> QED BY <1>6, <2>3, <2>4, <2>5, <2>6
<1> QED BY <1>2, <1>3, <1>4, <1>5, <1>6 DEF BusReadClock

(* The read machine of the SRAM follows the bus.                           *)
LEMMA SramMoves ==
    ASSUME Next
    PROVE  /\ sram_read = "AR" =>
                 IF m_arvalid /\ araddr_reg \in SramAddr
                 THEN /\ sram_read' = "D" /\ read_base_addr' = araddr_reg
                      /\ burst_len' = arlen_reg /\ beat_cnt' = 0
                 ELSE sram_read' = "AR"
           /\ sram_read = "D" =>
                 /\ UNCHANGED <<read_base_addr, burst_len, beat_cnt>>
                 /\ \/ sram_read' = "D"
                    \/ /\ sram_read' = "R"
                       /\ LET a == Plus(read_base_addr, beat_cnt) IN rdata_reg' \in {mem[a], mem'[a]}
           /\ sram_read = "R" =>
                 /\ UNCHANGED <<read_base_addr, burst_len, rdata_reg>>
                 /\ Reading => IF beat_cnt = burst_len THEN sram_read' = "AR"
                               ELSE sram_read' = "D" /\ beat_cnt' = beat_cnt + 1
<1>1. SramReadClock(m_arvalid /\ araddr_reg \in SramAddr, araddr_reg, arlen_reg,
                    m_rready /\ araddr_reg \in SramAddr)
  BY DEF Next, MemClock, SocReadClock
<1> QED BY <1>1 DEF SramReadClock, SramReadAddr, SramReadDelay, SramReadBeat, sramReadVars, Reading

(* The word an instruction read is at.                                     *)
LEMMA BeatInCode ==
    ASSUME TypeOK, CodeLines, Plain, CacheAndBusPaired, Coupled, ic_state = "MISS_R",
           NEW k \in Nat, k <= arlen_reg
    PROVE  /\ Plus(araddr_reg, k) \in Code
           /\ Plus(araddr_reg, k) = araddr_reg + k
<1>1. miss_addr_reg \in Code /\ araddr_reg = icache_araddr /\ arlen_reg = icache_arlen
  BY RefillBeats DEF CacheAndBusPaired
<1>2. araddr_reg + k \in Code
  <2>1. CASE is_cacheable
    <3>1. k \in Beat
      BY <1>1, <2>1, GeometryAssumption DEF icache_arlen, Beat
    <3> QED BY <1>1, <2>1, <3>1 DEF CodeLines, icache_araddr, is_cacheable
  <2>2. CASE ~is_cacheable
    <3>1. k = 0 /\ araddr_reg = miss_addr_reg /\ miss_addr_reg \in Nat
      BY <1>1, <2>2, WordArith DEF icache_arlen, icache_araddr, TypeOK, IcacheTypeOK
    <3> QED BY <1>1, <3>1
  <2> QED BY <2>1, <2>2
<1>3. araddr_reg + k \in 0 .. WORDS - 1
  BY <1>2, MapAssumption DEF CodeLines, Word
<1> QED BY <1>2, <1>3, WordsAssumption DEF Plus

(* A cycle keeps BurstInv.                                                 *)
LEMMA BurstStep ==
    ASSUME Paired, CodeLines, Plain, BurstInv, CodeKept, Next
    PROVE  BurstInv'
<1> USE DEF m_rready, Reading
<1>1. arlen_reg \in Nat /\ beat_cnt \in Nat /\ burst_len \in Nat
  BY DEF Paired, TypeOK, BusTypeOK, SocTypeOK, SramTypeOK
<1>2. state_load \in {"BUS_IDLE", "IFU_REQ_AR", "IFU_WAIT_R", "LSU_REQ_AR", "LSU_WAIT_R", "LSU_DONE"}
      /\ sram_read \in {"AR", "D", "R"}
  BY DEF Paired, TypeOK, BusTypeOK, SocTypeOK, SramTypeOK
<1>3. CASE state_load \in {"BUS_IDLE", "LSU_DONE"}
  <2>1. sram_read = "AR" /\ ~m_arvalid
    BY <1>3 DEF BurstInv, m_arvalid
  <2>2. sram_read' = "AR" /\ state_load' \in {"BUS_IDLE", "LSU_DONE", "LSU_REQ_AR", "IFU_REQ_AR"}
        /\ (state_load' = "LSU_REQ_AR" => arlen_reg' = 0)
    BY <1>3, <2>1, BusMoves, SramMoves
  <2> QED BY <2>2 DEF BurstInv
<1>4. CASE state_load \in {"IFU_REQ_AR", "LSU_REQ_AR"}
  <2>1. sram_read = "AR" /\ m_arvalid /\ UNCHANGED <<araddr_reg, arlen_reg>>
    BY <1>4, BusMoves DEF BurstInv, m_arvalid
  <2>2. CASE araddr_reg \in SramAddr
    <3>1. m_arready(araddr_reg)
      BY <2>1, <2>2 DEF m_arready, sram_arready
    <3>2. /\ sram_read' = "D" /\ read_base_addr' = araddr_reg
          /\ burst_len' = arlen_reg /\ beat_cnt' = 0
      BY <2>1, <2>2, SramMoves
    <3>3. /\ state_load' \in {"IFU_WAIT_R", "LSU_WAIT_R"}
          /\ state_load' = "LSU_WAIT_R" => state_load = "LSU_REQ_AR"
      BY <1>4, <3>1, BusMoves
    <3> QED BY <1>1, <2>1, <2>2, <3>2, <3>3 DEF BurstInv
  <2>3. CASE araddr_reg \notin SramAddr
    <3>1. sram_read' = "AR"
      BY <2>1, <2>3, SramMoves
    <3>2. state_load' \in {"LSU_REQ_AR", "LSU_WAIT_R"} => state_load = "LSU_REQ_AR"
      BY <1>4, BusMoves
    <3> QED BY <2>1, <2>3, <3>1, <3>2 DEF BurstInv
  <2> QED BY <2>2, <2>3
<1>5. CASE state_load = "IFU_WAIT_R"
  <2>1. ic_state = "MISS_R" /\ UNCHANGED <<araddr_reg, arlen_reg>>
    BY <1>5, BusMoves DEF Paired, Coupled
  <2>2. /\ araddr_reg \in SramAddr /\ sram_read # "AR"
        /\ bus_valid <=> sram_read = "R"
        /\ bus_last <=> sram_read = "R" /\ beat_cnt = burst_len
    BY <1>5, <2>1, RefillBeats DEF Paired, BurstInv
  <2>3. read_base_addr = araddr_reg /\ burst_len = arlen_reg /\ beat_cnt <= burst_len
    BY <2>2 DEF BurstInv
  <2>4. state_load' = IF sram_read = "R" /\ beat_cnt = burst_len THEN "BUS_IDLE" ELSE "IFU_WAIT_R"
    BY <1>5, <2>2, BusMoves DEF bus_valid, icache_rvalid
  <2>5. CASE sram_read = "D"
    <3> DEFINE a == Plus(araddr_reg, beat_cnt)
    <3>0. Plus(read_base_addr, beat_cnt) = a
      BY <2>3
    <3>1. /\ UNCHANGED <<read_base_addr, burst_len, beat_cnt>>
          /\ sram_read' \in {"D", "R"}
          /\ sram_read' = "R" => rdata_reg' \in {mem[a], mem'[a]}
      <4>1. sram_read' = "R" =>
               rdata_reg' \in {mem[Plus(read_base_addr, beat_cnt)], mem'[Plus(read_base_addr, beat_cnt)]}
        BY <2>5, SramMoves
      <4>2. UNCHANGED <<read_base_addr, burst_len, beat_cnt>> /\ sram_read' \in {"D", "R"}
        BY <2>5, SramMoves
      <4> QED BY <3>0, <4>1, <4>2
    <3>2. a \in Code
      BY <1>1, <2>1, <2>3, BeatInCode DEF Paired
    <3>3. mem'[a] = mem[a]
      BY <3>2 DEF CodeKept
    <3>4. sram_read' = "R" => rdata_reg' = mem'[Plus(araddr_reg, beat_cnt)]
      BY <3>1, <3>3
    <3>5. sram_read' = "R" => (rdata_reg = mem[Plus(araddr_reg, beat_cnt)])'
      BY <2>1, <3>1, <3>4 DEF Plus
    <3> HIDE DEF a
    <3> QED BY <2>1, <2>2, <2>3, <2>4, <2>5, <3>1, <3>5 DEF BurstInv
  <2>6. CASE sram_read = "R"
    <3>1. UNCHANGED <<read_base_addr, burst_len>>
          /\ IF beat_cnt = burst_len THEN sram_read' = "AR" ELSE sram_read' = "D" /\ beat_cnt' = beat_cnt + 1
      BY <1>5, <2>2, <2>6, SramMoves
    <3> QED BY <1>1, <2>1, <2>2, <2>3, <2>4, <2>6, <3>1 DEF BurstInv
  <2> QED BY <1>2, <2>2, <2>5, <2>6
<1>6. CASE state_load = "LSU_WAIT_R"
  <2>1. UNCHANGED <<araddr_reg, arlen_reg>> /\ arlen_reg = 0
    BY <1>6, BusMoves DEF BurstInv
  <2>2. state_load' = IF m_rvalid(araddr_reg) THEN "LSU_DONE" ELSE "LSU_WAIT_R"
    BY <1>6, BusMoves
  <2>3. CASE araddr_reg \in SramAddr
    <3>1. sram_read # "AR" /\ read_base_addr = araddr_reg /\ burst_len = arlen_reg /\ beat_cnt = 0
      BY <1>1, <1>6, <2>1, <2>3 DEF BurstInv
    <3>2. m_rvalid(araddr_reg) <=> sram_read = "R"
      BY <2>3, MapAssumption DEF m_rvalid, sram_rvalid
    <3>3. CASE sram_read = "D"
      BY <1>1, <2>1, <2>2, <2>3, <3>1, <3>2, <3>3, SramMoves DEF BurstInv
    <3>4. CASE sram_read = "R"
      <4>1. sram_read' = "AR"
        BY <1>6, <2>1, <2>3, <3>1, <3>4, SramMoves
      <4> QED BY <2>2, <3>2, <3>4, <4>1 DEF BurstInv
    <3> QED BY <1>2, <3>1, <3>3, <3>4
  <2>4. CASE araddr_reg \notin SramAddr
    <3>1. sram_read = "AR" /\ sram_read' = "AR"
      BY <2>4, SramMoves DEF BurstInv
    <3> QED BY <2>1, <2>2, <2>4, <3>1 DEF BurstInv
  <2> QED BY <2>3, <2>4
<1> QED BY <1>2, <1>3, <1>4, <1>5, <1>6

-----------------------------------------------------------------------------
(* What a cycle stores in the cache.                                       *)
Fills       == Beats /\ is_cacheable
Here(w, s)  == w = miss_way_reg /\ s = Index(miss_addr_reg)

(* A beat goes to one word of one slot; everything else of the arrays      *)
(* stays.                                                                  *)
LEMMA FillMoves ==
    ASSUME IcacheTypeOK, IcacheFill(ifu_rready, Beats, bus_last, bus_data),
           NEW w \in Way, NEW s \in Set
    PROVE  /\ valid_array'[w][s] <=> valid_array[w][s] \/ (Fills /\ bus_last /\ Here(w, s))
           /\ tag_array'[w][s] = IF Fills /\ bus_last /\ Here(w, s) THEN Tag(miss_addr_reg)
                                                                    ELSE tag_array[w][s]
           /\ \A b \in Beat : data_array'[w][s][b] =
                 IF Fills /\ Here(w, s) /\ b = refill_cnt THEN bus_data ELSE data_array[w][s][b]
<1>1. miss_way_reg \in Way /\ Index(miss_addr_reg) \in Set /\ refill_cnt \in Beat
  BY AddressFields DEF IcacheTypeOK
<1>2. /\ data_array' = IF Fills
                       THEN [data_array EXCEPT ![miss_way_reg][Index(miss_addr_reg)][refill_cnt] = bus_data]
                       ELSE data_array
      /\ tag_array' = IF Fills /\ bus_last
                      THEN [tag_array EXCEPT ![miss_way_reg][Index(miss_addr_reg)] = Tag(miss_addr_reg)]
                      ELSE tag_array
      /\ valid_array' = IF Fills /\ bus_last
                        THEN [valid_array EXCEPT ![miss_way_reg][Index(miss_addr_reg)] = TRUE]
                        ELSE valid_array
  BY DEF IcacheFill, Fills
<1> HIDE DEF Fills
<1>3. valid_array'[w][s] <=> valid_array[w][s] \/ (Fills /\ bus_last /\ Here(w, s))
  BY <1>1, <1>2 DEF Here, IcacheTypeOK
<1>4. tag_array'[w][s] = IF Fills /\ bus_last /\ Here(w, s) THEN Tag(miss_addr_reg) ELSE tag_array[w][s]
  BY <1>1, <1>2 DEF Here, IcacheTypeOK
<1>5. \A b \in Beat : data_array'[w][s][b] =
         IF Fills /\ Here(w, s) /\ b = refill_cnt THEN bus_data ELSE data_array[w][s][b]
  BY <1>1, <1>2 DEF Here, IcacheTypeOK
<1> QED BY <1>3, <1>4, <1>5

(* In the cycle after the last beat the line hits.                         *)
LEMMA HitAfterRefill ==
    ASSUME Paired, Plain, Next, refill_complete'
    PROVE  (is_cacheable /\ cache_hit)'
<1>1. Beats /\ bus_last /\ is_cacheable /\ ic_state = "MISS_R"
  BY CacheMoves DEF Beats
<1>2. /\ UNCHANGED <<miss_addr_reg, miss_way_reg, req_addr_reg>> /\ miss_addr_reg = req_addr_reg
      /\ IcacheFill(ifu_rready, Beats, bus_last, bus_data)
  BY <1>1, CacheMoves DEF Paired, Coupled, Refilling
<1>3. miss_way_reg \in Way /\ Index(miss_addr_reg) \in Set
  BY AddressFields DEF Paired, TypeOK, IcacheTypeOK
<1>4. valid_array'[miss_way_reg][Index(miss_addr_reg)] /\ tag_array'[miss_way_reg][Index(miss_addr_reg)] = Tag(miss_addr_reg)
  BY <1>1, <1>2, <1>3, FillMoves DEF Fills, Here, Paired, TypeOK
<1>5. miss_way_reg = 0 \/ miss_way_reg = 1
  BY <1>3 DEF Way
<1>6. Index(req_addr_reg)' = Index(miss_addr_reg) /\ Tag(req_addr_reg)' = Tag(miss_addr_reg)
  BY <1>2 DEF Index, Tag
<1> QED BY <1>1, <1>2, <1>4, <1>5, <1>6 DEF cache_hit, Hit, is_cacheable

(* An uncached word is a burst of one.                                     *)
LEMMA OneBeat ==
    ASSUME Paired, CodeLines, Plain, BurstInv, ic_state = "MISS_R", ~is_cacheable, bus_valid
    PROVE  bus_last
<1>1. sram_read = "R" /\ burst_len = 0 /\ beat_cnt <= burst_len
  BY RefillBeats DEF Paired, CacheAndBusPaired, BurstInv, icache_arlen
<1>2. beat_cnt \in Nat
  BY DEF Paired, TypeOK, SocTypeOK, SramTypeOK
<1> QED BY <1>1, <1>2, RefillBeats DEF Paired

(* A cycle keeps Coupled.                                                  *)
LEMMA CoupledStep ==
    ASSUME Paired, CodeLines, Plain, BurstInv, Next
    PROVE  Coupled'
<1>1. refill_complete' => (is_cacheable /\ cache_hit)'
  BY HitAfterRefill
<1> HIDE DEF is_cacheable, cache_hit
<1>2. ic_state \in {"IDLE", "LOOKUP", "MISS_AR", "MISS_R"} /\ ifu_state \in {"IDLE", "REQ_AR", "WAIT_R", "DONE"}
  BY DEF Paired, TypeOK, IcacheTypeOK, IfuTypeOK, IfuState
<1>3. state_load' \in {"IFU_REQ_AR", "IFU_WAIT_R"} => ic_state' = "MISS_R"
  <2>1. CASE state_load \in {"IFU_REQ_AR", "IFU_WAIT_R"}
    <3>1. ic_state = "MISS_R"
      BY <2>1 DEF Paired, Coupled
    <3>2. bus_valid /\ bus_last => state_load' = "BUS_IDLE"
      BY BusMoves DEF bus_valid, icache_rvalid
    <3> QED BY <3>1, <3>2, CacheMoves
  <2>2. CASE state_load \notin {"IFU_REQ_AR", "IFU_WAIT_R"}
    <3>1. SUFFICES ASSUME state_load' \in {"IFU_REQ_AR", "IFU_WAIT_R"} PROVE ic_state' = "MISS_R"
      OBVIOUS
    <3>2. state_load \in {"BUS_IDLE", "LSU_REQ_AR", "LSU_WAIT_R", "LSU_DONE"}
      BY <2>2 DEF Paired, TypeOK, BusTypeOK
    <3>3. bus_ready /\ icache_arvalid
      BY <3>1, <3>2, BusMoves
    <3> QED BY <3>3, CacheMoves DEF icache_arvalid
  <2> QED BY <2>1, <2>2
<1>4. CASE ifu_state # "WAIT_R"
  <2>1. ic_state = "IDLE" /\ ~refill_complete'
    BY <1>4, CacheMoves DEF Paired, Coupled, Beats
  <2>2. CASE Asks
    <3>1. ic_state' = "LOOKUP" /\ req_addr_reg' = pc_reg
      BY <2>1, <2>2, CacheMoves
    <3>2. ifu_state' = "WAIT_R" /\ pc_reg' = pc_reg
      BY <2>2, IfuMoves, AsksOrFlushed DEF Asks
    <3> QED BY <1>3, <2>1, <3>1, <3>2 DEF Coupled, Refilling
  <2>3. CASE ~Asks
    <3>1. ic_state' = "IDLE"
      BY <2>1, <2>3, CacheMoves
    <3>2. ifu_state' # "WAIT_R"
      BY <1>2, <1>4, <2>3, IfuMoves, AsksOrFlushed DEF Asks
    <3> QED BY <1>3, <2>1, <3>1, <3>2 DEF Coupled, Refilling
  <2> QED BY <2>2, <2>3
<1>5. CASE ifu_state = "WAIT_R"
  <2>1. ~Asks /\ pc_reg' = pc_reg /\ req_addr_reg' = req_addr_reg /\ req_addr_reg = pc_reg
    BY <1>5, IfuMoves, CacheMoves DEF Asks, Paired, Coupled
  <2>2. ifu_state' = IF ifu_rvalid(bus_valid) THEN "DONE" ELSE "WAIT_R"
    BY <1>5, IfuMoves
  <2>3. CASE ic_state = "IDLE"
    <3>1. refill_complete /\ is_cacheable
      BY <1>5, <2>3 DEF Paired, Coupled
    <3>2. ifu_state' = "DONE"
      BY <2>2, <3>1 DEF ifu_rvalid
    <3>3. ic_state' = "IDLE" /\ ~refill_complete'
      BY <2>1, <2>3, CacheMoves DEF Beats
    <3> QED BY <1>3, <3>2, <3>3 DEF Coupled, Refilling
  <2>4. CASE ic_state = "LOOKUP"
    <3>1. ~refill_complete /\ ~refill_complete'
      BY <2>4, CacheMoves DEF Paired, Coupled, Beats
    <3>2. ifu_state' = IF cache_hit THEN "DONE" ELSE "WAIT_R"
      BY <2>2, <2>4, <3>1 DEF ifu_rvalid
    <3>3. /\ ic_state' = IF cache_hit THEN "IDLE" ELSE "MISS_AR"
          /\ ~cache_hit => miss_addr_reg' = req_addr_reg
      BY <2>4, CacheMoves
    <3> QED BY <1>3, <2>1, <3>1, <3>2, <3>3 DEF Coupled, Refilling
  <2>5. CASE ic_state = "MISS_AR"
    <3>1. ~refill_complete /\ ~refill_complete' /\ miss_addr_reg = req_addr_reg
      BY <2>5, CacheMoves DEF Paired, Coupled, Beats, Refilling
    <3>2. ifu_state' = "WAIT_R"
      BY <2>2, <2>5, <3>1 DEF ifu_rvalid
    <3>3. ic_state' \in {"MISS_AR", "MISS_R"} /\ miss_addr_reg' = miss_addr_reg
      BY <2>5, CacheMoves
    <3> QED BY <1>3, <2>1, <3>1, <3>2, <3>3 DEF Coupled, Refilling
  <2>6. CASE ic_state = "MISS_R"
    <3>1. ~refill_complete /\ miss_addr_reg = req_addr_reg
      BY <2>6 DEF Paired, Coupled, Refilling
    <3>2. ifu_state' = IF ~is_cacheable /\ bus_valid THEN "DONE" ELSE "WAIT_R"
      BY <2>2, <2>6, <3>1 DEF ifu_rvalid
    <3>3. /\ ic_state' = IF bus_valid /\ bus_last THEN "IDLE" ELSE "MISS_R"
          /\ miss_addr_reg' = miss_addr_reg
          /\ refill_complete' <=> bus_valid /\ bus_last /\ is_cacheable
      BY <2>6, CacheMoves DEF Beats
    <3>4. ~is_cacheable /\ bus_valid => bus_last
      BY <2>6, OneBeat
    <3> QED BY <1>1, <1>3, <2>1, <3>1, <3>2, <3>3, <3>4 DEF Coupled, Refilling
  <2> QED BY <1>2, <2>3, <2>4, <2>5, <2>6
<1> QED BY <1>4, <1>5

-----------------------------------------------------------------------------
(* The word the cache fills next is the word the burst delivers next.      *)
LEMMA LastBeat ==
    ASSUME Paired, CodeLines, Plain, BurstInv, ic_state = "MISS_R", bus_valid
    PROVE  /\ sram_read = "R" /\ state_load = "IFU_WAIT_R"
           /\ bus_last <=> beat_cnt = icache_arlen
           /\ beat_cnt \in 0 .. icache_arlen
<1>1. /\ sram_read = "R" /\ state_load = "IFU_WAIT_R"
      /\ bus_last <=> beat_cnt = burst_len
  BY RefillBeats DEF Paired
<1>2. burst_len = icache_arlen /\ beat_cnt <= burst_len
  BY <1>1 DEF Paired, CacheAndBusPaired, BurstInv
<1>3. beat_cnt \in Nat /\ burst_len \in Nat
  BY DEF Paired, TypeOK, SocTypeOK, SramTypeOK
<1> QED BY <1>1, <1>2, <1>3

(* A cycle keeps Counted.                                                  *)
LEMMA CountedStep ==
    ASSUME Paired, CodeLines, Plain, BurstInv, Counted, Next
    PROVE  Counted'
<1> HIDE DEF is_cacheable, cache_hit
<1>1. ic_state' = "MISS_AR" => refill_cnt' = 0
  <2>1. ic_state' = "MISS_AR" => \/ ic_state = "LOOKUP" /\ ~cache_hit
                                 \/ ic_state = "MISS_AR"
    BY CacheMoves
  <2>2. ic_state = "MISS_AR" => ~Beats /\ refill_cnt = 0
    BY DEF Beats, Counted
  <2> QED BY <2>1, <2>2, CacheMoves
<1>2. SUFFICES ASSUME ic_state' = "MISS_R"
               PROVE  refill_cnt' = IF state_load' = "IFU_WAIT_R" THEN beat_cnt' ELSE 0
  BY <1>1 DEF Counted
<1>3. ic_state \in {"MISS_AR", "MISS_R"}
  BY <1>2, CacheMoves
<1>4. CASE ic_state = "MISS_AR"
  <2>1. bus_ready /\ icache_arvalid
    BY <1>2, <1>4, CacheMoves DEF icache_arvalid
  <2>2. state_load' = "IFU_REQ_AR"
    BY <2>1, BusMoves DEF bus_ready, icache_arready, bus_read_idle
  <2>3. refill_cnt' = 0
    BY <1>4, CacheMoves DEF Beats, Counted
  <2> QED BY <2>2, <2>3
<1>5. CASE ic_state = "MISS_R"
  <2>1. ~(bus_valid /\ bus_last)
    BY <1>2, <1>5, CacheMoves
  <2>2. CASE bus_valid
    <3>1. is_cacheable /\ Beats /\ ~bus_last
      BY <1>5, <2>1, <2>2, OneBeat DEF Beats
    <3>2. /\ sram_read = "R" /\ state_load = "IFU_WAIT_R" /\ araddr_reg \in SramAddr
          /\ beat_cnt \in 0 .. LINE - 1 /\ beat_cnt # LINE - 1 /\ beat_cnt # burst_len
      BY <1>5, <2>2, <3>1, LastBeat, RefillBeats DEF icache_arlen, Paired
    <3>3. refill_cnt' = (refill_cnt + 1) % LINE /\ refill_cnt = beat_cnt
      BY <1>5, <3>1, <3>2, CacheMoves DEF Counted
    <3>4. beat_cnt' = beat_cnt + 1
      BY <3>2, SramMoves DEF Reading, m_rready
    <3>5. (beat_cnt + 1) % LINE = beat_cnt + 1
      BY <3>2, GeometryAssumption
    <3>6. state_load' = "IFU_WAIT_R"
      BY <3>1, <3>2, BusMoves
    <3> QED BY <3>3, <3>4, <3>5, <3>6
  <2>3. CASE ~bus_valid
    <3>1. refill_cnt' = refill_cnt
      BY <1>5, <2>3, CacheMoves DEF Beats
    <3>2. araddr_reg \in SramAddr
      BY <1>5, RefillBeats DEF Paired
    <3>3. CASE state_load = "IFU_WAIT_R"
      <4>1. sram_read = "D"
        BY <1>5, <2>3, <3>2, <3>3, RefillBeats
           DEF Paired, BurstInv, Reading, m_rready, TypeOK, SocTypeOK, SramTypeOK
      <4>2. beat_cnt' = beat_cnt
        BY <4>1, SramMoves
      <4>3. state_load' = "IFU_WAIT_R"
        BY <2>3, <3>3, BusMoves DEF bus_valid, icache_rvalid
      <4> QED BY <1>5, <3>1, <3>3, <4>2, <4>3 DEF Counted
    <3>4. CASE state_load = "IFU_REQ_AR"
      <4>1. refill_cnt = 0
        BY <1>5, <3>4 DEF Counted
      <4>2. state_load' = "IFU_WAIT_R" => beat_cnt' = 0
        <5>1. sram_read = "AR" /\ m_arready(araddr_reg)
          BY <3>2, <3>4, MapAssumption DEF BurstInv, Reading, m_rready, m_arready, sram_arready
        <5> QED BY <3>2, <3>4, <5>1, SramMoves DEF m_arvalid
      <4> QED BY <3>1, <4>1, <4>2
    <3>5. CASE state_load \notin {"IFU_WAIT_R", "IFU_REQ_AR"}
      <4>1. state_load' # "IFU_WAIT_R"
        BY <3>5, BusMoves DEF Paired, TypeOK, BusTypeOK
      <4> QED BY <1>5, <3>1, <3>5, <4>1 DEF Counted
    <3> QED BY <3>3, <3>4, <3>5
  <2> QED BY <2>2, <2>3
<1> QED BY <1>3, <1>4, <1>5

-----------------------------------------------------------------------------
(* A number is its quotient and its remainder.                             *)
LEMMA DivModEq ==
    ASSUME NEW a \in Nat, NEW n \in Nat \ {0}
    PROVE  /\ a = n * (a \div n) + (a % n)
           /\ a \div n \in Nat /\ a % n \in 0 .. n - 1
BY Z3

(* A number has one quotient.                                              *)
LEMMA Quotient ==
    ASSUME NEW n \in Nat \ {0}, NEW q \in Nat, NEW t \in Nat, NEW r \in 0 .. n - 1, NEW u \in 0 .. n - 1,
           n * q + r = n * t + u
    PROVE  q = t
<1>0. n * q \in Int /\ n * t \in Int
  OBVIOUS
<1>1. n * (q - t) = n * q - n * t
  OBVIOUS
<1>2. n * (q - t) = u - r
  BY <1>0, <1>1
<1>3. CASE q - t >= 1
  <2>1. n * (q - t) >= n
    BY <1>3
  <2> QED BY <1>2, <2>1
<1>4. CASE q - t <= -1
  <2>1. n * (q - t) <= -n
    BY <1>4
  <2> QED BY <1>2, <2>1
<1> QED BY <1>3, <1>4

(* Dividing by the line and then by the sets is dividing by both.          *)
LEMMA Mixed ==
    ASSUME NEW a \in Nat, NEW l \in Nat \ {0}, NEW s \in Nat \ {0}
    PROVE  a \div (l * s) = (a \div l) \div s
<1> DEFINE q == a \div l
           r == a % l
           t == q \div s
           u == q % s
           n == l * s
           v == a \div n
           w == a % n
<1>1. n \in Nat \ {0}
  OBVIOUS
<1>2. a = l * q + r /\ q \in Nat /\ r \in 0 .. l - 1
  BY DivModEq
<1>3. q = s * t + u /\ t \in Nat /\ u \in 0 .. s - 1
  BY <1>2, DivModEq
<1>4. a = n * v + w /\ v \in Nat /\ w \in 0 .. n - 1
  BY <1>1, DivModEq
<1> HIDE DEF q, r, t, u, v, w
<1>5. l * q = n * t + l * u
  <2>1. l * (s * t + u) = l * (s * t) + l * u
    BY <1>3
  <2>2. l * (s * t) = n * t
    BY <1>3
  <2> QED BY <1>3, <2>1, <2>2
<1>6. l * u + r \in 0 .. n - 1
  <2>1. l * u <= l * (s - 1)
    BY <1>3
  <2>2. l * (s - 1) = n - l
    OBVIOUS
  <2>3. l * u \in Nat
    BY <1>3
  <2> QED BY <1>1, <1>2, <2>1, <2>2, <2>3
<1>7. n * t + (l * u + r) = n * v + w
  <2>1. n * t \in Int /\ l * u \in Int
    BY <1>1, <1>3
  <2>2. n * t + l * u + r = n * v + w
    BY <1>2, <1>4, <1>5
  <2> HIDE DEF n
  <2>3. r \in Int /\ w \in Int
    BY <1>1, <1>2, <1>4
  <2> QED BY <2>1, <2>2, <2>3
<1> HIDE DEF n
<1>8. t = v
  BY <1>1, <1>3, <1>4, <1>6, <1>7, Quotient
<1> QED BY <1>8 DEF n, t, q, v

(* Tag and index give back the line of an address.                         *)
LEMMA AddressSplit ==
    ASSUME NEW a \in Word
    PROVE  LineBase(a) = (Tag(a) * SETS + Index(a)) * LINE
<1> DEFINE line == a \div LINE
<1>1. a \in Nat /\ LINE \in Nat \ {0} /\ SETS \in Nat \ {0}
  BY WordArith, GeometryAssumption
<1>2. a = LINE * line + WordIdx(a) /\ line \in Nat /\ WordIdx(a) \in Nat
  <2>1. a = LINE * (a \div LINE) + (a % LINE) /\ a \div LINE \in Nat /\ a % LINE \in 0 .. LINE - 1
    BY <1>1, DivModEq
  <2> QED BY <1>1, <2>1 DEF WordIdx
<1>3. Tag(a) = line \div SETS
  <2>1. a \div (LINE * SETS) = (a \div LINE) \div SETS
    BY <1>1, Mixed
  <2> QED BY <2>1 DEF Tag
<1>4. line = SETS * Tag(a) + Index(a) /\ Tag(a) \in Nat /\ Index(a) \in Nat
  <2>1. Index(a) = line % SETS
    BY DEF Index
  <2> HIDE DEF line
  <2>2. line = SETS * (line \div SETS) + (line % SETS) /\ line \div SETS \in Nat /\ line % SETS \in 0 .. SETS - 1
    BY <1>1, <1>2, DivModEq
  <2> QED BY <1>1, <1>3, <2>1, <2>2
<1> HIDE DEF line
<1>5. LineBase(a) = LINE * line
  <2>1. LINE * line \in Nat
    BY <1>1, <1>2
  <2> QED BY <1>2, <2>1 DEF LineBase
<1> QED BY <1>1, <1>2, <1>4, <1>5

(* A slot with the tag and index of an address holds the line of that      *)
(* address.                                                                *)
LEMMA FilledLine ==
    ASSUME NEW w \in Way, NEW s \in Set, NEW b \in Beat, NEW a \in Word,
           tag_array[w][s] = Tag(a), s = Index(a)
    PROVE  LineAddr(w, s, b) = LineBase(a) + b
BY AddressSplit DEF LineAddr

-----------------------------------------------------------------------------
(* The beat of this cycle is the next word of the line.                    *)
LEMMA BeatWord ==
    ASSUME Paired, CodeLines, Plain, BurstInv, Counted, Fills
    PROVE  /\ bus_data = mem[LineBase(miss_addr_reg) + refill_cnt]
           /\ refill_cnt \in Beat
           /\ bus_last <=> refill_cnt = LINE - 1
           /\ miss_addr_reg \in Code /\ miss_addr_reg \in Cacheable
<1>1. ic_state = "MISS_R" /\ bus_valid /\ is_cacheable
  BY DEF Fills, Beats
<1>2. /\ sram_read = "R" /\ state_load = "IFU_WAIT_R"
      /\ bus_last <=> beat_cnt = icache_arlen
      /\ beat_cnt \in 0 .. icache_arlen
  BY <1>1, LastBeat
<1>3. icache_arlen = LINE - 1 /\ arlen_reg = icache_arlen /\ araddr_reg = LineBase(miss_addr_reg)
  BY <1>1 DEF Paired, CacheAndBusPaired, icache_arlen, icache_araddr
<1>4. refill_cnt = beat_cnt
  BY <1>1, <1>2 DEF Counted
<1>5. bus_data = mem[Plus(araddr_reg, beat_cnt)]
  BY <1>1, <1>2, RefillBeats DEF Paired, BurstInv
<1>6. Plus(araddr_reg, beat_cnt) = araddr_reg + beat_cnt
  BY <1>1, <1>2, <1>3, GeometryAssumption, BeatInCode DEF Paired
<1>7. refill_cnt \in Beat
  BY DEF Paired, TypeOK, IcacheTypeOK
<1>8. miss_addr_reg \in Code /\ miss_addr_reg \in Cacheable
  BY <1>1, RefillBeats DEF Paired, is_cacheable
<1> QED BY <1>2, <1>3, <1>4, <1>5, <1>6, <1>7, <1>8

(* A slot that is not filled in this cycle keeps its line.                 *)
LEMMA LineKept ==
    ASSUME NEW w \in Way, NEW s \in Set, tag_array'[w][s] = tag_array[w][s]
    PROVE  \A b \in Beat : LineAddr(w, s, b)' = LineAddr(w, s, b)
BY DEF LineAddr

(* A cycle keeps what Lines says of a slot that is not filled.             *)
LEMMA SlotStep ==
    ASSUME Paired, CodeLines, Plain, BurstInv, Counted, Lines, CodeKept, Next,
           NEW w \in Way, NEW s \in Set, valid_array'[w][s], NEW b \in Beat
    PROVE  /\ LineAddr(w, s, b)' \in Code
           /\ ~InRefill(w, s)' => data_array'[w][s][b] = mem'[LineAddr(w, s, b)']
<1>1. /\ valid_array'[w][s] <=> valid_array[w][s] \/ (Fills /\ bus_last /\ Here(w, s))
      /\ tag_array'[w][s] = IF Fills /\ bus_last /\ Here(w, s) THEN Tag(miss_addr_reg)
                                                               ELSE tag_array[w][s]
      /\ data_array'[w][s][b] =
            IF Fills /\ Here(w, s) /\ b = refill_cnt THEN bus_data ELSE data_array[w][s][b]
  BY CacheMoves, FillMoves DEF Paired, TypeOK
<1>2. CASE Fills /\ bus_last /\ Here(w, s)
  <2> DEFINE a == miss_addr_reg
  <2>1. /\ bus_data = mem[LineBase(a) + refill_cnt] /\ refill_cnt = LINE - 1
        /\ a \in Code /\ a \in Cacheable
    BY <1>2, BeatWord
  <2>2. a \in Word /\ tag_array'[w][s] = Tag(a) /\ s = Index(a)
    BY <1>1, <1>2 DEF Here, Paired, TypeOK, IcacheTypeOK
  <2>3. LineAddr(w, s, b)' = LineBase(a) + b
    BY <2>2, AddressSplit DEF LineAddr
  <2>4. LineBase(a) + b \in Code
    BY <2>1 DEF CodeLines
  <2>5. data_array'[w][s][b] = mem[LineBase(a) + b]
    <3>1. CASE b = refill_cnt
      BY <1>1, <1>2, <2>1, <3>1
    <3>2. CASE b # refill_cnt
      <4>1. b < refill_cnt
        BY <2>1, <3>2, GeometryAssumption DEF Beat
      <4>2. ic_state = "MISS_R" /\ is_cacheable /\ w = miss_way_reg
        BY <1>2 DEF Fills, Beats, Here
      <4> QED BY <1>1, <2>2, <3>2, <4>1, <4>2 DEF Lines
    <3> QED BY <3>1, <3>2
  <2> HIDE DEF a
  <2> QED BY <2>3, <2>4, <2>5 DEF CodeKept
<1>3. CASE ~(Fills /\ bus_last /\ Here(w, s))
  <2>1. valid_array[w][s] /\ tag_array'[w][s] = tag_array[w][s]
    BY <1>1, <1>3
  <2>2. LineAddr(w, s, b)' = LineAddr(w, s, b) /\ LineAddr(w, s, b) \in Code
    BY <2>1, LineKept DEF Lines
  <2>3. ASSUME ~InRefill(w, s)' PROVE ~InRefill(w, s)
    <3> SUFFICES ASSUME InRefill(w, s) PROVE FALSE
      OBVIOUS
    <3>1. ic_state = "MISS_R" /\ is_cacheable /\ Here(w, s)
      BY DEF InRefill, Here
    <3>2. ic_state' = "MISS_R"
      BY <1>3, <3>1, CacheMoves DEF Fills, Beats
    <3>3. UNCHANGED <<miss_addr_reg, miss_way_reg>>
      BY <3>1, CacheMoves
    <3> QED BY <2>3, <3>1, <3>2, <3>3 DEF InRefill, Here, is_cacheable, Index
  <2>4. ASSUME ~InRefill(w, s)' PROVE data_array'[w][s][b] = mem[LineAddr(w, s, b)]
    <3>1. ~InRefill(w, s)
      BY <2>3, <2>4
    <3>2. ~(Fills /\ Here(w, s))
      BY <3>1 DEF InRefill, Fills, Beats, Here
    <3> QED BY <1>1, <2>1, <3>1, <3>2 DEF Lines
  <2> QED BY <2>2, <2>4 DEF CodeKept
<1> QED BY <1>2, <1>3

(* A cycle keeps what Lines says of the slot that is filled.               *)
LEMMA RefilledStep ==
    ASSUME Paired, CodeLines, Plain, BurstInv, Counted, Lines, CodeKept, Next,
           (ic_state = "MISS_R" /\ is_cacheable)', NEW b \in Beat, b < refill_cnt'
    PROVE  data_array'[miss_way_reg'][Index(miss_addr_reg)'][b] = mem'[LineBase(miss_addr_reg)' + b]
<1>1. refill_cnt \in Nat /\ b \in Nat /\ LINE \in Nat
  BY GeometryAssumption DEF Paired, TypeOK, IcacheTypeOK, Beat
<1>2. ic_state = "MISS_R"
  <2>1. ic_state = "MISS_AR" => refill_cnt' = 0
    BY CacheMoves DEF Beats, Counted
  <2> QED BY <1>1, <2>1, CacheMoves
<1>3. UNCHANGED <<miss_addr_reg, miss_way_reg>> /\ is_cacheable
  BY <1>2, CacheMoves DEF is_cacheable
<1>4. miss_way_reg \in Way /\ Index(miss_addr_reg) \in Set /\ Here(miss_way_reg, Index(miss_addr_reg))
  BY AddressFields DEF Paired, TypeOK, IcacheTypeOK, Here
<1>5. data_array'[miss_way_reg][Index(miss_addr_reg)][b] =
         IF Fills /\ b = refill_cnt THEN bus_data
         ELSE data_array[miss_way_reg][Index(miss_addr_reg)][b]
  BY <1>4, CacheMoves, FillMoves DEF Paired, TypeOK
<1>6. data_array'[miss_way_reg][Index(miss_addr_reg)][b] = mem[LineBase(miss_addr_reg) + b]
  <2>1. CASE Fills
    <3>1. /\ bus_data = mem[LineBase(miss_addr_reg) + refill_cnt]
          /\ refill_cnt \in Beat /\ ~bus_last /\ refill_cnt # LINE - 1
      BY <1>2, <2>1, BeatWord, CacheMoves DEF Fills, Beats
    <3>2. refill_cnt' = refill_cnt + 1
      <4>1. (refill_cnt + 1) % LINE = refill_cnt + 1
        BY <3>1, GeometryAssumption DEF Beat
      <4>2. refill_cnt' = (refill_cnt + 1) % LINE
        BY <1>2, <2>1, <3>1, CacheMoves DEF Fills
      <4> QED BY <4>1, <4>2
    <3>3. b = refill_cnt \/ b < refill_cnt
      BY <1>1, <3>2
    <3> QED BY <1>2, <1>3, <1>5, <2>1, <3>1, <3>3 DEF Lines
  <2>2. CASE ~Fills
    <3>1. refill_cnt' = refill_cnt
      BY <1>2, <2>2, CacheMoves DEF Fills
    <3> QED BY <1>2, <1>3, <1>5, <2>2, <3>1 DEF Lines
  <2> QED BY <2>1, <2>2
<1>7. LineBase(miss_addr_reg) + b \in Code
  BY <1>2, <1>3, RefillBeats DEF Paired, CodeLines, is_cacheable
<1>8. Index(miss_addr_reg)' = Index(miss_addr_reg) /\ LineBase(miss_addr_reg)' = LineBase(miss_addr_reg)
  BY <1>3 DEF Index, LineBase, WordIdx
<1> QED BY <1>3, <1>6, <1>7, <1>8 DEF CodeKept

(* Without the last beat no tag and no valid bit changes.                  *)
LEMMA TagsKept ==
    ASSUME Paired, Plain, Next, ~(Fills /\ bus_last), NEW w \in Way, NEW s \in Set
    PROVE  (valid_array'[w][s] <=> valid_array[w][s]) /\ tag_array'[w][s] = tag_array[w][s]
BY CacheMoves, FillMoves DEF Paired, TypeOK

(* A request that missed does not hit before its line is complete.         *)
LEMMA NoHitStep ==
    ASSUME Paired, CodeLines, Plain, Lines, Next, Refilling'
    PROVE  ~cache_hit'
<1>1. /\ ~cache_hit /\ ~(Fills /\ bus_last)
      /\ ic_state \in {"LOOKUP", "MISS_AR", "MISS_R"}
  BY CacheMoves DEF Refilling, Lines, Fills, Beats
<1>2. req_addr_reg' = req_addr_reg
  BY <1>1, CacheMoves DEF Paired, Coupled
<1>3. 0 \in Way /\ 1 \in Way /\ Index(req_addr_reg) \in Set
  BY AddressFields DEF Way, Paired, TypeOK, IcacheTypeOK
<1>4. \A w \in Way, s \in Set : /\ valid_array'[w][s] <=> valid_array[w][s]
                                /\ tag_array'[w][s] = tag_array[w][s]
  BY <1>1, TagsKept
<1>5. Index(req_addr_reg)' = Index(req_addr_reg) /\ Tag(req_addr_reg)' = Tag(req_addr_reg)
  BY <1>2 DEF Index, Tag
<1> QED BY <1>1, <1>3, <1>4, <1>5 DEF cache_hit, Hit

(* The two ways of a set never hold one tag.                               *)
LEMMA TagsDifferStep ==
    ASSUME Paired, CodeLines, Plain, Lines, Next, NEW s \in Set
    PROVE  ~(valid_array'[0][s] /\ valid_array'[1][s] /\ tag_array'[0][s] = tag_array'[1][s])
<1>0. 0 \in Way /\ 1 \in Way
  BY DEF Way
<1>1. CASE Fills /\ bus_last /\ s = Index(miss_addr_reg)
  <2>1. ic_state = "MISS_R" /\ miss_addr_reg = req_addr_reg /\ ~cache_hit
    BY <1>1 DEF Fills, Beats, Refilling, Paired, Coupled, Lines
  <2>2. \A w \in Way : ~(valid_array[w][s] /\ tag_array[w][s] = Tag(miss_addr_reg))
    BY <1>1, <2>1 DEF cache_hit, Hit, Way
  <2>3. miss_way_reg \in Way
    BY DEF Paired, TypeOK, IcacheTypeOK
  <2>4. \A w \in Way : /\ valid_array'[w][s] <=> valid_array[w][s] \/ w = miss_way_reg
                       /\ tag_array'[w][s] = IF w = miss_way_reg THEN Tag(miss_addr_reg) ELSE tag_array[w][s]
    BY <1>1, CacheMoves, FillMoves DEF Paired, TypeOK, Here
  <2>5. miss_way_reg = 0 \/ miss_way_reg = 1
    BY <2>3 DEF Way
  <2> QED BY <1>0, <2>2, <2>4, <2>5
<1>2. CASE ~(Fills /\ bus_last /\ s = Index(miss_addr_reg))
  <2>1. \A w \in Way : (valid_array'[w][s] <=> valid_array[w][s]) /\ tag_array'[w][s] = tag_array[w][s]
    BY <1>2, CacheMoves, FillMoves DEF Paired, TypeOK, Here
  <2> QED BY <1>0, <2>1 DEF Lines
<1> QED BY <1>1, <1>2

(* A cycle keeps Lines.                                                    *)
LEMMA LinesStep ==
    ASSUME Paired, CodeLines, Plain, BurstInv, Counted, Lines, CodeKept, Next
    PROVE  Lines'
<1>1. \A w \in Way, s \in Set, b \in Beat : valid_array'[w][s] =>
         /\ LineAddr(w, s, b)' \in Code
         /\ ~InRefill(w, s)' => data_array'[w][s][b] = mem'[LineAddr(w, s, b)']
  BY SlotStep
<1>2. (ic_state = "MISS_R" /\ is_cacheable)' =>
         \A b \in Beat : b < refill_cnt' =>
             data_array'[miss_way_reg'][Index(miss_addr_reg)'][b] = mem'[LineBase(miss_addr_reg)' + b]
  BY RefilledStep
<1>3. Refilling' => ~cache_hit'
  BY NoHitStep
<1>4. \A s \in Set : ~(valid_array'[0][s] /\ valid_array'[1][s] /\ tag_array'[0][s] = tag_array'[1][s])
  BY TagsDifferStep
<1> HIDE DEF LineAddr, InRefill, Index, LineBase, Refilling, cache_hit, is_cacheable
<1> QED BY <1>1, <1>2, <1>3, <1>4 DEF Lines

-----------------------------------------------------------------------------
(* A hit delivers the word of memory.                                      *)
LEMMA HitShowsMemory ==
    ASSUME TypeOK, Lines, cache_hit, ic_state # "MISS_R"
    PROVE  cache_data = mem[req_addr_reg]
<1> DEFINE w == hit_way
           s == Index(req_addr_reg)
           b == WordIdx(req_addr_reg)
<1>1. w \in Way /\ s \in Set /\ b \in Beat /\ req_addr_reg \in Word
  BY AddressFields, CacheDataType DEF TypeOK, IcacheTypeOK
<1>2. valid_array[w][s] /\ tag_array[w][s] = Tag(req_addr_reg)
  BY DEF cache_hit, hit_way, Hit
<1>3. LineAddr(w, s, b) = LineBase(req_addr_reg) + b
  BY <1>1, <1>2, FilledLine
<1>4. LineBase(req_addr_reg) + b = req_addr_reg
  BY <1>1, WordArith DEF LineBase, Beat
<1>5. ~InRefill(w, s)
  BY DEF InRefill
<1>6. cache_data = data_array[w][s][b]
  BY DEF cache_data
<1> HIDE DEF w, s, b
<1> QED BY <1>1, <1>2, <1>3, <1>4, <1>5, <1>6 DEF Lines

(* What the cache hands to the IFU is the word of memory at its address.   *)
LEMMA DeliveredWord ==
    ASSUME Paired, CodeLines, Plain, BurstInv, Lines, ifu_state = "WAIT_R", ifu_rvalid(bus_valid)
    PROVE  ifu_rdata(bus_data) = mem[pc_reg]
<1>1. req_addr_reg = pc_reg
  BY DEF Paired, Coupled
<1>2. CASE ic_state = "LOOKUP" /\ cache_hit
  BY <1>1, <1>2, HitShowsMemory DEF Paired, ifu_rdata
<1>3. CASE is_cacheable /\ refill_complete
  BY <1>1, <1>3, HitShowsMemory DEF Paired, Coupled, ifu_rdata
<1>4. CASE ~(ic_state = "LOOKUP" /\ cache_hit) /\ ~(is_cacheable /\ refill_complete)
  <2>1. ~is_cacheable /\ ic_state = "MISS_R" /\ bus_valid
    BY <1>4 DEF ifu_rvalid
  <2>2. sram_read = "R" /\ state_load = "IFU_WAIT_R" /\ beat_cnt = 0
    BY <2>1, LastBeat DEF icache_arlen
  <2>3. araddr_reg = miss_addr_reg /\ miss_addr_reg = pc_reg /\ bus_data = rdata_reg
    BY <2>1, RefillBeats DEF Paired, CacheAndBusPaired, icache_araddr
  <2>4. rdata_reg = mem[Plus(araddr_reg, beat_cnt)]
    BY <2>2 DEF BurstInv
  <2>5. Plus(araddr_reg, beat_cnt) = araddr_reg + 0
    BY <2>1, <2>2, BeatInCode DEF Paired, TypeOK, BusTypeOK
  <2>6. araddr_reg + 0 = araddr_reg
    BY WordArith DEF Paired, TypeOK, BusTypeOK
  <2> QED BY <1>4, <2>3, <2>4, <2>5, <2>6 DEF ifu_rdata
<1> QED BY <1>2, <1>3, <1>4

(* A cycle keeps Fetched.                                                  *)
LEMMA FetchedStep ==
    ASSUME Paired, CodeLines, Plain, BurstInv, Lines, Fetched, CodeKept, Next
    PROVE  Fetched'
<1>1. ifu_state' = "DONE" => inst_reg' = mem'[pc_reg']
  <2> SUFFICES ASSUME ifu_state' = "DONE" PROVE inst_reg' = mem[pc_reg] /\ pc_reg' = pc_reg
    BY DEF Plain, CodeKept
  <2>1. ifu_state \in {"WAIT_R", "DONE"}
    BY IfuMoves DEF Paired, TypeOK, IfuTypeOK, IfuState
  <2>2. CASE ifu_state = "WAIT_R"
    BY <2>2, IfuMoves, DeliveredWord
  <2>3. CASE ifu_state = "DONE"
    BY <2>3, IfuMoves DEF Fetched
  <2> QED BY <2>1, <2>2, <2>3
<1>2. if_id_valid' => if_id_out'.pc \in Code /\ if_id_out'.inst = mem'[if_id_out'.pc]
  <2> SUFFICES ASSUME if_id_valid'
               PROVE  if_id_out'.pc \in Code /\ if_id_out'.inst = mem[if_id_out'.pc]
    BY DEF CodeKept
  <2>1. IfIdClock
    BY DEF Next, PipeClock
  <2>2. \/ ifu_state = "DONE" /\ if_id_out' = if_id_in
        \/ if_id_valid /\ if_id_out' = if_id_out
    BY <2>1 DEF IfIdClock, Pipcon, ifu_valid
  <2>3. if_id_in.pc = pc_reg /\ if_id_in.inst = inst_reg
    BY DEF if_id_in
  <2> QED BY <2>2, <2>3 DEF Fetched, Plain
<1> QED BY <1>1, <1>2 DEF Fetched

-----------------------------------------------------------------------------
(* The inductive invariant of the fetch path.                              *)
FetchedRight == TrapFree /\ Redirect /\ Coupled /\ BurstInv /\ Counted /\ Lines /\ Fetched

(* After reset nothing is valid and nothing is under way.                  *)
LEMMA FetchInit == Init => FetchedRight
<1> SUFFICES ASSUME Init PROVE FetchedRight
  OBVIOUS
<1> USE DEF Init
<1>1. TrapFree
  BY DEF TrapFree, TrapOps, ZeroIdEx, ZeroExMem, ZeroMemWb
<1>2. Redirect
  BY DEF Redirect, ex_mispredict
<1>3. Coupled /\ Counted
  BY DEF Coupled, Counted, Refilling, IfuInit, IcacheInit, BusInit
<1>4. BurstInv
  BY DEF BurstInv, Reading, m_rready, BusInit, SocInit, SramInit
<1>5. Lines
  <2>1. \A w \in Way, s \in Set : ~valid_array[w][s]
    BY DEF IcacheInit
  <2>2. 0 \in Way /\ 1 \in Way /\ ic_state = "IDLE"
    BY DEF Way, IcacheInit
  <2> QED BY <2>1, <2>2 DEF Lines, Refilling
<1>6. Fetched
  BY DEF Fetched, IfuInit
<1> QED BY <1>1, <1>2, <1>3, <1>4, <1>5, <1>6 DEF FetchedRight

(* A stuttering step keeps the invariant.                                  *)
LEMMA FetchIdle ==
    ASSUME FetchedRight, UNCHANGED vars
    PROVE  FetchedRight'
<1> USE DEF vars
<1>1. TrapFree'
  BY DEF FetchedRight, TrapFree, pipeVars
<1>2. Redirect'
  <2>1. /\ UNCHANGED <<id_ex_valid, id_ex_out, ex_mem_valid, ex_mem_out, mem_wb_valid, mem_wb_out>>
        /\ UNCHANGED <<ex_data_latched, ex_rs1_latched, ex_rs2_latched, ifu_state>>
    BY DEF pipeVars, ifuVars
  <2> HIDE DEF vars
  <2>2. UNCHANGED <<rf_we, wb_final_wdata, mem_forward_data>>
    BY <2>1 DEF rf_we, wb_final_wdata, mem_forward_data
  <2>3. UNCHANGED <<ex_rs1, ex_rs2>>
    BY <2>1, <2>2 DEF ex_rs1, ex_rs2, forward_rs1, forward_rs2, Forward
  <2>4. ex_mispredict' <=> ex_mispredict
    BY <2>1, <2>3 DEF ex_mispredict, ex_ras_correct, ex_branch_taken, ex_branch_target
  <2> QED BY <2>1, <2>4 DEF FetchedRight, Redirect
<1>3. UNCHANGED <<cache_hit, is_cacheable>>
  BY DEF cache_hit, Hit, is_cacheable, icacheVars
<1>4. Coupled' /\ Counted'
  BY <1>3 DEF FetchedRight, Coupled, Counted, Refilling, ifuVars, icacheVars, busReadVars,
              sramVars, sramReadVars
<1>5. BurstInv'
  BY DEF FetchedRight, BurstInv, Reading, m_rready, busReadVars, sramVars, sramReadVars,
         sramWriteVars
<1>6. Lines'
  BY <1>3 DEF FetchedRight, Lines, LineAddr, LineBase, WordIdx, Index, InRefill, Refilling,
              icacheVars, sramVars, sramWriteVars
<1>7. Fetched'
  BY DEF FetchedRight, Fetched, ifuVars, pipeVars, sramVars, sramWriteVars
<1> QED BY <1>1, <1>2, <1>4, <1>5, <1>6, <1>7 DEF FetchedRight

(* Decode only ever receives the word that is in memory at the address it  *)
(* was fetched from (IF/ID, the IFU, the cache with its lookup, line burst *)
(* and LRU, the arbiter and the SRAM), for every geometry and latency, if  *)
(* the program runs in Code, nothing is stored to Code and no trap, mret   *)
(* or fence.i is executed.  The last two hypotheses cannot be dropped: see *)
(* the runs trap_refill and fence_i.                                       *)
THEOREM FetchShowsMemory ==
    ASSUME CodeLines
    PROVE  Spec /\ []Plain /\ [][CodeKept]_vars => []CacheShowsMemory
<1> DEFINE Known == TypeOK /\ FetchOnlyWhenDecodeEmpty /\ CacheAndBusPaired
<1>1. Init => FetchedRight
  BY FetchInit
<1>2. Known /\ Plain /\ FetchedRight /\ [Next]_vars /\ [CodeKept]_vars => FetchedRight'
  <2> SUFFICES ASSUME Known, Plain, FetchedRight, [Next]_vars, [CodeKept]_vars
               PROVE  FetchedRight'
    OBVIOUS
  <2>1. CASE UNCHANGED vars
    BY <2>1, FetchIdle
  <2>2. CASE Next /\ CodeKept
    <3>1. Paired
      BY DEF Paired, FetchedRight
    <3> HIDE DEF Known
    <3> QED BY <2>2, <3>1, TrapFreeStep, RedirectStep, CoupledStep, BurstStep, CountedStep,
               LinesStep, FetchedStep DEF FetchedRight, Paired
  <2> QED BY <2>1, <2>2
<1>3. TypeOK /\ FetchedRight => CacheShowsMemory
  <2> SUFFICES ASSUME TypeOK, FetchedRight PROVE CacheShowsMemory
    OBVIOUS
  <2>1. DecodesMemoryWord
    BY DEF FetchedRight, Fetched, DecodesMemoryWord
  <2>2. CachedLinesMatchMemory
    BY DEF FetchedRight, Lines, InRefill, CachedLinesMatchMemory
  <2> QED BY <2>1, <2>2 DEF CacheShowsMemory
<1> QED BY <1>1, <1>2, <1>3, TypeOKHolds, FetchOnlyWhenDecodeEmptyHolds,
           CacheAndBusPairedHolds, PTL DEF Spec, Known
=============================================================================
