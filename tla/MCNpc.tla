------------------------------- MODULE MCNpc -------------------------------
(***************************************************************************)
(* Instances of Npc for TLC: decode tables, memory images and reset values *)
(* of the runs.  Word k of a table is instruction k.  Code starts at word  *)
(* 0, the word at DATA is the data of loads and stores.                    *)
(***************************************************************************)
EXTENDS Npc, FiniteSets, TLC

DATA == 12
SPIN == 15

(* An instruction; the field csr matters to CsrInstr only. *)
Instr(op, rd, rs1, rs2, imm) ==
    [op |-> op, rd |-> rd, rs1 |-> rs1, rs2 |-> rs2, imm |-> imm, csr |-> "mscratch"]
CsrInstr(rd, c, rs1) == [Instr("csrrw", rd, rs1, 0, 0) EXCEPT !.csr = c]
Nop                  == Instr("addi", 0, 0, 0, 0)
Back(n)              == WORDS - n
Table(t)             == [w \in Word |-> IF w \in DOMAIN t THEN t[w] ELSE Nop]
Spin                 == SPIN :> Instr("jal", 0, 0, 0, 0)

(* The program prog from word 0 on, jumps-to-self behind it, 2 at DATA. *)
Image(prog) == [a \in Word |-> CASE a + 1 \in DOMAIN prog -> prog[a + 1]
                                 [] a = DATA              -> 2
                                 [] OTHER                 -> SPIN]

(* x3 points to the data. *)
MCRegs == [r \in Reg |-> IF r = 3 THEN DATA ELSE 0]

-----------------------------------------------------------------------------
(* Data hazards: every loop of four instructions from 1 .. 5.  From its     *)
(* second round on the loop runs from the cache with trained predictors, so *)
(* instructions bunch up behind a slow load or store.                       *)
HazardDecode == Table(Spin @@
    (1 :> Instr("addi", 1, 2, 0, 1)) @@
    (2 :> Instr("add", 2, 1, 1, 0)) @@
    (3 :> Instr("lw", 1, 3, 0, 0)) @@
    (4 :> Instr("sw", 0, 3, 2, 0)) @@
    (5 :> Instr("beq", 0, 1, 2, 2)) @@
    (6 :> Instr("jal", 0, 0, 0, Back(4))))
HazardImages == { Image(p \o <<6>>) : p \in [1 .. 4 -> 1 .. 5] }

-----------------------------------------------------------------------------
(* Branch prediction: every loop of five instructions from 1 .. 5, with     *)
(* calls, returns through x1 and branches, in a cache of one set, so that   *)
(* most rounds miss; the second half of the loop is not cacheable.          *)
PredictDecode == Table(Spin @@
    (1 :> Instr("jal", 1, 0, 0, 2)) @@
    (2 :> Instr("jalr", 0, 1, 0, 0)) @@
    (3 :> Instr("beq", 0, 1, 2, 2)) @@
    (4 :> Instr("jalr", 1, 1, 0, 1)) @@
    (5 :> Instr("addi", 2, 2, 0, 4)) @@
    (6 :> Instr("jal", 0, 0, 0, Back(5))))
HalfCode == 0 .. 3
PredictImages == { Image(p \o <<6>>) : p \in [1 .. 5 -> 1 .. 5] }

-----------------------------------------------------------------------------
(* Traps: a prologue sets mtvec to HANDLER, then every loop of four         *)
(* instructions from 1 .. 6; the handler steps over the trapping            *)
(* instruction.  Left out: a load right behind an ecall, and two CSR        *)
(* accesses in a loop with a load, whose defects the runs trap_store and    *)
(* csr_hazard show.                                                         *)
HANDLER == 8
TrapDecode == Table(Spin @@
    (1 :> Instr("ecall", 0, 0, 0, 0)) @@
    (2 :> CsrInstr(1, "mscratch", 2)) @@
    (3 :> CsrInstr(2, "mstatus", 1)) @@
    (4 :> Instr("addi", 2, 2, 0, 4)) @@
    (5 :> Instr("beq", 0, 1, 2, 2)) @@
    (6 :> Instr("lw", 1, 3, 0, 0)) @@
    (7 :> Instr("jal", 0, 0, 0, Back(4))) @@
    (8 :> Instr("addi", 2, 0, 0, HANDLER)) @@
    (9 :> CsrInstr(0, "mtvec", 2)) @@
    (10 :> CsrInstr(1, "mepc", 0)) @@
    (11 :> Instr("addi", 1, 1, 0, 1)) @@
    (12 :> CsrInstr(0, "mepc", 1)) @@
    (13 :> Instr("mret", 0, 0, 0, 0)))
TrapLoops == { p \in [1 .. 4 -> 1 .. 6] :
                 /\ \A i \in 1 .. 4 : p[i] = 1 /\ i < 4 => p[i + 1] # 6
                 /\ \/ \A i \in 1 .. 4 : p[i] # 6
                    \/ Cardinality({i \in 1 .. 4 : p[i] \in {2, 3}}) < 2 }
TrapImages == { Image(<<8, 9>> \o p \o <<7, SPIN, 10, 11, 12, 13>>) : p \in TrapLoops }

-----------------------------------------------------------------------------
(* Devices: every program of four instructions from 1 .. 6 in one cache     *)
(* line, with loads and stores of the UART and loads of the CLINT's mtime.  *)
UART == DATA + 1
RTC  == DATA + 2
DeviceDecode == Table(Spin @@
    (1 :> Instr("addi", 1, 1, 0, 1)) @@
    (2 :> Instr("lw", 2, 3, 0, 0)) @@
    (3 :> Instr("sw", 0, 3, 1, 0)) @@
    (4 :> Instr("sw", 0, 3, 1, 1)) @@
    (5 :> Instr("lw", 1, 3, 0, 1)) @@
    (6 :> Instr("lw", 1, 3, 0, 2)))
DeviceImages == { Image(p) : p \in [1 .. 4 -> 1 .. 6] }
DeviceSram == Word \ {UART, RTC}
CodeAddr   == 0 .. 7

-----------------------------------------------------------------------------
(* Single programs for the runs that show a defect. *)
DefectDecode == Table(Spin @@
    (1 :> Instr("addi", 2, 2, 0, 1)) @@
    (2 :> Instr("lw", 1, 3, 0, 0)) @@
    (3 :> Instr("sw", 0, 3, 2, 0)) @@
    (4 :> Instr("ecall", 0, 0, 0, 0)) @@
    (5 :> Instr("fence_i", 0, 0, 0, 0)) @@
    (6 :> CsrInstr(0, "mscratch", 2)) @@
    (7 :> CsrInstr(1, "mscratch", 0)) @@
    (8 :> Instr("illegal", 0, 0, 0, 0)) @@
    (9 :> Instr("jal", 1, 0, 0, 1)) @@
    (10 :> Instr("addi", 1, 1, 0, 3)) @@
    (11 :> Instr("jalr", 0, 1, 0, 0)) @@
    (12 :> Instr("sw", 0, 3, 1, 0)) @@
    (13 :> Instr("jal", 0, 0, 0, Back(4))) @@
    (14 :> Instr("jal", 1, 0, 0, 3)) @@
    (0 :> Instr("jal", 0, 0, 0, Back(1))))
FenceImages     == { Image(<<1, 5, 1, 1>>) }                \* fence.i ends a line
TrapStoreImages == { Image(<<1, 2, 4, 3>>) }                \* lw; ecall; sw
CsrImages       == { Image(<<1, 2, 6, 7, 13>>) }            \* lw; csrrw; csrrw
RasImages       == { Image(<<9, 10, 11, SPIN, 13>>) }          \* call; move x1; ret
EpilogueImages  == { Image(<<14, 0, SPIN, 12, 2, 11>>) }       \* call; sw; lw; ret
IllegalImages   == { Image(<<1, 8>>) }
StoreImages     == { Image(<<1, 3>>) }
RefillImages    == { Image(<<1, 1, 3, 4>>) }                \* sw; ecall in one line, before the next
NoDataSram      == Word \ {DATA}

(* "Push on call, pop on ret": the return stack moves when a call or return *)
(* leaves the decode stage, once for each.                                  *)
RasMovesWithDecode == [][ras_sp' # ras_sp => jump_req \/ if_id_ready]_vars

(* "A bad address returns DECERR": every store the bus has taken from the   *)
(* LSU is answered, a store to an address that no slave owns too.           *)
StoresAreAnswered == lsu_store = "STORE_RESP" ~> lsu_bvalid_reg
=============================================================================
