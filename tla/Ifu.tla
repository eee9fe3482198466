-------------------------------- MODULE Ifu --------------------------------
(***************************************************************************)
(* The instruction fetch unit, npc/vsrc/frontend/ysyx_25040131_ifu.sv.     *)
(* One step of IfuClock is one rising clock edge with reset low; its       *)
(* parameters are the unit's input wires in the cycle before that edge.    *)
(*                                                                         *)
(* The output registers ifu_arvalid, ifu_rready and out_valid are set and  *)
(* cleared only together with ifu_state, so they are state functions here. *)
(* exc_valid is left out: the top level ties ifu_rresp to OKAY, so the     *)
(* access-fault branch (lines 119-123) is never taken.                     *)
(***************************************************************************)
EXTENDS Isa

CONSTANT PC_INIT     \* value of pc_reg after reset

ASSUME PcInitAssumption == PC_INIT \in Word

VARIABLES
    ifu_state,  \* IFU_IDLE, IFU_REQ_AR, IFU_WAIT_R or IFU_DONE
    pc_reg,     \* address of the current fetch
    inst_reg    \* the word fetched last

ifuVars == <<ifu_state, pc_reg, inst_reg>>

IfuState == {"IDLE", "REQ_AR", "WAIT_R", "DONE"}

IfuTypeOK == /\ ifu_state \in IfuState
             /\ pc_reg \in Word
             /\ inst_reg \in Word

(* Output wires. *)
ifu_arvalid == ifu_state = "REQ_AR"
ifu_rready  == ifu_state = "WAIT_R"
ifu_valid   == ifu_state = "DONE"

IfuInit == /\ ifu_state = "IDLE"
           /\ pc_reg = PC_INIT
           /\ inst_reg = 0

(* flush_req: back to IDLE from any state, at the redirected pc. *)
IfuFlush(next_pc) == /\ ifu_state' = "IDLE"
                     /\ pc_reg' = next_pc
                     /\ UNCHANGED inst_reg

(* Mutant: a fetch starts before the IF/ID register can take its result. *)
IfuStart_NoWait(next_ready) == /\ ifu_state = "IDLE"
                               /\ ifu_state' = "REQ_AR"
                               /\ UNCHANGED <<pc_reg, inst_reg>>

(* IDLE: a fetch starts only when the IF/ID register can take its result. *)
IfuStart(next_ready) == /\ ifu_state = "IDLE"
                        /\ ifu_state' = IF next_ready THEN "REQ_AR" ELSE "IDLE"
                        /\ UNCHANGED <<pc_reg, inst_reg>>

IfuReqAr(arready) == /\ ifu_state = "REQ_AR"
                     /\ ifu_state' = IF arready THEN "WAIT_R" ELSE "REQ_AR"
                     /\ UNCHANGED <<pc_reg, inst_reg>>

IfuWaitR(rvalid, rdata) == /\ ifu_state = "WAIT_R"
                           /\ ifu_state' = IF rvalid THEN "DONE" ELSE "WAIT_R"
                           /\ inst_reg' = IF rvalid THEN rdata ELSE inst_reg
                           /\ UNCHANGED pc_reg

(* DONE: hand the word to IF/ID and move to the predicted pc. *)
IfuDone(next_ready, next_pc) ==
    /\ ifu_state = "DONE"
    /\ ifu_state' = IF next_ready THEN "IDLE" ELSE "DONE"
    /\ pc_reg' = IF next_ready THEN next_pc ELSE pc_reg
    /\ UNCHANGED inst_reg

IfuClock(flush_req, next_pc, next_ready, arready, rvalid, rdata) ==
    \/ flush_req  /\ IfuFlush(next_pc)
    \/ ~flush_req /\ \/ IfuStart(next_ready)
                     \/ IfuReqAr(arready)
                     \/ IfuWaitR(rvalid, rdata)
                     \/ IfuDone(next_ready, next_pc)
=============================================================================
